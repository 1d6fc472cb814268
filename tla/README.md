# Verification of geist-watch

geist-watch turns a stream of answers to one question per rule ("is the front
door open?": yes, no, unknown) into a few events worth telling a person. The
answers come from a vision model that is slow, sometimes wrong and sometimes
silent; the promise of the program is about *evidence*: nothing is announced that
was not watched, nothing that was watched is dropped in silence, and what is not
known is never counted as known. This directory holds TLA+ models of the code
that keeps that promise, TLC configurations that check them on small instances,
and TLAPS proofs for every value of the constants.

Line numbers in `PROJECT.json` tie every definition to the code it models.

## 1. The system

| Component | Code | State | Operations |
|---|---|---|---|
| watch core | `src/gw_state.c`, `include/geist_watch.h` | `struct gw_watch`: up to 8 rules, each with its candidate evidence, confirmed value, arming, latch, open run | `gw_init`, `gw_add_rule`, `gw_observe`, `gw_tick`, `gw_get_state` |
| scene manifest parser | `src/gw_manifest.c` | the scene read so far, the window in force | `gw_scene_parse` |
| scene replay | `src/gw_score.c` `walk` | a watch, the walk's clock and cursors, detections, observed and unknown time | `gw_replay`, the availability part of `gw_score` |
| scoring | `src/gw_score.c` | events already matched, three counts | `gw_score` |
| report and criteria | `src/gw_report.c`, `benchmarks/report_check.c` | two parsed files, grades | `gw_criteria_parse`, `gw_report_parse`, `gw_report_grade`, the command |
| model installer | `tools/fetch-model.sh` | the install, staging and set-aside directories on disk | install, `--verify-only`, `--force` |
| rule compiler | `src/gw_rules.c` | none | `gw_rule_compile`, `gw_region_parse`, `gw_region_pixels`, lookups of fixed texts |
| event renderer | `src/gw_event.c` | the caller's buffer | `gw_event_render` |
| replay command | `benchmarks/replay.c` | a count of missed floors, cursors over files and rules | the command: floors, exit status |
| W03 pipeline, model tools | `tools/w03-*.sh`, `tools/pin-model.sh`, `tools/vlm-observe.sh`, `.github/workflows/w03.yml` | files around an external model run | |

**How they interact.** Everything is a call. A driver (the replay today, a
camera loop later) owns a `gw_watch` and its clock: it calls `gw_observe` when an
answer arrives and `gw_tick` when time passes, and the core has no thread, no
clock and no memory beyond the record. The parser hands a `struct gw_scene` to
the replay; the replay drives the core over it and hands detections to the
scoring; the replay command asks its floors of the counts, file by file and rule
by rule, and metrics reach the other gate, `report_check`, as a text report. The
rule compiler turns a sentence into a configuration it tries on the core before
it returns it, and the renderer turns an event into a line; neither keeps
anything. The installer shares nothing but the file system, with other runs of
itself.

**What is hard.**

- *Order of calls.* Observations, ticks, queries and restarts may come in any
  order and at any instant. Expiry acts only in `gw_tick`; an arrival is latched
  in `gw_observe` and reported by a later `gw_tick`; one contrary answer breaks a
  run that the confirmed value does not yet reflect. Fields that usually move
  together come apart.
- *Restart.* `gw_init` in the middle of a run, a latch or an armed wait.
- *Late delivery in the replay.* Samples and restarts are taken up at the next
  tick, restarts first.
- *Greedy matching* with windows that overlap or open out of order.
- *Order of lines* in a manifest or report that is checked as it is read.
- *Words* that belong to two templates, two languages or none, numbers without a
  unit the tables know, and durations said twice.
- *Rounding* of regions to pixels, *calendar* boundaries, and a *bounded buffer*
  that must hold a whole record or none.
- *A gate* that must stay closed for any rule of any file, and must not close
  where there was nothing to measure.
- *The file system* in the installer: two runs at once, a run killed between two
  renames, process ids that come back.

**What makes each component correct** is listed with its properties in section 3,
and every hazard with its line in `PROJECT.json`.

## 2. Modules

| Module | Models | Built on |
|---|---|---|
| `GwRule` | one rule's runtime: every static function of `gw_state.c` as an operator on the record | |
| `GwWatch` | the five calls, one action each, with every refusal | `GwRule` |
| `GwEvidence` | what a history of answers shows: belief, arrival, held duration | |
| `GwPromise` | abstract specification of one rule, on the history alone | `GwEvidence` |
| `GwWatchHistory` | `GwWatch` with the accepted observations as history variable, and the refinement mapping to `GwPromise` | `GwWatch`, `GwEvidence`, `GwPromise` |
| `GwScene` | what the parser guarantees to replay and scoring | |
| `GwReplay` | `walk()`: composes the actions of `GwWatch` in the order the loop takes them | `GwWatch`, `GwScene` |
| `GwScore` | the matching loop of `gw_score` | `GwScene` |
| `ReplayCommand` | `benchmarks/replay.c`: files, rules, scoring, floors, exit status | `GwScore` |
| `GwManifest` | `gw_scene_parse`, one action per keyword | `GwRule` (values), `GwScene` |
| `GwReport` | `report_check`: both parsers, provenance, grading, exit status | |
| `GwRegion` | region texts, and their pixels in a frame | |
| `GwSentence` | `gw_rule_compile`, every refusal in its order, and the cropping of frames | `GwRule` (usable configurations), `GwRegion` |
| `GwEvent` | `gw_event_render` with a caller that sizes up and retries | |
| `FetchModel` | `fetch-model.sh`, any number of runs on one file system | |
| `GwWatchProofs`, `GwWatchHistoryProofs`, `GwReplayProofs`, `GwManifestProofs`, `GwReportProofs`, `FetchModelProofs` | theorems | the module each is named for (`GwWatchProofs` also proves of `GwRule`) |
| `ReplayCommandProofs` | theorems on scoring and on the command that judges by it | `ReplayCommand` |
| `GwTextProofs` | theorems on regions, sentences and events | `GwSentence`, `GwEvent` |
| `MC*` | instances for TLC; `MCGwTools` puts the parts that read one input into one, `MCGwInterleavings` the two whose steps come in any order | |

### Correspondence

*`GwRule`/`GwWatch`.* Record fields keep their C names without `_ns`. `Accept` is
`gw_observe` past its refusals: `Stamp`, `Count`, `BreakOnContrary`, then
`Promote`, in that order. `Age` is the body of `gw_tick` up to the drain.
`TickForward` visits the live rules in index order: the first `cap` due rules are
written, every latch is drained, and `LIMIT` is returned if there were more.
`ret` holds what the last call gave back. A slot that `gw_add_rule` wrote before
it found the id too long stays past `rule_count`, as in the code. Identifiers are
told apart only by whether `copy_id` takes them. `CountMax` is `UINT32_MAX`.
Times are unbounded integers: the code adds, subtracts and compares them, and
multiplies once (`max_gap_ns * 10`; the overflow is listed as a hazard).

*`GwReplay`.* `pc` is the place in the loop: `boot` (gw_init done, rules being
added; also where due restarts are taken), `samples`, `account`, and the three
ways of returning. The `rule` cursor is the inner loop over rules. The frame
number is the sample's index plus one, the tick has room for every rule, and the
number of detections can outgrow the caller's array, which ends in `limit`.

*`GwScore`.* One detection per step. `Answers` is the inner loop's outcome,
including its early exit at the first open event that is still to come. `Call` is
the entry of the function: the counts and the events taken start empty.

*`ReplayCommand`.* A file stands as the outcome of reading, parsing and replaying
it: a scene with its truth and its detections, or one of the three failures that
end the run. `Match` is a step of the scoring, `Judge` a rule's floors. Floors
and ratios are compared as fractions, and a ratio of nothing is zero, as
`wilson()` gives it.

*`GwSentence`, `GwRegion`.* A sentence is a sequence of tokens; of a token the
model knows the bytes `normalise()` copies and the words it leaves, of a word the
table terms it begins with and its leading digits. The tables themselves
(templates, negations, numerals, units) are those of the code; terms spelled with
and without umlaut appear once. `Refusals` lists the checks of `gw_rule_compile`
in their order and the first that holds decides. `Scan` yields every duration
`scan_durations` finds, where the code keeps the first and how many there were.

*`GwEvent`.* A character is a string, the constant text of a key one character.
The calendar is the code's, with C's truncating division; clocks may have fewer
seconds, minutes and hours. `Written` is the writer that counts on when the
buffer is full, `TooLong` the refusal that takes back what was written, `SizeUp`
a caller that follows the header and renders again.

*`GwManifest`, `GwReport`.* A line is a keyword with its token values and a flag
that says whether the tokens are well formed; a step reads one line. Wording and
line numbers of errors are left out. `GwReport` keeps the lines it has read, so
that its properties speak of the text and not of what the parser made of it.

*`FetchModel`.* Each command that touches a path another run can reach is one
step. A directory has the contents of its pinned files and a set of what an `mv`
put *inside* it, each under its own name: `mv DIR TARGET` nests when the target
exists, and refuses when a non-empty directory of that name is in it. `DestName`
and `StageName` are what tells those names apart. A run may `Fail` (any command fails
and `set -e` runs the EXIT trap) or be killed (nothing is cleaned up) anywhere.

## 3. Runs

Times and counts are those of two TLC workers.

**`interleavings`**. The two parts whose difficulty is the order of steps; which
one runs is chosen in the initial state, and the other keeps still.

*The watch* (`GwWatch`, one slot, times 0..4, two frames, four answers of
which one is outside the enum, capacities 0 and 1, five configurations of which
three are malformed). Every order of the five calls.

- `TypeOK`; `RuleInv`: belief, arming, latch and open run of a live rule are each
  backed by the evidence being counted.
- `QueryMatchesTick`: `gw_get_state` says what a tick at the same instant leads to.
- `NoReportBeforeDuration`: a sustained rule is reported only on fresh, unbroken
  evidence at least `confirm_window + sustain` old.
- `NoSilentLoss`: a latch leaves only by a report, a `LIMIT`, or a restart.

Rules of a watch never read each other, so one slot shows every behaviour of a
rule; what crosses rules is the capacity of `out_fired`, reached here with 0, and
two rules run side by side in `replay`. Five instants are enough for an
evidence window, a gap, its boundary and a run on top; three counts for a counter
that saturates.

*The installer* (`FetchModel`, two processes, two files, an installed and a
tampered directory at first; runs repeat without end). `DestComplete`: the final
path holds what the user had or a whole model. `NothingLost`: a whole install,
once there, survives at the path or set aside. `TrueWhenAlone`: `installed` and
`verified` are true reports of a run that had no other beside it. With another one
they need not be: the second `mv` can nest its staging inside the first one's
install and still report success; `DestComplete` holds even then. Symmetry in the
process ids is sound: no definition names one. The view forgets of a run that has
ended all but what it left on disk: `Launch` sets every other variable of it anew,
and no property reads an idle run's.

**`watch_history`** (histories up to 4 answers, times 0..3, three rules).
`SummaryIsFaithful`: the counters are exactly a summary of all accepted answers
since sight was last lost. `KeepsPromise`: every rule implements `GwPromise`,
which knows only that history, what is owed and what was told.

**`replay`** (two rules; up to three samples at times 0..5, ticks of 1 and 2, at
most one restart; scenes with a rule that `gw_add_rule` refuses; and four samples
at times 0..3 that may be labelled `unknown`, for a door that needs two answers to
confirm).
`OnlyARuleCanFail`, `EveryIntervalAccounted`, `OutageIsUnknown` (an interval counts
as observed only if this process was shown a yes or a no and the rule has been in
sight ever since; answers of `unknown` that do not confirm keep it in sight, and
with them the belief), `LongOutageNoticed` (the first answer after a gap that
exceeds `max_gap` by more than a tick finds a rule that lost sight; at exactly a
tick more it need not: answers at 0 and 3, tick 1, `max_gap` 2), `DetectionsAreWatched`, `DetectedOnTime` (a detection bears
the first tick at which its event could be told, and what is due at the end was
told), and under fairness `LatchReported` and `ReplayReturns`. `max_gap` is 2 in the first scenes, so
samples 5 apart make an outage under both ticks; with a capacity of one detection
both `done` and `limit` are reached.

**`tools`**. The parts that read one input each and share no state; which of them
runs is chosen in the initial state, and the others keep still.

- *Manifests* (25 lines, good and bad, in every order, at most two rules, events,
  samples and restarts). `AcceptedIsUsable`: whatever the order of lines, what is
  accepted satisfies the assumptions of `GwReplay` and `GwScore`.
- *Criteria and reports* (two provenance fields, two metrics, files of up to five
  lines). `ZeroMeansDemonstrated`: exit 0 only if the text names every provenance
  field and every requirement is met by the line that reports its metric,
  uncontradicted. `EveryCriterionAnswered`: each requirement of the text has its
  own grade, never a leftover zero (which reads as PASS), and `failed` counts all
  that did not pass.
- *Scoring* (up to three events and three detections of two rules).
  `CountsAreAMatching`, `AgreesWhenApart` (the matching is maximum when windows
  do not overlap), `GreedyIsEarliest`.
- *The replay command* (up to two files out of ten: unreadable, refused, too many
  detections, silent scenes of both kinds, good, wrong and late detections, two
  rules; each floor missing, 0, a half or 1). `GateIsDeserved`: exit 0 only if
  every file was a scene and every rule with something expected or detected meets
  both floors under some one-to-one matching, so neither order, greed nor a later
  rule opens the gate. `GateIsFair`: exit 1 on readable scenes only if some rule
  has overlapping windows or misses a floor under every matching.
- *Sentences* (both templates in both languages, incomplete and mixed, with up to
  three words before or after: numbers in digits and words, joined to a unit,
  zero, fractional or too large, units the table has and has not, a negation;
  requests with every parameter zero, negative or set; eleven region texts and
  frames of 1, 3 and 7 pixels). `CoreNeverRefuses`, `ArmsWhatItSays`,
  `SaidIsMeant` (the duration said is the duration armed), `RegionIsShown`.
  `Ppm` is 100 and `SentenceCap` 32, so both limits are met.
- *Events* (ids of one and two characters of every kind, pairs of events whose
  ids differ by where a colon stands, the last days of February, March and
  December in every year an int64 of nanoseconds reaches, and instants around
  1970; a minute of 2 seconds, an hour of 2 minutes, a day of 3 hours, 4 units a
  second; buffers of 0 and 100 characters, sized up by the caller).
  `RecordWholeOrNothing`, `RecordReadsBack` (a reader of JSON gets the fields
  back), `EventIdsTellApart`, `TimesAreTheInstants` (against a calendar that
  counts the days of every year before).

Deadlock is not checked where the modelled program returns (`replay`, `tools`) or
where a history is bounded.

### Disagreements between code and documents

Each is a run expected to find a violation, with the quotation in
`PROJECT.json`.

- `held_is_reported`: a sustained run broken by one unconfirmed contrary answer is
  never reopened while the confirmed value stays at the target, because
  `set_confirmed` returns early. A door that stays open after one misread answer
  is never reported. This is the one that matters most.
- `arrival_was_watched`: evidence that stops by silence disarms an appearance,
  evidence that stops by a confirmed `unknown` does not.
- `gap_noticed`: `tick <= max_gap` is not enough for a gap never to pass between
  two ticks; `LongOutageNoticed` is what does hold.
- `dated_by_observation`: `gw_bench.h:115` says a detection carries the time of the
  observation that completed it, the code records the tick's. `DetectedOnTime` says
  which tick.
- `one_process`: a restart between two samples of one tick interval is taken
  before both.
- `greedy_any_window`: with two `match_window` lines a later event may open
  earlier, and the early exit misses it.
- `durations_dropped`: a number before a unit the table does not know, a zero, or
  a number written with a fraction is passed over, and the sentence compiles with
  another duration. `SaidIsMeant` is what holds of the durations it does read.
- `copy_fits`: `normalise` checks its bound before it adds the pending space, so
  the terminator can come one byte behind the copy.

Met but not given a run: `fetch-model.sh:198` says an aborted run leaves the
previous install untouched, while one killed between its two `mv` leaves it under
`$DEST.old.<pid>` only (`NothingLost` is what holds). The German `Lieferung` belongs to the nouns
and, by its stem, to the verbs of the package template, so that it is a whole
sentence. Rule ids of manifests may hold colons, which those of sentences may
not, and then two events can share an `event_id`. `sechs` begins with the unit
`sec`; `SaidIsMeant` leaves sentences with such a word aside.

## 4. Fairness

Only `GwReplay` has liveness properties. `WF_rvars(RNext)` says that the walk, a
single thread that waits for nothing, does not stop in the middle of the loop. The
core itself has no process and so no fairness: in `GwWatch` nothing obliges a
caller to tick, which is why `LatchReported` is checked where a caller does.
`FetchModel` has none: a run may be killed at any command.

## 5. Proofs

All proofs are for every value of the constants, under the named ASSUMEs of the
modules, and TLC evaluates these in every run. They say what the C types and the
parsers guarantee: `CountMax` and `MaxRules` positive, times integers,
configurations typed; a line of a manifest or report that is well formed has the
tokens its parser hands over; an event's texts are sequences of characters, its
numbers have at most twenty digits and its times are days that an int64 of
nanoseconds reaches; minutes and hours have 1 to 60 parts, a day 1 to 24 hours, a
second at most 1000 times `NsPerMilli`; in `FetchModel` there is at least one
file, manifests are over the contents, and `Absent` is not a directory.

Every invariant that a run checks is also a theorem, and so are the action
properties `NoReportBeforeDuration`, `NoSilentLoss`, `OutageIsUnknown`,
`NothingLost` and `TrueWhenAlone`, and the refinement.

*Watch.* `GwWatchProofs` shows of each operator of `GwRule` what it keeps: first
its fields, then that `RuntimeInv` survives `Accept`, `Age` and `Drain`. Then it
lifts that to the calls. The inductive invariant is `IInv == TypeOK /\ RuleInv`.
`TypeOK` alone would not do: it states that live rules have usable
configurations, and `RuntimeInv` needs a positive `confirm_count` to conclude
that a confirmed value is backed by evidence. `RuntimeInv` is the strengthening
the other properties rest on: an open run has the target as candidate, confirmed
when the run began, at least `confirm_window` after the first agreeing answer.
From it follow, for any number of rules, any configurations and any clock,

- `TypeCorrect`, `RuleInvariant`,
- `QueryIsTick` (`QueryMatchesTick`),
- `NeverEarly` (`NoReportBeforeDuration`): `Matured` gives `sustain` since the run
  opened, `OpenRunIsBacked` the window before it, and not being expired the
  freshness,
- `NoEventLostSilently` (`NoSilentLoss`): only a tick drains, what it drains is
  due, and if a due rule is not among the first `cap` then more than `cap` are due.

*The promise.* `GwWatchHistoryProofs` takes the histories on board: `HInv` adds to
`IInv` that every live rule `Reflects` its history. `Reflects` is stronger than
`SummaryIsFaithful`: besides the counters (`CountReflects`: from the first of the
newest agreeing answers, up to `CountMax`) it says that the confirmed value is the
newest confirmation's, that a rule is armed exactly if the history shows an
absence not ended by the target, and that an open run began at a confirmation of
the target with nothing else since. Its core is `ConfirmsIsConfirming`: the
counter and one time decide a confirmation as a search of the whole history does,
because times do not descend and a saturated counter is still at least any
`confirm_count`. `AcceptReflects` appends an answer, `AgeReflects` ends or keeps
the history. `FaithfulSummary` (`SummaryIsFaithful`) follows, and `PromiseKept`
(`KeepsPromise`) maps each call to the step of `GwPromise` it implements:
`gw_init` and a new rule to `Forget`, an accepted answer to `Hear`, a tick to
`ReportBlind` or `ReportSighted`, everything else to `Quiet`. It assumes that
`out_fired` has room for every rule; with less a due report is cut off, and
`NoSilentLoss` is what remains.

*Replay.* `GwReplayProofs` stacks four inductive invariants, for any scene the
parser accepts and any rules.

- `AccountInv`: what is accounted is the time the clock has walked, the clock is
  less than a tick past the last sample, and samples due were read before an
  interval is booked. Gives `NoIntervalLost` (`EveryIntervalAccounted`).
- `WalkInv` adds the watch's `IInv`, the place in the loops, that neither the
  watch's clock nor any rule's last frame is ahead of the walk, and that what a
  rule heard last is a sample that names it. So every answer has a newer frame
  and every tick a later time: `OnlyARuleFails` (`OnlyARuleCanFail`). It gives
  `LongOutageIsNoticed` (`LongOutageNoticed`), with `OutageTicked`: between two
  samples further apart than `max_gap` and a tick lies a tick that expires the rule.
- `TellInv` adds that ticks lie on the grid and that each rule's arm, latch and
  run are backed by the scene: an absence taken up by this process, at a latch an
  arrival after it at this very tick, at a run the sample that shows the target
  where it began, and, until it is told, a duration not over at the last tick.
  From it `AppearancesAreWatched` (`DetectionsAreWatched`), and
  `DetectionsAreOnTime` (`DetectedOnTime`): a run matures at the first tick not
  before its duration is over, and when the walk ends nothing is due.
- `SightInv` adds that what a rule believes was shown to this process, and that
  every answer taken up since was followed by another in time, down to the one
  heard last, whose age the tick before the booking has checked. At the step that
  books an interval this is `OutagesAreUnknown` (`OutageIsUnknown`). The belief and
  the evidence part ways here: the newest answers may be unconfirmed.

*Manifests.* `GwManifestProofs`: `AcceptedManifest` (`AcceptedIsUsable`), for any
lines in any order and any capacities. `ManifestInv` holds line by line what does
not depend on lines to come (order, names, windows, references), and `End` adds
what only the last line settles, the tick.

*Reports.* `GwReportProofs`: `ZeroIsEvidence` (`ZeroMeansDemonstrated`) and
`NoCriterionUnanswered` (`EveryCriterionAnswered`), for any texts and table
sizes. While no line was refused the tables are those of the texts: the k-th item
is the k-th line that requires something, which is where `Rank` comes from, and
every metric line has its entry. `GradesSoFar` says that the loop has given a
verdict on each criterion before `i` and counted those that are no pass.

*Scoring and its gate.* `ReplayCommandProofs`, for any events, detections, files
and floors. `MatchInv`: what is matched so far is one-to-one and inside the
windows, hits and false alarms add up to the detections looked at, hits and open
events to the events; so `MatchingCounts` (`CountsAreAMatching`). `ApartInv`: if
windows do not overlap, an event that has a detection in time is taken once that
detection was looked at. Then a matching of more pairs would have two of one
event: `GreedyIsOptimal` (`AgreesWhenApart`). `EarliestTaken`: with one
`before_ns` the early exit leaves no open event whose window holds the detection:
`EarliestAnswered` (`GreedyIsEarliest`). `GateInv`: as long as no floor was missed
every floor asked so far is met, by the matching `MatchInv` describes, and 0 is
returned only past the last file: `DeservedGate` (`GateIsDeserved`). `FairInv`
is the converse: a failure counted is a floor missed under every matching, since
the greedy one has the most pairs: `FairGate` (`GateIsFair`).

*Regions and sentences.* `GwTextProofs`: `PixelsShowTheRegion`, for any resolution
`Ppm` and any frame, is the arithmetic of `FramesShowTheRegion` (`RegionIsShown`),
which also needs that a decimal is a natural number. `FirstCheckDecides` takes
`Compiled` apart: the answer is that of the first check that refuses, so what is
compiled has passed all fourteen. Hence `NothingLeftToTheCore`
(`CoreNeverRefuses`) and `ArmsNoOtherRule` (`ArmsWhatItSays`). For `DurationIsMeant`
(`SaidIsMeant`) the scan is unrolled from the end of the sentence:
`ScanPassesNoneOver` says that it collects exactly the durations that some word
begins, unless a word is a number and a unit at once.

*Events.* `EventInv` says what stands in the buffer and that every line sent is
the record of its event. `NoTruncatedLine` (`RecordWholeOrNothing`) adds the
writer: it counts each character and writes those that fit (`WrittenIs`).
`LinesReadBack` (`RecordReadsBack`) follows the reader letter by letter: reading a
concatenation is reading its parts (`ReadConcat`), an escaped letter is read as
the letter (`EscapeReads`), so a field is read as its value whatever it holds, and
a number written out is worth the number (`DecimalIsWorth`). `NoIdTwice`
(`EventIdsTellApart`) takes two equal ids apart from the right: the sequence has no
colon and the rule id has none, so the last two colons stand at the same places;
what is before them is the camera, colons or not. `TimesAreRight`
(`TimesAreTheInstants`) is the calendar: `YearsOfEra` writes a day of an era as
centuries, leap cycles, years and days, `YearOfEraIs` shows that the divisions of
`civil_from_days` find that year, `MonthsFromMarch` the month, and `YearCount`
that the leap years before it are those the rule of leap years counts; `CivilIs`
puts them together for every day an int64 of nanoseconds reaches, and
`TimeIsInstant` reads the fields back out of the text.

*Induction.* The library's induction theorems take an operator and cannot be
used. `GwTextProofs` proves induction again for sets (`Induction`,
`BoundedInduction`: a property is the set of the numbers that have it) from the
well-foundedness of `<`, and from it that a function defined by recursion over
`0 .. N` exists (`Recursion`). Every fold over a text is unrolled by these.

*Installer.* `FetchModelProofs`, for any number of processes, files and revisions.
`StageInv` adds to `FTypeOK` that a staging directory past verification matches the
manifest of its run: no other run writes it, since it bears the process id. So
what is published is whole, or is nested inside a directory that stands there,
whose own files are unchanged: `Complete` (`DestComplete`). For `NeverLost`
(`NothingLost`), `LateInv` says that a run which looked and saw nothing, or set
aside what it saw, can only find a verified install in its way, and `CleanInv`
that a run about to delete what it set aside is not deleting the last whole
install: one stands at the destination or is kept by a run that is not deleting.
For `AloneTellsTheTruth` (`TrueWhenAlone`), `AloneInv` says of a run that no other
disturbed that the destination is as it left it: files read so far that match
unless one was found bad, nothing there once it was set aside, the manifest's files
once they are installed.

*Model-checked only.* The liveness properties `LatchReported` and `ReplayReturns`,
which are out of the prover's reach. The runs that find violations are
counterexamples and have nothing to prove.

## 6. What is not modelled

- The bounds of the Wilson intervals: floating-point arithmetic on three counts,
  printed and never read. The estimates between them are modelled, as fractions.
- The lookups of fixed texts in `gw_rules.c` (messages in two languages, names of
  templates and languages), which keep and decide nothing; the wording of every
  error; null pointers.
- What the commands print, and how they read files: a file is readable or not.
- Reading the installer's arguments and model manifest: it touches nothing that
  another run can reach, and stands in the model as a choice of manifest.
- Model pinning, the observation tool and the W03 pipeline: network, process and
  CI steps around an external model, with no state of their own. The pipeline's
  pinning step removes a directory before it moves the new one into place.
- Overflow of times (years beyond 292) in `gw_state.c:316` and
  `gw_manifest.c:174`, and lines longer than the buffer of `gw_report.c:136`.

## 7. Plan

1. Done: the core, its abstract promise, replay, scoring and its command,
   manifest, report, rule compiler, event renderer, installer; every safety
   property the runs check, as a theorem.
2. Shorter proofs where one lemma would serve two modules: the stay-the-same
   lemmas of scoring and report, and the letter-by-letter ones of the reader.
3. What joins the components: that a scene `GwManifest` accepts is one `GwReplay`
   starts from, and that a rule `GwSentence` compiles is one `gw_add_rule` of
   `GwWatch` takes, each stated with both modules at hand.
4. The publication of the W03 request, if its steps prove worth modelling.
