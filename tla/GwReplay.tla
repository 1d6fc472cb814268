------------------------------ MODULE GwReplay ------------------------------
(***************************************************************************)
(* The replay of src/gw_score.c: walk() drives one watch through a scene   *)
(* on a fixed tick cadence.  Every step of a watch here is an action of    *)
(* GwWatch; this module adds the order in which walk() takes them.         *)
(*                                                                         *)
(* A scene is what gw_scene_parse lets through (GwScene, GwManifest).      *)
(***************************************************************************)
EXTENDS GwWatch, GwScene

CONSTANTS
  Scenes,        \* scenes to replay
  AvailRule,     \* the rule whose confirmed time walk() accounts
  DetectionCap   \* capacity of the caller's detections

ASSUME ScenesAssumption ==
  \A s \in Scenes :
    /\ s.tick \in Int
    /\ s.rules \in Seq(Config) /\ s.restarts \in Seq(Int)
    /\ Len(s.samples) \in Nat /\ DOMAIN s.samples = 1 .. Len(s.samples)
    /\ \A k \in DOMAIN s.samples : s.samples[k].t \in Int
ASSUME AvailRuleAssumption == AvailRule \in Nat

VARIABLES
  scene,
  pc,            \* boot, samples, account: the loop; done, limit, failed: returned
  now, next, rule, next_restart,
  detections,    \* the out array: one element per rule and tick, so a set
  found,         \* n, the detections there were room for or not
  observed, unknown

walk  == <<scene, now, next, rule, next_restart, detections, found, observed, unknown>>
rvars == <<vars, scene, pc, now, next, rule, next_restart, detections, found,
           observed, unknown>>

\* gw_scene_parse does not ask whether gw_add_rule will accept the rules, only
\* that their names fit.
Accepted(s) ==
  /\ Len(s.rules) <= MaxRules
  /\ \A i \in DOMAIN s.rules : CopyIdStatus(s.rules[i].id) = "OK"
  /\ Replayable(s, Value)

RuleCount == Len(scene.rules)
Sample    == scene.samples[next + 1]
FirstAt   == scene.samples[1].t
LastAt    == scene.samples[Len(scene.samples)].t
AllRead   == next = Len(scene.samples)
\* Mutant: the samples of the coming interval are taken up before its tick.
SampleDueEarly == ~AllRead /\ Sample.t <= now + scene.tick

\* Mutant: a sample taken at the instant of a tick waits for the next one.
SampleDueAfter == ~AllRead /\ (Sample.t < now \/ Sample.t = FirstAt)

SampleDue  == ~AllRead /\ Sample.t <= now
RestartDue == next_restart < Len(scene.restarts) /\ scene.restarts[next_restart + 1] <= now
Finished   == AllRead /\ now >= LastAt

\* Mutant: samples taken up at one tick count as one frame.
AnswerByTick == [frame |-> now, at |-> Sample.t, value |-> Sample.label[rule]]

\* The observation walk() makes of the current sample for the current rule.
Answer == [frame |-> next + 1, at |-> Sample.t, value |-> Sample.label[rule]]

-----------------------------------------------------------------------------
\* walk() up to its first gw_add_rule; gw_init accepts the scene's camera, and
\* gw_score has refused a rule the scene has not.
RInit ==
  /\ Init
  /\ scene \in {s \in Scenes : Accepted(s)}
  /\ AvailRule < RuleCount
  /\ pc = "boot"
  /\ now = FirstAt
  /\ next = 0 /\ rule = 0 /\ next_restart = 0
  /\ detections = {} /\ found = 0
  /\ observed = 0 /\ unknown = 0

Goto(label, good) == pc' = IF ret'.status \in good THEN label ELSE "failed"

\* A process starts: every rule of the scene is added again.
Boot ==
  /\ pc = "boot" /\ rule_count < RuleCount
  /\ AddRule(scene.rules[rule_count + 1])
  /\ Goto("boot", {"OK"})
  /\ UNCHANGED walk

\* Mutants: a restart that leaves the watch as it was; one that is never over.
RestartKeepsWatch ==
  /\ pc = "boot" /\ rule_count = RuleCount
  /\ RestartDue
  /\ next_restart' = next_restart + 1
  /\ UNCHANGED <<vars, scene, pc, now, next, rule, detections, found, observed, unknown>>

RestartForever ==
  /\ pc = "boot" /\ rule_count = RuleCount
  /\ RestartDue
  /\ Start(camera_id)
  /\ Goto("boot", {"OK"})
  /\ UNCHANGED walk

\* Restarts due take effect before anything else at their tick.
Restart ==
  /\ pc = "boot" /\ rule_count = RuleCount
  /\ RestartDue
  /\ Start(camera_id)
  /\ Goto("boot", {"OK"})
  /\ next_restart' = next_restart + 1
  /\ UNCHANGED <<scene, now, next, rule, detections, found, observed, unknown>>

Restarted ==
  /\ pc = "boot" /\ rule_count = RuleCount
  /\ ~RestartDue
  /\ pc' = "samples"
  /\ UNCHANGED <<vars, walk>>

\* Then every sample that has come due, rule by rule.
Deliver ==
  /\ pc = "samples" /\ SampleDue
  /\ rule < RuleCount /\ rule \in DOMAIN Sample.label
  /\ Observe(rule, Answer)
  /\ Goto("samples", {"OK", "DUPLICATE", "STALE"})
  /\ rule' = rule + 1
  /\ UNCHANGED <<scene, now, next, next_restart, detections, found, observed, unknown>>

Unlabelled ==
  /\ pc = "samples" /\ SampleDue
  /\ rule < RuleCount /\ rule \notin DOMAIN Sample.label
  /\ rule' = rule + 1
  /\ UNCHANGED <<vars, scene, pc, now, next, next_restart, detections, found,
                 observed, unknown>>

SampleDone ==
  /\ pc = "samples" /\ SampleDue
  /\ rule = RuleCount
  /\ next' = next + 1
  /\ rule' = 0
  /\ UNCHANGED <<vars, scene, pc, now, next_restart, detections, found, observed, unknown>>

\* Then one gw_tick, with room for every rule, and what it reports.
Recorded(fired) ==
  { [rule |-> i, at |-> now] : i \in Written(fired, DetectionCap - found) }

TickStep ==
  /\ pc = "samples" /\ ~SampleDue
  /\ Tick(now, MaxRules)
  /\ Goto("account", {"OK"})
  /\ detections' = detections \cup Recorded(ret'.fired)
  /\ found' = found + ret'.n
  /\ UNCHANGED <<scene, now, next, rule, next_restart, observed, unknown>>

\* Mutant: time out of sight is left out of the account.
AccountKnownOnly ==
  /\ pc = "account" /\ ~Finished
  /\ GetState(AvailRule, now)
  /\ IF StateOf(rules[AvailRule], now).confirmed = "unknown"
     THEN UNCHANGED <<observed, unknown>>
     ELSE observed' = observed + scene.tick /\ UNCHANGED unknown
  /\ now' = now + scene.tick
  /\ pc' = "boot"
  /\ UNCHANGED <<scene, next, rule, next_restart, detections, found>>

\* The interval up to the next tick goes to what the rule knows now.
Account ==
  /\ pc = "account" /\ ~Finished
  /\ GetState(AvailRule, now)
  /\ IF StateOf(rules[AvailRule], now).confirmed = "unknown"
     THEN unknown' = unknown + scene.tick /\ UNCHANGED observed
     ELSE observed' = observed + scene.tick /\ UNCHANGED unknown
  /\ now' = now + scene.tick
  /\ pc' = "boot"
  /\ UNCHANGED <<scene, next, rule, next_restart, detections, found>>

\* The walk ends; detections there was no room for make it an error.
Finish ==
  /\ pc = "account" /\ Finished
  /\ pc' = IF found > DetectionCap THEN "limit" ELSE "done"
  /\ UNCHANGED <<vars, walk>>

RNext ==
  \/ Boot
  \/ Restart
  \/ Restarted
  \/ Deliver
  \/ Unlabelled
  \/ SampleDone
  \/ TickStep
  \/ Account
  \/ Finish

\* A single thread runs to its end: it never stops in the middle.
RSpec == RInit /\ [][RNext]_rvars /\ WF_rvars(RNext)

-----------------------------------------------------------------------------
\* gw_replay returns for every scene that was parsed.
ReplayReturns == <>(pc \in {"done", "limit", "failed"})

\* A scene the parser lets through never makes the core refuse a call (no
\* duplicate or stale frame, no time going backwards, in any process) except
\* for a rule gw_add_rule refuses, which the parser leaves for it to find.
OnlyARuleCanFail ==
  /\ ret.status \in {"OK", "INVALID_ARG"}
  /\ pc = "failed" => \E k \in DOMAIN scene.rules : ~Usable(scene.rules[k])
  /\ pc \in {"done", "limit"} => \A k \in DOMAIN scene.rules : Usable(scene.rules[k])

\* Observed and unknown time add up to the time walked: no interval is counted
\* twice or left out, whatever the restarts and outages in it.
EveryIntervalAccounted ==
  /\ observed + unknown = now - FirstAt
  /\ pc \in {"done", "limit"} => now >= LastAt /\ now - LastAt < scene.tick

\* A sample is about to reach a rule that heard nothing for longer than `gap'.
ReturnsAfter(gap) ==
  /\ pc = "samples" /\ SampleDue /\ rule \in DOMAIN Sample.label
  /\ rules[rule].has_obs
  /\ Sample.t - rules[rule].last_obs > gap

\* The rule has noticed: it believes nothing and carries nothing over.
Lost(r) ==
  r.confirmed = "unknown" /\ r.candidate_count = 0 /\ ~r.armed /\ ~r.run_open

\* An outage that exceeds max_gap by more than a tick never passes between two
\* ticks: the first answer after it finds a rule that lost sight.  (One that
\* exceeds it by a tick or less may: with a tick of 1 and a max_gap of 2, answers
\* at 0 and 3 meet a tick at 2, too soon, and one at 3, too late.)
LongOutageNoticed ==
  ReturnsAfter(rules[rule].cfg.max_gap + scene.tick) => Lost(rules[rule])

\* The tick at which walk() takes up what happens at t.
TickOf(t) ==
  IF t <= FirstAt THEN FirstAt
  ELSE FirstAt + ((t - FirstAt + scene.tick - 1) \div scene.tick) * scene.tick

\* sample k shows `value' for rule i.
Shows(k, i, value) ==
  i \in DOMAIN scene.samples[k].label /\ scene.samples[k].label[i] = value

\* Sample j was taken up by the process that is running.
ThisProcess(j) ==
  \A n \in 1 .. next_restart : TickOf(scene.restarts[n]) <= TickOf(scene.samples[j].t)

Named(j, i) == i \in DOMAIN scene.samples[j].label

\* Rule i has not been out of sight since sample k: after each sample that named
\* it another one did, at most a tick later than max_gap allows, and after the
\* last one max_gap is not over.
InSightSince(k, i) ==
  LET gap == rules[i].cfg.max_gap
  IN  \A j \in k .. next :
        Named(j, i) =>
          \/ now - scene.samples[j].t <= gap
          \/ \E m \in j + 1 .. next :
               Named(m, i) /\ scene.samples[m].t - scene.samples[j].t <= gap + scene.tick

\* Availability never credits an outage or the time before a first answer: an
\* interval counts as observed only if the running process was shown a yes or a
\* no for the rule and the rule has been in sight ever since.  (What it was shown
\* since may be `unknown': until that is confirmed, the belief stands.)
OutageIsUnknown ==
  [][ observed' > observed =>
        \E k \in 1 .. next, v \in {"no", "yes"} :
          /\ Shows(k, AvailRule, v)
          /\ ThisProcess(k)
          /\ InSightSince(k, AvailRule) ]_rvars

Appearances == {d \in detections : scene.rules[d.rule + 1].kind = "appeared"}

\* Behind every appearance detected are an absence in the scene and an arrival
\* taken up at the tick that reports it, in that order and by one process: no
\* restart in between.
Watched(d, Between(_, _, _)) ==
  \E j, k \in DOMAIN scene.samples :
    /\ j < k
    /\ Shows(j, d.rule, OppositeOf(scene.rules[d.rule + 1].target))
    /\ Shows(k, d.rule, scene.rules[d.rule + 1].target)
    /\ TickOf(scene.samples[k].t) = d.at
    /\ \A n \in DOMAIN scene.restarts :
         ~Between(scene.samples[j].t, scene.restarts[n], scene.samples[k].t)

DetectionsAreWatched ==
  \A d \in Appearances :
    Watched(d, LAMBDA absent, restart, present :
                 TickOf(absent) < TickOf(restart) /\ TickOf(restart) <= TickOf(present))

\* Sample k brought about what rule i reports at `at': an arrival is reported at
\* the tick that takes the sample up, a duration at the first tick it has passed.
Completed(k, i, at) ==
  LET cfg == scene.rules[i + 1]
  IN  /\ Shows(k, i, cfg.target)
      /\ TickOf(scene.samples[k].t + (IF cfg.kind = "sustained" THEN cfg.sustain ELSE 0)) = at

\* What match windows are applied to is the date of the first tick that could know,
\* less than a tick after what the detection reports came about.  (gw_bench.h:115
\* dates it otherwise: DatedByObservation.)  When the walk ends nothing is due that
\* it has not told; what would have been due after the last sample is not told.
DetectedOnTime ==
  /\ \A d \in detections : \E k \in DOMAIN scene.samples : Completed(k, d.rule, d.at)
  /\ pc \in {"done", "limit"} => Due(now) = {}

-----------------------------------------------------------------------------
\* gw_bench.h:92: with a tick no coarser than max_gap no gap passes between two
\* ticks unnoticed.
GapNoticed ==
  ReturnsAfter(rules[rule].cfg.max_gap) => Lost(rules[rule])

\* gw_bench.h:115: a detection's at_ns is the "observation time that completed
\* it, not tick time": an appearance bears the time of a sample that shows it.
DatedByObservation ==
  \A d \in Appearances :
    \E k \in DOMAIN scene.samples :
      /\ Shows(k, d.rule, scene.rules[d.rule + 1].target)
      /\ scene.samples[k].t = d.at

\* doorstep-restart.scene:16: a delivery not observed by any single running
\* process is not reported.
WatchedByOneProcess ==
  \A d \in Appearances :
    Watched(d, LAMBDA absent, restart, present : absent < restart /\ restart <= present)
=============================================================================
