--------------------------- MODULE ReplayCommand ----------------------------
(***************************************************************************)
(* The command benchmarks/replay.c, the gate of `make bench': it takes     *)
(* scene files in order, scores every rule of each (GwScore, one step per  *)
(* detection) and exits 0 only if no floor was missed.                     *)
(*                                                                         *)
(* A file is one that cannot be read, parsed or replayed, or a scene with  *)
(* its number of rules, its ground truth and what gw_replay detects in it. *)
(* Floors are percentages, NoFloor where none is given.  What is printed   *)
(* is left out.                                                            *)
(*                                                                         *)
(* Definitions marked "Mutant:" are one-line bugs put in place of the      *)
(* operator that follows them, to show that a property notices.            *)
(***************************************************************************)
EXTENDS GwScore

CONSTANTS CommandLines   \* [files, min_precision, min_recall]

VARIABLES
  command,
  at_file,    \* i - first
  place,      \* files, rules: the two loops; done
  failures,   \* floors missed so far
  exit_code

pvars == <<command, at_file, place, failures, exit_code>>

NoFloor  == -1
NoCode   == 3

\* What the parser and gw_replay guarantee of a scene.
Readable(f) ==
  /\ f.rules \in Nat \ {0}
  /\ f.truth \in Seq(TruthEvent) /\ f.detections \in Seq(Detected)
  /\ Scorable(f.truth) /\ Ascending(f.detections, LAMBDA found : found.at)
  /\ \A k \in DOMAIN f.truth : f.truth[k].rule \in 0 .. f.rules - 1
  /\ \A k \in DOMAIN f.detections : f.detections[k].rule \in 0 .. f.rules - 1

ASSUME CommandLinesAssumption ==
  \A c \in CommandLines :
    /\ {c.min_precision, c.min_recall} \subseteq NoFloor .. 100
    /\ Len(c.files) \in Nat /\ DOMAIN c.files = 1 .. Len(c.files)
    /\ \A k \in DOMAIN c.files :
         /\ c.files[k].kind \in {"scene", "unreadable", "refused", "limit"}
         /\ c.files[k].kind = "scene" => Readable(c.files[k])

File == command.files[at_file]

Started == at_file = 1 /\ place = "files" /\ failures = 0 /\ exit_code = NoCode

NothingToScore ==
  /\ truth = <<>> /\ detections = <<>> /\ rule = 0
  /\ d = 0 /\ matched = << >> /\ fp = 0

PInit == command \in CommandLines /\ Started /\ NothingToScore

Leave(code) == place' = "done" /\ exit_code' = code

\* No file, or an option nobody knows.
Usage ==
  /\ place = "files" /\ at_file = 1
  /\ command.files = <<>>
  /\ Leave(2)
  /\ UNCHANGED <<svars, command, at_file, failures>>

\* A file that is not a scene ends the run: the files after it are not looked at.
NoScene ==
  /\ place = "files" /\ at_file <= Len(command.files)
  /\ File.kind # "scene"
  /\ Leave(1)
  /\ UNCHANGED <<svars, command, at_file, failures>>

Scene ==
  /\ place = "files" /\ at_file <= Len(command.files)
  /\ File.kind = "scene"
  /\ Call(File.truth, File.detections, 0)
  /\ place' = "rules"
  /\ UNCHANGED <<command, at_file, failures, exit_code>>

\* One detection of the rule being scored.
Match ==
  /\ place = "rules"
  /\ SNext
  /\ UNCHANGED pvars

-----------------------------------------------------------------------------
Measured(m) == m.tp + m.fp + m.fn > 0

\* wilson() gives a ratio of nothing as zero.
Below(k, n, floor) == IF n = 0 THEN 0 < floor ELSE 100 * k < floor * n

\* Mutant: a scene in which nothing happened is measured like the others.
MissesUnmeasured(m) ==
    (IF Below(m.tp, m.tp + m.fp, command.min_precision) THEN 1 ELSE 0)
  + (IF Below(m.tp, m.tp + m.fn, command.min_recall) THEN 1 ELSE 0)

\* Floors missed: none is missed by a rule there is nothing to measure of.
Misses(m) ==
  IF ~Measured(m) THEN 0
  ELSE   (IF Below(m.tp, m.tp + m.fp, command.min_precision) THEN 1 ELSE 0)
       + (IF Below(m.tp, m.tp + m.fn, command.min_recall) THEN 1 ELSE 0)

Metrics == [tp |-> TruePositives, fp |-> fp, fn |-> FalseNegatives]

NextRule ==
  IF rule + 1 < File.rules
  THEN Call(truth, detections, rule + 1) /\ UNCHANGED <<place, at_file>>
  ELSE place' = "files" /\ at_file' = at_file + 1 /\ UNCHANGED svars

\* Mutant: the last rule decides.
JudgeLast ==
  /\ place = "rules" /\ Scored
  /\ failures' = Misses(Metrics)
  /\ NextRule
  /\ UNCHANGED <<command, exit_code>>

\* A rule is scored: its line is printed and its floors are asked.
Judge ==
  /\ place = "rules" /\ Scored
  /\ failures' = failures + Misses(Metrics)
  /\ NextRule
  /\ UNCHANGED <<command, exit_code>>

AllFilesRead ==
  /\ place = "files" /\ at_file > Len(command.files) /\ command.files # <<>>
  /\ Leave(IF failures = 0 THEN 0 ELSE 1)
  /\ UNCHANGED <<svars, command, at_file, failures>>

PNext == Usage \/ NoScene \/ Scene \/ Match \/ Judge \/ AllFilesRead

PSpec == PInit /\ [][PNext]_<<svars, pvars>>

-----------------------------------------------------------------------------
(***************************************************************************)
(* What the exit status says of the files, whatever the order of scoring.  *)
(***************************************************************************)
\* The rules of the command line's scenes, and those something is known of.
RulesOf(f) == 0 .. f.rules - 1
Happened(f, r) == OfRule(f.truth, r) \cup OfRule(f.detections, r) # {}

\* Some way of telling which detection answers which event meets both floors.
Deserves(f, r) ==
  \E m \in MatchingsOf(f.truth, f.detections, r) :
    /\ ~Below(Cardinality(m), Cardinality(OfRule(f.detections, r)), command.min_precision)
    /\ ~Below(Cardinality(m), Cardinality(OfRule(f.truth, r)), command.min_recall)

AllScenes == \A k \in DOMAIN command.files : command.files[k].kind = "scene"

\* gw_bench.h:151 "it cannot flatter a run": when the gate opens, every file was
\* a scene, and in every scene every rule of which anything was expected or
\* detected meets both floors under some one-to-one matching.  A rule that was
\* expected to speak and stayed silent is among them.
GateIsDeserved ==
  exit_code = 0 =>
    /\ AllScenes
    /\ \A k \in DOMAIN command.files : LET f == command.files[k] IN
         \A r \in RulesOf(f) : Happened(f, r) => Deserves(f, r)

\* replay.c:140: the gate fails nobody who deserves to pass.  If it stays closed
\* on scenes whose windows are apart, some rule misses a floor under every
\* matching; silence where nothing was expected is not a miss.
GateIsFair ==
  exit_code = 1 /\ AllScenes =>
    \E k \in DOMAIN command.files : LET f == command.files[k] IN
      \E r \in RulesOf(f) :
        \/ ~Apart(f.truth, r)
        \/ Happened(f, r) /\ ~Deserves(f, r)
=============================================================================
