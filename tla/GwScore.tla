------------------------------ MODULE GwScore -------------------------------
(***************************************************************************)
(* gw_score of src/gw_score.c: the detections of one rule matched against  *)
(* the ground truth of a scene, one detection per step.  Precision and     *)
(* recall are the fractions of the three counts, without their intervals;  *)
(* the availability it goes on to compute is the walk of GwReplay.         *)
(***************************************************************************)
EXTENDS GwScene, FiniteSets

CONSTANTS
  Truths,       \* ground truths: sequences of [rule, at, before, after]
  Detections,   \* what gw_replay collected: sequences of [rule, at]
  ScoredRules   \* rules a caller may ask about

\* struct gw_truth and struct gw_detection, without which answers which.
TruthEvent == [rule : Nat, at : Int, before : Nat, after : Nat]
Detected   == [rule : Nat, at : Int]

ASSUME TruthsAssumption     == Truths \subseteq Seq(TruthEvent)
ASSUME DetectionsAssumption == Detections \subseteq Seq(Detected)
ASSUME ScoredRulesAssumption == ScoredRules \subseteq Nat

VARIABLES
  truth, detections, rule,
  d,            \* detections looked at so far
  matched,      \* detection -> truth event it answers, for those that do
  fp            \* false_positives

svars == <<truth, detections, rule, d, matched, fp>>

\* gw_scene_parse sees to the ground truth; gw_replay collects detections in
\* time order.
SInit ==
  /\ truth \in {s \in Truths : Scorable(s)}
  /\ detections \in {s \in Detections : Ascending(s, LAMBDA found : found.at)}
  /\ rule \in ScoredRules
  /\ d = 0
  /\ matched = << >>
  /\ fp = 0

\* A call: counts and truth_taken start empty, whatever was scored before.
Call(t, found, r) ==
  /\ truth' = t /\ detections' = found /\ rule' = r
  /\ d' = 0 /\ matched' = << >> /\ fp' = 0

Taken == {matched[j] : j \in DOMAIN matched}

\* Mutant: an event stays open after it was answered.
OpenForever == {t \in DOMAIN truth : truth[t].rule = rule}

\* Events the inner loop does not skip, for a detection of this rule.
Open == {t \in DOMAIN truth : truth[t].rule = rule /\ t \notin Taken}

\* Mutant: before_ns is forgotten.
NotYetBareEvent(at, t) == at < truth[t].at

NotYet(at, t) == at < truth[t].at - truth[t].before
InTime(at, t) == at <= truth[t].at + truth[t].after

\* Mutant: the inner loop goes on to the last event that fits.
AnswersLast(at, t) ==
  /\ t \in Open
  /\ InTime(at, t) /\ ~NotYet(at, t)
  /\ \A u \in Open : u > t => ~InTime(at, u) \/ NotYet(at, u)

\* The inner loop stops at the first open event that is still to come, and so
\* answers an event only if none before it is.
Answers(at, t) ==
  /\ t \in Open
  /\ InTime(at, t)
  /\ \A u \in Open : u <= t => ~NotYet(at, u)
  /\ \A u \in Open : u < t => ~InTime(at, u)

Current == detections[d + 1]

OtherRule ==
  /\ d < Len(detections) /\ Current.rule # rule
  /\ d' = d + 1
  /\ UNCHANGED <<truth, detections, rule, matched, fp>>

Hit ==
  /\ d < Len(detections) /\ Current.rule = rule
  /\ \E t \in DOMAIN truth :
       /\ Answers(Current.at, t)
       /\ matched' = [j \in DOMAIN matched \cup {d + 1} |->
                        IF j = d + 1 THEN t ELSE matched[j]]
  /\ d' = d + 1
  /\ UNCHANGED <<truth, detections, rule, fp>>

FalseAlarm ==
  /\ d < Len(detections) /\ Current.rule = rule
  /\ ~\E t \in DOMAIN truth : Answers(Current.at, t)
  /\ fp' = fp + 1
  /\ d' = d + 1
  /\ UNCHANGED <<truth, detections, rule, matched>>

SNext == OtherRule \/ Hit \/ FalseAlarm

SSpec == SInit /\ [][SNext]_svars

Scored == d = Len(detections)

TruePositives  == Cardinality(DOMAIN matched)
FalseNegatives == Cardinality(Open)

-----------------------------------------------------------------------------
(***************************************************************************)
(* What the counts mean, defined on the whole of a scene.                  *)
(***************************************************************************)
OfRule(s, r) == {k \in DOMAIN s : s[k].rule = r}

Window(event) == event.at - event.before .. event.at + event.after

\* Sets of pairs that use each detection and each event at most once, each
\* detection inside the window of its event.
MatchingsOf(events, found, r) ==
  LET pairs == { p \in OfRule(found, r) \X OfRule(events, r) :
                   found[p[1]].at \in Window(events[p[2]]) }
  IN  {m \in SUBSET pairs : \A p, q \in m : p # q => p[1] # q[1] /\ p[2] # q[2]}

\* Every window of the rule ends before the next one begins.
Apart(events, r) ==
  \A t, u \in OfRule(events, r) :
    t < u => events[t].at + events[t].after < events[u].at - events[u].before

Matchings       == MatchingsOf(truth, detections, rule)
RuleTruth       == OfRule(truth, rule)
RuleDetections  == OfRule(detections, rule)
InWindow(j, t)  == detections[j].at \in Window(truth[t])

\* gw_score.c:9: one detection never satisfies two events and two detections of
\* one event make the second a false alarm: the three counts partition the
\* detections and the events, and what is matched is a matching.
CountsAreAMatching ==
  Scored =>
    /\ { <<j, matched[j]>> : j \in DOMAIN matched } \in Matchings
    /\ TruePositives + fp = Cardinality(RuleDetections)
    /\ TruePositives + FalseNegatives = Cardinality(RuleTruth)

\* gw_bench.h:149: greedy and optimal matching agree whenever events are further
\* apart than the match window.
AgreesWhenApart ==
  Scored /\ Apart(truth, rule) =>
    \A m \in Matchings : Cardinality(m) <= TruePositives

\* All windows of the rule open equally long before their event.
SameBefore ==
  \A t, u \in RuleTruth : truth[t].before = truth[u].before

\* The earliest event still unanswered when detection j came up whose window
\* contains it.
EarliestOpen(j, t) ==
  LET open == {u \in RuleTruth : \A i \in DOMAIN matched : i < j => matched[i] # u}
  IN  /\ t \in open /\ InWindow(j, t)
      /\ \A u \in open : u < t => ~InWindow(j, u)

AnswersEarliest ==
  \A j \in RuleDetections :
    j <= d =>
      IF j \in DOMAIN matched THEN EarliestOpen(j, matched[j])
      ELSE ~\E t \in RuleTruth : EarliestOpen(j, t)

\* With one before_ns, each detection takes the earliest still-unmatched
\* event whose window contains it, and is a false alarm only if there is none.
GreedyIsEarliest == SameBefore => AnswersEarliest

\* gw_bench.h:146: "each detection takes the earliest still-unmatched truth event
\* whose window contains it", whatever their before_ns.
GreedyAnyWindow == AnswersEarliest
=============================================================================
