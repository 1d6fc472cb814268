------------------------------- MODULE GwRule -------------------------------
(***************************************************************************)
(* One rule of a watch: the runtime record that src/gw_state.c keeps for   *)
(* it and the functions that move that record.  Everything here is a pure  *)
(* operator on a record, as the C functions are functions of a            *)
(* struct gw_rule_runtime; GwWatch turns them into actions.                *)
(*                                                                         *)
(* Times are integers: the code compares and subtracts nanoseconds and     *)
(* does nothing else with them.  The fields keep their C names without the *)
(* suffix _ns.                                                             *)
(*                                                                         *)
(* Definitions marked "Mutant:" are one-line bugs put in place of the      *)
(* operator that follows them, to show that a property notices.            *)
(***************************************************************************)
EXTENDS Integers

CONSTANTS
  CountMax,   \* UINT32_MAX, where candidate_count stops counting
  Ids         \* what a caller may pass as an identifier


(***************************************************************************)
(* The vocabulary.                                                         *)
(***************************************************************************)
Value == {"unknown", "no", "yes"}

OppositeOf(v) ==
  CASE v = "yes" -> "no"
    [] v = "no"  -> "yes"
    [] OTHER     -> "unknown"

(***************************************************************************)
(* Identifiers are told apart only by whether copy_id accepts them: any    *)
(* other string stands for an id that fits its field.                      *)
(***************************************************************************)
NullId  == "<null>"
EmptyId == "<empty>"
LongId  == "<longer than GW_ID_CAP>"

ASSUME CountMaxAssumption == CountMax \in Nat \ {0}
ASSUME IdsAssumption      == EmptyId \in Ids

CopyIdStatus(id) ==
  CASE id = NullId              -> "INVALID_ARG"
    [] id \in {EmptyId, LongId} -> "LIMIT"
    [] OTHER                    -> "OK"

(***************************************************************************)
(* A configuration gw_add_rule accepts: one that can confirm something and *)
(* can fire.                                                               *)
(***************************************************************************)
Usable(cfg) ==
  /\ cfg.target \in {"yes", "no"}
  /\ cfg.confirm_count > 0
  /\ cfg.confirm_window >= 0
  /\ cfg.max_gap > 0
  /\ \/ cfg.kind = "appeared"  /\ cfg.sustain = 0
     \/ cfg.kind = "sustained" /\ cfg.sustain > 0

\* enum gw_rule_kind, and a number outside it.
Kind == {"appeared", "sustained", "neither"}

Sustained(r) == r.cfg.kind = "sustained"
Appeared(r)  == r.cfg.kind = "appeared"

\* struct gw_rule_config: what a caller can put there, usable or not.
Config ==
  [ id : Ids, kind : Kind, target : Value, confirm_count : 0 .. CountMax,
    confirm_window : Int, max_gap : Int, sustain : Int ]

\* struct gw_rule_runtime, and an observation gw_observe can accept.
Runtime ==
  [ cfg : Config, confirmed : Value, candidate : Value,
    candidate_count : 0 .. CountMax, candidate_first : Int, last_obs : Int,
    last_frame : Nat, has_obs : BOOLEAN, armed : BOOLEAN, fired : BOOLEAN,
    pending : BOOLEAN, run_start : Int, run_open : BOOLEAN ]

Heard == [frame : Nat, at : Int, value : Value]

\* The runtime gw_add_rule starts a rule with: zeroed, and so disarmed.
NewRuntime(cfg) ==
  [ cfg             |-> cfg,
    confirmed       |-> "unknown",
    candidate       |-> "unknown",
    candidate_count |-> 0,
    candidate_first |-> 0,
    last_obs        |-> 0,
    last_frame      |-> 0,
    has_obs         |-> FALSE,
    armed           |-> FALSE,
    fired           |-> FALSE,
    pending         |-> FALSE,
    run_start       |-> 0,
    run_open        |-> FALSE ]

(***************************************************************************)
(* The moves of the confirmation engine.                                   *)
(***************************************************************************)
ResetCandidate(r) ==
  [r EXCEPT !.candidate = "unknown", !.candidate_count = 0, !.candidate_first = 0]

BreakRun(r) ==
  [r EXCEPT !.run_open = FALSE, !.run_start = 0, !.fired = FALSE]

\* Mutant: arming clears the latch of an arrival not yet reported.
ArmForgetful(r) == [r EXCEPT !.armed = TRUE, !.fired = FALSE, !.pending = FALSE]

Arm(r)    == [r EXCEPT !.armed = TRUE, !.fired = FALSE]
Latch(r)  == [r EXCEPT !.pending = TRUE, !.fired = TRUE]
Disarm(r) == [r EXCEPT !.armed = FALSE]

\* Mutant: the duration is counted from the first agreeing observation.
OpenRunTooSoon(r, at) ==
  [r EXCEPT !.run_open = TRUE, !.run_start = r.candidate_first, !.fired = FALSE]

OpenRun(r, at) ==
  [r EXCEPT !.run_open = TRUE, !.run_start = at, !.fired = FALSE]

\* How the rule reacts to the edge r.confirmed -> v.
AppearanceEdge(r, v) ==
  CASE v = OppositeOf(r.cfg.target)     -> Arm(r)
    [] v = r.cfg.target /\ r.armed      -> Disarm(Latch(r))
    [] OTHER                            -> r

SustainedEdge(r, v, at) ==
  IF v = r.cfg.target THEN OpenRun(r, at) ELSE BreakRun(r)

Edge(r, v, at) ==
  IF Sustained(r) THEN SustainedEdge(r, v, at) ELSE AppearanceEdge(r, v)

\* Mutant: every confirmation is an edge, not only a change.
SetConfirmedAnew(r, v, at) == Edge([r EXCEPT !.confirmed = v], v, at)

SetConfirmed(r, v, at) ==
  IF r.confirmed = v THEN r ELSE Edge([r EXCEPT !.confirmed = v], v, at)

(***************************************************************************)
(* gw_observe on a known rule: an observation o is [frame, at, value].     *)
(***************************************************************************)
Duplicate(r, o) == r.has_obs /\ o.frame = r.last_frame
Stale(r, o)     == r.has_obs /\ o.at < r.last_obs

Stamp(r, o) ==
  [r EXCEPT !.last_obs = o.at, !.last_frame = o.frame, !.has_obs = TRUE]

\* Mutant: the counter does not saturate.
NextCountUnbounded(n) == n + 1

NextCount(n) == IF n < CountMax THEN n + 1 ELSE n

Count(r, o) ==
  IF r.candidate_count = 0 \/ o.value # r.candidate
  THEN [r EXCEPT !.candidate       = o.value,
                 !.candidate_count = 1,
                 !.candidate_first = o.at]
  ELSE [r EXCEPT !.candidate_count = NextCount(@)]

\* Mutant: only a confirmed contrary value breaks a run.
BreakOnContraryNever(r, o) == r

\* One contrary observation breaks a sustained run, confirmed or not.
BreakOnContrary(r, o) ==
  IF Sustained(r) /\ o.value # r.cfg.target THEN BreakRun(r) ELSE r

Confirms(r, at) ==
  /\ r.candidate_count >= r.cfg.confirm_count
  /\ at - r.candidate_first >= r.cfg.confirm_window

Gather(r, o) == BreakOnContrary(Count(Stamp(r, o), o), o)

Promote(r, at) ==
  IF Confirms(r, at) THEN SetConfirmed(r, r.candidate, at) ELSE r

Accept(r, o) == Promote(Gather(r, o), o.at)

(***************************************************************************)
(* gw_tick on one rule, up to the drain of the latch.                      *)
(***************************************************************************)
\* Mutant: evidence never grows old.
ExpiredNever(r, now) == ~r.has_obs

Expired(r, now) == ~r.has_obs \/ now - r.last_obs > r.cfg.max_gap

\* Mutant: losing sight keeps the evidence.
LoseSightKeepsEvidence(r) ==
  LET blind == [r EXCEPT !.confirmed = "unknown"]
  IN  IF Sustained(r) THEN BreakRun(blind) ELSE Disarm(blind)

\* Losing sight ends the belief, the evidence and what was built on them.
LoseSight(r) ==
  LET blind == ResetCandidate([r EXCEPT !.confirmed = "unknown"])
  IN  IF Sustained(r) THEN BreakRun(blind) ELSE Disarm(blind)

Matured(r, now) ==
  /\ Sustained(r)
  /\ r.run_open
  /\ ~r.fired
  /\ now - r.run_start >= r.cfg.sustain

\* Mutant: the tick calls evidence expired when it is exactly max_gap old.
AgeAtBoundary(r, now) ==
  CASE ~r.has_obs \/ now - r.last_obs >= r.cfg.max_gap -> LoseSight(r)
    [] OTHER -> IF Matured(r, now) THEN Latch(r) ELSE r

Age(r, now) ==
  CASE Expired(r, now)                       -> LoseSight(r)
    [] ~Expired(r, now) /\ Matured(r, now)   -> Latch(r)
    [] OTHER                                 -> r

Drain(r) == [r EXCEPT !.pending = FALSE]

(***************************************************************************)
(* gw_get_state: the answer computed from a runtime at `now'.  NoAge stands *)
(* for INT64_MAX, the age of an observation that never came.               *)
(***************************************************************************)
OfflineGapFactor == 10
NoAge == "never"

Health(r, now) ==
  CASE ~r.has_obs          -> "offline"
    [] r.has_obs /\ ~Expired(r, now) -> "healthy"
    [] r.has_obs /\ Expired(r, now)
         /\ now - r.last_obs <= r.cfg.max_gap * OfflineGapFactor -> "degraded"
    [] OTHER               -> "offline"

StateOf(r, now) ==
  LET fresh == ~Expired(r, now)
  IN  [ confirmed     |-> IF fresh THEN r.confirmed ELSE "unknown",
        health        |-> Health(r, now),
        age           |-> IF r.has_obs THEN now - r.last_obs ELSE NoAge,
        confirmations |-> IF fresh /\ r.candidate = r.confirmed
                          THEN r.candidate_count ELSE 0,
        sustained     |-> IF fresh /\ r.run_open /\ now >= r.run_start
                          THEN now - r.run_start ELSE 0,
        fired         |-> r.fired ]

-----------------------------------------------------------------------------
(***************************************************************************)
(* What holds of a rule's runtime between calls.                           *)
(***************************************************************************)
\* Nothing is believed, open or armed without counted evidence, and evidence
\* counts from an observation no later than the newest one.
EvidenceBacksBelief(r) ==
  /\ ~r.has_obs => r.candidate_count = 0
  /\ r.candidate_count = 0 =>
       r.confirmed = "unknown" /\ r.candidate = "unknown" /\ ~r.run_open /\ ~r.armed
  /\ r.candidate_count > 0 => r.candidate_first <= r.last_obs

\* An open run is backed by the very evidence being counted: the candidate is
\* the target, it was confirmed when the run began, and nothing since broke it.
OpenRunIsBacked(r) ==
  r.run_open =>
    /\ Sustained(r)
    /\ r.confirmed = r.cfg.target
    /\ r.candidate = r.cfg.target
    /\ r.candidate_count >= r.cfg.confirm_count
    /\ r.run_start - r.candidate_first >= r.cfg.confirm_window
    /\ r.run_start <= r.last_obs

\* A rule is armed from the confirmation of its target's opposite until the
\* target is confirmed or sight is lost; an armed rule has not fired.
ArmedSinceAbsence(r) ==
  /\ r.armed => Appeared(r) /\ r.confirmed # r.cfg.target /\ ~r.fired
  /\ Appeared(r) /\ r.confirmed = OppositeOf(r.cfg.target) => r.armed

\* Between calls only an appearance can be latched, and a sustained rule that
\* counts as fired is one whose run is still open.
LatchShape(r) ==
  /\ r.pending => Appeared(r) /\ r.has_obs
  /\ Sustained(r) /\ r.fired => r.run_open

RuntimeInv(r) ==
  /\ EvidenceBacksBelief(r)
  /\ OpenRunIsBacked(r)
  /\ ArmedSinceAbsence(r)
  /\ LatchShape(r)
=============================================================================
