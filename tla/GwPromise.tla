----------------------------- MODULE GwPromise ------------------------------
(***************************************************************************)
(* What a watch promises about one rule, stated on the evidence alone: the *)
(* only memory is the observations accepted since sight was last lost and  *)
(* two facts about what has been said.  GwWatchHistory shows that the      *)
(* counters, latches and flags of GwWatch implement this.                  *)
(*                                                                         *)
(*   evidence   the observations accepted since sight was last lost        *)
(*   owed       an arrival was confirmed and has not been announced        *)
(*   told       the duration that is still running has been announced      *)
(*   announced  the last step announced an event of this rule              *)
(***************************************************************************)
EXTENDS GwEvidence

CONSTANTS Config, Time, Value, OppositeOf(_)

VARIABLES cfg, evidence, owed, told, announced

vars == <<cfg, evidence, owed, told, announced>>

Appearance == cfg.kind = "appeared"

Init ==
  /\ cfg \in Config
  /\ evidence = <<>>
  /\ owed = FALSE
  /\ told = FALSE
  /\ announced = FALSE

\* A restart, or the rule being added: nothing is inherited.
Forget ==
  /\ cfg' \in Config
  /\ evidence' = <<>>
  /\ owed' = FALSE
  /\ told' = FALSE
  /\ announced' = FALSE

\* An answer that is not older than what has been heard.
Hear ==
  /\ \E at \in Time, value \in Value :
       /\ evidence # <<>> => at >= evidence[Len(evidence)].at
       /\ evidence' = Append(evidence, [at |-> at, value |-> value])
       /\ told' = (told /\ value = cfg.target)
  /\ owed' = (owed \/ (Appearance /\ Arrival(evidence', cfg, OppositeOf(cfg.target))))
  /\ announced' = FALSE
  /\ UNCHANGED cfg

\* Time passes out of sight: what was owed is still announced, the evidence
\* and the running duration are void.
ReportBlind ==
  /\ \E now \in Time : Blind(evidence, cfg, now)
  /\ announced' = owed
  /\ evidence' = <<>>
  /\ owed' = FALSE
  /\ told' = FALSE
  /\ UNCHANGED cfg

\* Time passes in sight.  An appearance is announced exactly when it is owed;
\* a duration only if the target has held that long, and once.
ReportSighted ==
  /\ \E now \in Time :
       /\ ~Blind(evidence, cfg, now)
       /\ IF Appearance
          THEN announced' = owed
          ELSE announced' \in {FALSE, HeldFor(evidence, cfg, now) /\ ~told}
  /\ owed' = FALSE
  /\ told' = (told \/ (~Appearance /\ announced'))
  /\ UNCHANGED <<cfg, evidence>>

\* Nothing happens to this rule.
Quiet ==
  /\ announced' = FALSE
  /\ UNCHANGED <<cfg, evidence, owed, told>>

Next == Quiet \/ Forget \/ ReportBlind \/ ReportSighted \/ Hear

Spec == Init /\ [][Next]_vars
=============================================================================
