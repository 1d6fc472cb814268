----------------------------- MODULE GwEvidence -----------------------------
(***************************************************************************)
(* What a sequence of observations proves about a rule, defined on the     *)
(* sequence as a whole and with none of the counters of GwRule.  An        *)
(* evidence s holds the observations accepted since sight was last lost,   *)
(* oldest first; include/geist_watch.h says in words what it must show.    *)
(***************************************************************************)
EXTENDS Integers, Sequences

\* The answers from j to k agree.
Agreeing(s, j, k) == \A m \in j .. k : s[m].value = s[k].value

\* confirm_count observations agreeing on a value and spanning at least
\* confirm_window promote it (struct gw_rule_config).
Confirming(s, k, cfg) ==
  \E j \in 1 .. k :
    /\ Agreeing(s, j, k)
    /\ k - j + 1 >= cfg.confirm_count
    /\ s[k].at - s[j].at >= cfg.confirm_window

ConfirmedAt(s, cfg) == {k \in DOMAIN s : Confirming(s, k, cfg)}

\* The value the newest confirmation is for.
Believes(s, cfg, v) ==
  \E k \in ConfirmedAt(s, cfg) :
    s[k].value = v /\ \A m \in ConfirmedAt(s, cfg) : m <= k

\* The target was confirmed absent and not confirmed since.
AbsenceSeen(s, cfg, opposite) ==
  \E j \in ConfirmedAt(s, cfg) :
    /\ s[j].value = opposite
    /\ \A m \in ConfirmedAt(s, cfg) : m > j => s[m].value # cfg.target

\* The newest observation confirms the target, which had been seen absent.
Arrival(s, cfg, opposite) ==
  /\ Len(s) \in ConfirmedAt(s, cfg)
  /\ s[Len(s)].value = cfg.target
  /\ AbsenceSeen(SubSeq(s, 1, Len(s) - 1), cfg, opposite)

\* The target was confirmed at k and every answer since was the target.
HeldFrom(s, cfg, k) ==
  /\ k \in ConfirmedAt(s, cfg)
  /\ \A m \in k .. Len(s) : s[m].value = cfg.target

HeldFor(s, cfg, now) ==
  \E k \in DOMAIN s : HeldFrom(s, cfg, k) /\ now - s[k].at >= cfg.sustain

\* Sight is lost at `now': nothing was seen for longer than max_gap.
Blind(s, cfg, now) == s = <<>> \/ now - s[Len(s)].at > cfg.max_gap
=============================================================================
