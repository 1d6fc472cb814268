----------------------------- MODULE MCGwReplay -----------------------------
(* Every scene with two rules, a few samples and at most one restart. *)
EXTENDS GwReplay, TLC

Rule(id, kind, target, count, window, gap, sustain) ==
  [ id |-> id, kind |-> kind, target |-> target, confirm_count |-> count,
    confirm_window |-> window, max_gap |-> gap, sustain |-> sustain ]

Package == Rule("package", "appeared", "yes", 1, 0, 2, 0)
Door    == Rule("door", "sustained", "yes", 1, 0, 2, 2)

MCIds     == {"cam", "package", "door", EmptyId}
MCConfigs == {Package, Door}

\* Times of n samples, the first at 0, in order.
TimesOf(n, last) ==
  { t \in [1 .. n -> 0 .. last] : t[1] = 0 /\ \A k \in 1 .. n - 1 : t[k] <= t[k + 1] }

\* Both rules answer alike, or only the package rule is mentioned.
Labels ==
  { (0 :> "yes" @@ 1 :> "yes"), (0 :> "no" @@ 1 :> "no"), (0 :> "yes") }

\* Answers that a door rule of two confirmations may not come to believe.
Doubtful ==
  { (0 :> "yes" @@ 1 :> "yes"), (0 :> "yes" @@ 1 :> "unknown"), (0 :> "no" @@ 1 :> "no") }
SlowDoor == [Door EXCEPT !.confirm_count = 2, !.max_gap = 1]

ScenesOf(n, last, ticks, configs, labels, restarts) ==
  { [ rules    |-> config,
      samples  |-> [k \in 1 .. n |-> [t |-> t[k], label |-> l[k]]],
      tick     |-> tick,
      restarts |-> restart ] :
      config \in configs, t \in TimesOf(n, last), l \in [1 .. n -> labels],
      tick \in ticks, restart \in restarts }

BothRules == { <<Package, Door>> }
OneRestart == {<<>>} \cup { <<t>> : t \in 1 .. 4 }

MCScenes ==
  ScenesOf(3, 5, {1, 2}, BothRules, Labels, OneRestart)
    \cup ScenesOf(2, 5, {2}, { <<Package, [Door EXCEPT !.sustain = 0]>> }, Labels, {<<>>})
    \cup ScenesOf(4, 3, {1}, { <<Package, SlowDoor>> }, Doubtful, {<<>>})
=============================================================================
