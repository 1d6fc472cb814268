----------------------------- MODULE MCGwWatch -----------------------------
(* Instances of GwWatch small enough to enumerate. *)
EXTENDS GwWatch

Rule(id, kind, target, count, window, gap, sustain) ==
  [ id |-> id, kind |-> kind, target |-> target, confirm_count |-> count,
    confirm_window |-> window, max_gap |-> gap, sustain |-> sustain ]

\* A package rule and a door rule, as in tests/test_state.c, scaled down.
Package == Rule("package", "appeared", "yes", 3, 1, 2, 0)
Door    == Rule("door", "sustained", "yes", 2, 1, 2, 1)

MCConfigs ==
  { Package, Door,
    [Door EXCEPT !.sustain = 0],      \* a sustained rule with no duration
    [Door EXCEPT !.kind = "neither"], \* a number outside enum gw_rule_kind
    [Package EXCEPT !.id = LongId] }  \* an id that does not fit
MCIds     == {"cam", "package", "door", NullId, EmptyId, LongId}
MCCameras == {"cam", NullId, EmptyId}
MCTime    == 0 .. 4
=============================================================================
