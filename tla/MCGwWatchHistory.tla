-------------------------- MODULE MCGwWatchHistory --------------------------
(* One package rule or one door rule, with every history of bounded length. *)
EXTENDS GwWatchHistory

Rule(id, kind, target, count, window, gap, sustain) ==
  [ id |-> id, kind |-> kind, target |-> target, confirm_count |-> count,
    confirm_window |-> window, max_gap |-> gap, sustain |-> sustain ]

MCPackage == { Rule("package", "appeared", "yes", 2, 1, 1, 0) }
MCDoor    == { Rule("door", "sustained", "yes", 2, 1, 1, 1) }
MCGone    == { Rule("gone", "appeared", "no", 1, 0, 1, 0) }
MCConfigs == MCPackage \cup MCDoor \cup MCGone
MCIds  == {"cam", "package", "door", "gone", EmptyId}
MCTime == 0 .. 3

\* States that differ only in the status of the last call are one state: no
\* action reads it, and neither property of this instance does.
MCView == <<watch, history, ret.fired>>
=============================================================================
