----------------------------- MODULE MCGwEvent ------------------------------
(* Ids of every kind of character; instants around 1970 and at the ends of   *)
(* months in years of every kind.  A minute has 2 seconds and a day 3 hours. *)
EXTENDS GwEvent, TLC

Told(camera, rule, sequence, observed, emitted) ==
  [ camera_id |-> camera, rule_id |-> rule, event_type |-> <<"a">>, sequence |-> sequence,
    observed_at |-> observed, emitted_at |-> emitted, confirmations |-> 12, sustained |-> 7 ]

Event(camera, rule, sequence) == Told(camera, rule, sequence, -1, 5)

Odd == {"a", "n", ":", Quote, Backslash, "LF", "ESC", "1"}

OddTexts == { <<c>> : c \in Odd } \cup { <<a, b>> : a, b \in Odd }

IdEvents ==
  { Event(c, r, q) : c \in {<<"a">>, <<"a", ":", "a">>, <<"1", ":">>, <<"1">>},
                     r \in {<<"a">>, <<"1">>, <<":">>}, q \in {1, 11} }

\* Each day is told together with the one after it.
MCDays ==
  UNION { { DayNumber(y, 2, 28), DayNumber(y, 3, 31), DayNumber(y, 12, 31) } : y \in 1678 .. 2261 }
    \cup DayNumber(1967, 12, 31) .. DayNumber(1973, 1, 1)

MCTimes ==
  { <<day * Day * NsPerSecond, (day + 1) * Day * NsPerSecond>> : day \in MCDays }
    \cup { <<ns - NsPerSecond, ns>> : ns \in -2 * Day * NsPerSecond .. 2 * Day * NsPerSecond }

MCBatches ==
  { <<a, b>> : a, b \in IdEvents }
    \cup { <<Event(id, <<"a">>, 1)>> : id \in OddTexts }
    \cup { <<Event(<<"a">>, id, 1)>> : id \in OddTexts }
    \cup { <<Told(<<"a">>, <<"a">>, 1, t[1], t[2])>> : t \in MCTimes }
MCOccurrences == UNION { { b[k] : k \in DOMAIN b } : b \in MCBatches }
=============================================================================
