---------------------------- MODULE MCGwSentence ----------------------------
(* Sentences of both templates in both languages, with numbers and units    *)
(* before and after, and every parameter for a few of them.                 *)
EXTENDS GwSentence, TLC

Letters(n) == [k \in 1 .. n |-> "letter"]

\* token -> its bytes; "1.5" falls apart and "Tür" has an umlaut.
MCSpelling ==
  "package" :> Letters(7) @@ "left" :> Letters(4) @@ "Paket" :> Letters(5)
    @@ "abgestellt" :> Letters(10) @@ "Lieferung" :> Letters(9) @@ "door" :> Letters(4)
    @@ "open" :> Letters(4) @@ "Tor" :> Letters(3) @@ "offen" :> Letters(5)
    @@ "no" :> Letters(2) @@ "a" :> Letters(1) @@ "5" :> Letters(1) @@ "0" :> Letters(1)
    @@ "sechs" :> Letters(5) @@ "minutes" :> Letters(7) @@ "hours" :> Letters(5)
    @@ "days" :> Letters(4) @@ "90s" :> Letters(3) @@ "200000" :> Letters(6)
    @@ "Tür" :> <<"letter", "umlaut", "letter">>
    @@ "1.5" :> <<"letter", "other", "letter">>

MCWordsIn ==
  [ token \in DOMAIN MCSpelling |->
      CASE token = "Paket" -> <<"paket">>
        [] token = "Lieferung" -> <<"lieferung">>
        [] token = "Tor" -> <<"tor">>
        [] token = "Tür" -> <<"tuer">>
        [] token = "1.5" -> <<"1", "5">>
        [] OTHER -> <<token>> ]

MCBegins ==
  "package" :> {"packag"} @@ "left" :> {"left"} @@ "paket" :> {"paket"}
    @@ "abgestellt" :> {"abgestellt"} @@ "lieferung" :> {"lieferung", "liefer"}
    @@ "door" :> {"door"} @@ "open" :> {"open"} @@ "tor" :> {"tor"} @@ "tuer" :> {"tuer"}
    @@ "offen" :> {"offen"} @@ "sechs" :> {"sec"} @@ "minutes" :> {"minut", "min"}
    @@ "hours" :> {"hour"}

MCLeading ==
  [ w \in {"0", "1", "5", "90s", "200000", "999999999"} |->
      CASE w = "0" -> [value |-> 0, rest |-> ""]
        [] w = "1" -> [value |-> 1, rest |-> ""]
        [] w = "5" -> [value |-> 5, rest |-> ""]
        [] w = "90s" -> [value |-> 90, rest |-> "s"]
        [] w = "200000" -> [value |-> 200000, rest |-> ""]
        [] OTHER -> [value |-> 999999999, rest |-> ""] ]

MCTimeUnits == {"minutes", "hours", "days"}

Cores ==
  { <<"package", "left">>, <<"Paket", "abgestellt">>, <<"door", "open">>, <<"Tür", "offen">>,
    <<"Tor", "offen">>, <<"Lieferung">>, <<"package", "offen">>, <<"door">>, <<>>,
    <<"door", "open", "Tor", "offen">>, <<"package", "left", "door", "open">> }

Extras == {"5", "0", "sechs", "1.5", "90s", "200000", "minutes", "hours", "days", "no", "a"}

ShortOf(n) == UNION { [1 .. k -> Extras] : k \in 0 .. n }

\* Durations in two words with something on either side.
Threes ==
  UNION { { <<n, u, x>>, <<x, n, u>> } :
            n \in {"5", "sechs", "0"}, u \in {"minutes", "hours"}, x \in Extras }

MCSentences ==
  { core \o extra : core \in Cores, extra \in ShortOf(2) \cup Threes }
    \cup { extra \o core : core \in Cores, extra \in ShortOf(2) }

Coordinate(whole, frac) == [well |-> TRUE, whole |-> whole, frac |-> frac]
RegionText(x, y, w, h)   == [four |-> TRUE, values |-> <<x, y, w, h>>]
Corner == Coordinate(0, <<9, 9>>)
Sliver == Coordinate(0, <<0, 1>>)
Half   == Coordinate(0, <<5>>)
All    == Coordinate(1, <<0, 0>>)
None   == Coordinate(0, <<>>)

MCTexts ==
  { RegionText(None, None, All, All), RegionText(Half, Coordinate(0, <<2>>), Half, Coordinate(0, <<3, 3>>)),
    RegionText(Corner, Corner, Sliver, Sliver), RegionText(Coordinate(0, <<3, 3>>), Half, Sliver, Half),
    RegionText(Half, Half, Coordinate(0, <<5, 1>>), Half), RegionText(Half, Half, Half, None),
    RegionText(Coordinate(0, <<0, 0, 5>>), None, Half, Half), RegionText(None, None, Coordinate(1, <<1>>), All),
    RegionText(None, None, Coordinate(2, <<>>), All), [RegionText(None, None, All, All) EXCEPT !.four = FALSE],
    RegionText([None EXCEPT !.well = FALSE], None, All, All) }

Ask(sentence) ==
  [ id |-> "r", region |-> {}, sentence |-> sentence, confirm_count |-> 0,
    confirm_window |-> 0, max_gap |-> 0, sustain |-> 0 ]

Few == { <<>>, <<"package", "left">>, <<"Tor", "offen">>, <<"Tor", "offen", "5", "minutes">>,
         <<"Lieferung", "90s">> }

MCRequests ==
  { Ask(s) : s \in MCSentences }
    \cup { [Ask(s) EXCEPT !.id = id, !.region = region] :
             s \in Few, id \in {"r", EmptyId, LongId, "-r"},
             region \in {{}} \cup { {t} : t \in MCTexts } }
    \cup { [Ask(s) EXCEPT !.confirm_count = n, !.confirm_window = window, !.max_gap = gap,
                          !.sustain = sustain] :
             s \in Few, n \in {0, 1}, window \in {0, -1, 3}, gap \in {0, -1, 1},
             sustain \in {0, -1, 300, 360} }

MCIds    == {"r", "-r", EmptyId, LongId}
MCOddIds == {"-r"}
=============================================================================
