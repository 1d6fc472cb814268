----------------------------- MODULE GwSentence ------------------------------
(***************************************************************************)
(* gw_rule_compile of src/gw_rules.c: a sentence and a few parameters in,  *)
(* a rule the core can run out, or a refusal; and gw_region_pixels on what *)
(* came out.                                                               *)
(*                                                                         *)
(* A sentence is a sequence of tokens as typed ("Tor", "1.5").  Of a token *)
(* the module knows the bytes normalise() copies and the words it leaves;  *)
(* of a word, the table terms it begins with and the digits it begins      *)
(* with.  Terms the tables list in two spellings ("tür", "tuer") appear in *)
(* the one without umlauts.  Durations are in seconds.                     *)
(*                                                                         *)
(* Definitions marked "Mutant:" are one-line bugs put in place of the      *)
(* operator that follows them, to show that a property notices.            *)
(***************************************************************************)
EXTENDS GwRule, GwRegion, FiniteSets

CONSTANTS
  Requests,     \* what a caller may ask
  Sizes,        \* widths and heights of frames
  OddIds,       \* ids with a character id_ok does not take
  SentenceCap,  \* SENTENCE_CAP
  Spelling,     \* token -> its bytes: "letter", "umlaut" or "other" each
  WordsIn,      \* token -> the words it leaves
  Begins,       \* word -> the table terms it begins with
  Leading,      \* word that begins with digits -> their value and the rest
  TimeUnits     \* words a reader takes for a unit of time

VARIABLES
  request,
  result,       \* what gw_rule_compile returned and wrote
  frame,        \* the frame last asked about, and the pixels of it
  rect

cvars == <<request, result, frame, rect>>

\* struct gw_rule_request: the sentence is its tokens, and the region none or one
\* text, whose coordinates are digits.
Askable(req) ==
  /\ DOMAIN req = { "id", "region", "sentence", "confirm_count", "confirm_window",
                    "max_gap", "sustain" }
  /\ Cardinality(req.region) <= 1
  /\ \A text \in req.region : \A k \in 1 .. 4 :
       text.values[k].whole \in Nat /\ text.values[k].frac \in Seq(0 .. 9)
  /\ req.sentence \in Seq(DOMAIN Spelling)
  /\ req.confirm_count \in Nat
  /\ {req.confirm_window, req.max_gap, req.sustain} \subseteq Int

ASSUME RequestsAssumption    == \A req \in Requests : Askable(req)
ASSUME SentenceCapAssumption == SentenceCap \in Nat /\ SentenceCap >= 3
ASSUME SizesAssumption       == Sizes \subseteq Nat
ASSUME LeadingAssumption     == \A w \in DOMAIN Leading : Leading[w].value \in Nat
ASSUME WordsInAssumption     == WordsIn \in [DOMAIN Spelling -> Seq(STRING)]

-----------------------------------------------------------------------------
(***************************************************************************)
(* Normalisation.                                                          *)
(***************************************************************************)
Join(parts, between) ==
  LET upto[k \in 0 .. Len(parts)] ==
        CASE k = 0 -> <<>>
          [] k = 1 -> parts[1]
          [] OTHER -> upto[k - 1] \o between \o parts[k]
  IN  upto[Len(parts)]

Bytes(sentence) == Join([k \in DOMAIN sentence |-> Spelling[sentence[k]]], <<"other">>)
Words(sentence) == Join([k \in DOMAIN sentence |-> WordsIn[sentence[k]]], <<>>)

Width(c) == IF c = "umlaut" THEN 2 ELSE 1

\* One character copied, behind the space that was put off until a word needs it.
Copied(s, c) ==
  CASE ~s.fits                                            -> s
    [] s.fits /\ c = "other"                              -> [s EXCEPT !.space = s.n > 1]
    [] OTHER ->
         IF s.n + Width(c) + 1 >= SentenceCap THEN [s EXCEPT !.fits = FALSE]
         ELSE [ n |-> s.n + Width(c) + (IF s.space THEN 1 ELSE 0),
                space |-> FALSE, fits |-> TRUE ]

\* The buffer when the text is read: n bytes of it are written.
Normalised(bytes) ==
  LET upto[k \in 0 .. Len(bytes)] ==
        IF k = 0 THEN [n |-> 1, space |-> FALSE, fits |-> TRUE]
        ELSE Copied(upto[k - 1], bytes[k])
  IN  upto[Len(bytes)]

Fits(sentence) == Normalised(Bytes(sentence)).fits

-----------------------------------------------------------------------------
(***************************************************************************)
(* Durations.                                                              *)
(***************************************************************************)
MaxDuration == 24 * 3600
NoRest == ""

Numerals ==
  { <<1, {"one", "ein", "eine", "eins"}>>, <<2, {"two", "zwei"}>>,
    <<3, {"three", "drei"}>>, <<4, {"four", "vier"}>>, <<5, {"five", "fuenf"}>>,
    <<6, {"six", "sechs"}>>, <<7, {"seven", "sieben"}>>, <<8, {"eight", "acht"}>>,
    <<9, {"nine", "neun"}>>, <<10, {"ten", "zehn"}>>, <<11, {"elf"}>>, <<12, {"zwoelf"}>>,
    <<15, {"fifteen", "fuenfzehn"}>>, <<20, {"twenty", "zwanzig"}>>,
    <<30, {"thirty", "dreissig"}>>, <<60, {"sixty", "sechzig"}>> }

BeginsWith(word, terms) == word \in DOMAIN Begins /\ Begins[word] \cap terms # {}

UnitSeconds(word) ==
  CASE BeginsWith(word, {"sekund", "second", "sec"}) \/ word = "s" -> 1
    [] BeginsWith(word, {"minut", "min"})                          -> 60
    [] BeginsWith(word, {"stund", "hour"}) \/ word = "h"           -> 3600
    [] OTHER                                                       -> 0

\* leading_digits gives up, rather than overflow, past an absurd value.
LeadingDigits(word) ==
  IF word \in DOMAIN Leading /\ Leading[word].value <= MaxDuration * 3600
  THEN Leading[word].value ELSE -1

\* "300s", "5min": number and unit in one word.
Joined(word) == LeadingDigits(word) >= 0 /\ Leading[word].rest # NoRest

WordNumber(word) ==
  IF \E e \in Numerals : word \in e[2] THEN (CHOOSE e \in Numerals : word \in e[2])[1] ELSE -1

Number(word) == IF LeadingDigits(word) >= 0 THEN LeadingDigits(word) ELSE WordNumber(word)

\* Seconds in the unit that belongs to the number at k, in its word or the next.
UnitAt(words, k) ==
  CASE Joined(words[k])                        -> UnitSeconds(Leading[words[k]].rest)
    [] ~Joined(words[k]) /\ k < Len(words)     -> UnitSeconds(words[k + 1])
    [] OTHER                                   -> 0

SecondsAt(words, k) ==
  IF Number(words[k]) > 0 THEN Number(words[k]) * UnitAt(words, k) ELSE 0

\* A unit that stands alone behind its number is read with it.
TakesNext(words, k) ==
  ~Joined(words[k]) /\ Number(words[k]) >= 0 /\ UnitAt(words, k) > 0

\* Mutant: the scan ends at the first duration.
ScanFirst(words) ==
  LET from[k \in 1 .. Len(words) + 2] ==
        IF k > Len(words) THEN <<>>
        ELSE IF SecondsAt(words, k) > 0 THEN <<SecondsAt(words, k)>> ELSE from[k + 1]
  IN  from[1]

\* scan_durations: every duration, in the order of the sentence.
Scan(words) ==
  LET from[k \in 1 .. Len(words) + 2] ==
        IF k > Len(words) THEN <<>>
        ELSE (IF SecondsAt(words, k) > 0 THEN <<SecondsAt(words, k)>> ELSE <<>>)
               \o from[IF TakesNext(words, k) THEN k + 2 ELSE k + 1]
  IN  from[1]

-----------------------------------------------------------------------------
(***************************************************************************)
(* Templates: a group of terms for the thing and one for what it does, in  *)
(* each language, and the timing a rule gets that asks for nothing else.   *)
(***************************************************************************)
Lang == {"en", "de"}

Package ==
  [ en |-> << {"packag", "parcel"},
              {"left", "leave", "deliver", "arriv", "drop", "placed", "place", "put",
               "appear", "shows"} >>,
    de |-> << {"paket", "paeckchen", "sendung", "lieferung"},
              {"abgestellt", "abstell", "abgelegt", "ableg", "zugestellt", "zustell",
               "geliefert", "liefer", "ankomm", "hingestellt", "hinstell", "auftaucht",
               "dasteht", "erscheint"} >> ]

Door ==
  [ en |-> << {"door", "gate"}, {"open", "ajar"} >>,
    de |-> << {"tuer", "haustuer", "eingangstuer", "wohnungstuer", "garagentor", "tor"},
              {"offen", "geoeffnet", "aufsteht"} >> ]

Template ==
  [ doorstep_package |->
      [ groups |-> Package, kind |-> "appeared", target |-> "yes", takes_duration |-> FALSE,
        confirm_count |-> 3, confirm_window |-> 10, max_gap |-> 15, sustain |-> 0 ],
    door_open |->
      [ groups |-> Door, kind |-> "sustained", target |-> "yes", takes_duration |-> TRUE,
        confirm_count |-> 2, confirm_window |-> 2, max_gap |-> 15, sustain |-> 300 ] ]

Negations ==
  { "no", "not", "nothing", "none", "never", "without", "dont", "doesnt", "isnt", "don",
    "kein", "keine", "keinen", "keins", "nicht", "nie", "ohne" }

Matches(t, words, lang) ==
  \A g \in 1 .. 2 : \E k \in DOMAIN words : BeginsWith(words[k], Template[t].groups[lang][g])

\* The templates the sentence reads as, and the languages it does so in.
Hits(words)     == {t \in DOMAIN Template : \E lang \in Lang : Matches(t, words, lang)}
BothTongues(words) == {t \in Hits(words) : \A lang \in Lang : Matches(t, words, lang)}
LangOf(t, words)   == IF Matches(t, words, "en") THEN "en" ELSE "de"

-----------------------------------------------------------------------------
(***************************************************************************)
(* gw_rule_compile.                                                        *)
(***************************************************************************)
IdOk(id) == CopyIdStatus(id) = "OK" /\ id \notin OddIds

\* Zero means: take the template's.
Or(asked, default) == IF asked > 0 THEN asked ELSE default

Sustain(req, t, said) ==
  CASE req.sustain > 0                     -> req.sustain
    [] req.sustain <= 0 /\ Len(said) = 1   -> said[1]
    [] OTHER                               -> Template[t].sustain

Timing(req, t, said) ==
  [ id |-> req.id, kind |-> Template[t].kind, target |-> Template[t].target,
    confirm_count  |-> Or(req.confirm_count, Template[t].confirm_count),
    confirm_window |-> Or(req.confirm_window, Template[t].confirm_window),
    max_gap        |-> Or(req.max_gap, Template[t].max_gap),
    sustain        |-> Sustain(req, t, said) ]

\* Mutant: an appearance takes the duration a sentence names.
TooMuchSaidOfAnother(hits, said) == FALSE

\* A duration the template has no use for.
TooMuchSaid(hits, said) == Len(said) = 1 /\ \E t \in hits : ~Template[t].takes_duration

\* Mutant: the last of several templates wins.
AmbiguousNever(words) == BothTongues(words) # {}

Ambiguous(words) == BothTongues(words) # {} \/ Cardinality(Hits(words)) > 1

\* Every check, in the order of the code: what is refused, and how.
Refusals(req) ==
  LET words == Words(req.sentence)
      hits  == Hits(words)
      said  == Scan(words)
  IN  << <<~IdOk(req.id), "INVALID_ARG", "id">>,
         <<\E text \in req.region : ~RegionMeans(text), "INVALID_ARG", "region">>,
         <<\E n \in {req.confirm_window, req.max_gap, req.sustain} : n < 0,
             "INVALID_ARG", "negative">>,
         <<req.sentence = <<>>, "INVALID_ARG", "no sentence">>,
         <<~Fits(req.sentence), "LIMIT", "too long">>,
         <<\E k \in DOMAIN words : words[k] \in Negations, "INVALID_ARG", "negated">>,
         <<Ambiguous(words), "INVALID_ARG", "ambiguous">>,
         <<hits = {}, "INVALID_ARG", "not understood">>,
         <<Len(said) > 1, "INVALID_ARG", "several durations">>,
         <<TooMuchSaid(hits, said), "INVALID_ARG", "no use for the duration">>,
         <<Len(said) = 1 /\ said[1] > MaxDuration, "INVALID_ARG", "too long a duration">>,
         <<req.sustain > 0 /\ \E t \in hits : ~Template[t].takes_duration,
             "INVALID_ARG", "no use for the parameter">>,
         <<req.sustain > 0 /\ Len(said) = 1 /\ said # <<req.sustain>>,
             "INVALID_ARG", "contradiction">>,
         <<\E t \in hits : ~Usable(Timing(req, t, said)), "INVALID_ARG", "core">> >>

Compiled(req) ==
  LET words   == Words(req.sentence)
      checks  == Refusals(req)
      refused == {k \in DOMAIN checks : checks[k][1]}
      first   == CHOOSE k \in refused : \A j \in refused : k <= j
      hit     == CHOOSE t \in Hits(words) : TRUE
  IN  IF refused # {} THEN [status |-> checks[first][2], why |-> checks[first][3]]
      ELSE [ status |-> "OK", template |-> hit, lang |-> LangOf(hit, words),
             timing |-> Timing(req, hit, Scan(words)),
             region |-> IF req.region = {} THEN WholeFrame
                        ELSE RegionOf(CHOOSE text \in req.region : TRUE) ]

Pending == [status |-> "pending"]
NoRect == [x |-> 0, y |-> 0, w |-> 0, h |-> 0]

CInit ==
  /\ request \in Requests
  /\ result = Pending
  /\ frame = <<0, 0>> /\ rect = NoRect

Compile ==
  /\ result = Pending
  /\ result' = Compiled(request)
  /\ UNCHANGED <<request, frame, rect>>

\* gw_region_pixels, for a frame of any size but an empty one.
Crop ==
  /\ result.status = "OK"
  /\ \E width, height \in Sizes \ {0} :
       /\ frame' = <<width, height>>
       /\ rect' = RegionPixels(result.region, width, height)
  /\ UNCHANGED <<request, result>>

CNext == Compile \/ Crop

CSpec == CInit /\ [][CNext]_cvars

-----------------------------------------------------------------------------
Done == result # Pending
Good == result.status = "OK"

\* gw_rules.c:692: every way to a configuration the core refuses is refused
\* before, with a better message: the trial of gw_add_rule never fails, and what
\* is compiled is a rule of the core.
CoreNeverRefuses ==
  Done =>
    /\ result.status # "OK" => result.why # "core"
    /\ Good => Usable(result.timing) /\ CopyIdStatus(result.timing.id) = "OK"

\* gw_rules.c:21: a sentence arms the rule it asks for or none.  What is compiled
\* is asked for by words of one language, and no other template in any language
\* is asked for by the same sentence; nothing in it negates.
ArmsWhatItSays ==
  Good =>
    LET words == Words(request.sentence)
    IN  /\ \A t \in DOMAIN Template, lang \in Lang :
             Matches(t, words, lang) <=> t = result.template /\ lang = result.lang
        /\ \A k \in DOMAIN words : words[k] \notin Negations

\* Every number of the sentence that has its unit, wherever it stands.
Counted(words) == {k \in DOMAIN words : SecondsAt(words, k) > 0}

\* A word that is both: "sechs" begins with "sec".
NumberAndUnit(word) == Number(word) >= 0 /\ UnitSeconds(word) > 0

\* The rule waits for the duration said, in the sentence or the parameter, and
\* for no other: they agree where both say one, no other duration is passed over,
\* and only where none is said does the template's own apply.
SaidIsMeant ==
  Good =>
    LET words   == Words(request.sentence)
        said    == { SecondsAt(words, k) : k \in Counted(words) }
                     \cup (IF request.sustain > 0 THEN {request.sustain} ELSE {})
    IN  (\A k \in DOMAIN words : ~NumberAndUnit(words[k])) =>
          /\ Cardinality(Counted(words)) <= 1
          /\ said = {} => result.timing.sustain = Template[result.template].sustain
          /\ said # {} => said = {result.timing.sustain}

\* gw_rule.h:67: what a frame is cropped to is never empty, never outside the
\* frame, and shows the region the rule was written for.
RegionIsShown ==
  frame # <<0, 0>> =>
    /\ Shows(rect.x, rect.w, result.region.x, result.region.w, frame[1])
    /\ Shows(rect.y, rect.h, result.region.y, result.region.h, frame[2])

-----------------------------------------------------------------------------
\* test_rules.c:238 "A duration the template cannot honour is dropped by no one":
\* a number that the sentence puts before a unit of time is the duration of the
\* rule, or the sentence is refused.
NoDurationDropped ==
  Good =>
    LET words == Words(request.sentence)
    IN  \A k \in 1 .. Len(words) - 1 :
          Number(words[k]) >= 0 /\ words[k + 1] \in TimeUnits =>
            SecondsAt(words, k) = result.timing.sustain

\* gw_rules.c:37 SENTENCE_CAP bounds the "normalised copy": the space and the
\* terminator that end it are inside the buffer like the rest.
CopyFits ==
  Done =>
    LET copy == Normalised(Bytes(request.sentence))
    IN  copy.fits => copy.n + 1 < SentenceCap
=============================================================================
