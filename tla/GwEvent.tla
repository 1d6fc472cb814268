------------------------------ MODULE GwEvent -------------------------------
(***************************************************************************)
(* gw_event_render of src/gw_event.c, and a caller that does as the header *)
(* says: it renders into the buffer it has, and when the record does not   *)
(* fit, sizes up to what the call asks for and renders again.              *)
(*                                                                         *)
(* A character is a string.  The keys of the record, which are constant    *)
(* text, are one character each; the quotes around strings, the digits of  *)
(* numbers and what stands in ids are characters of their own.  Clocks may *)
(* count smaller units than the code's (60, 24, 10^9), dates are whole.    *)
(*                                                                         *)
(* Definitions marked "Mutant:" are one-line bugs put in place of the      *)
(* operator that follows them, to show that a property notices.            *)
(***************************************************************************)
EXTENDS Integers, Sequences

CONSTANTS
  Occurrences,    \* what a caller may have to say
  Batches,        \* and in which sequences
  BufferSizes,    \* capacities of the buffer it has at first
  Sixty, HoursPerDay, NsPerSecond, NsPerMilli

VARIABLES
  todo,           \* events still to be rendered
  buffer,         \* what was written into the caller's buffer
  cap,            \* its size
  status, required,
  sent            \* the events rendered and their records

evars == <<todo, buffer, cap, status, required, sent>>

ASSUME BufferSizesAssumption == BufferSizes \subseteq Nat
ASSUME ClockAssumption ==
  /\ Sixty \in 1 .. 60 /\ HoursPerDay \in 1 .. 24
  /\ {NsPerSecond, NsPerMilli} \subseteq Nat \ {0}
  /\ NsPerSecond % NsPerMilli = 0 /\ NsPerSecond \div NsPerMilli <= 1000

Minute == Sixty
Hour   == Sixty * Minute
Day    == HoursPerDay * Hour

-----------------------------------------------------------------------------
(***************************************************************************)
(* The calendar: civil_from_days, format_rfc3339.                          *)
(***************************************************************************)
\* Division as C does it, toward zero.
TruncDiv(a, b) == IF a >= 0 THEN a \div b ELSE -((-a) \div b)
TruncMod(a, b) == a - b * TruncDiv(a, b)

\* Mutant: no correction every century.
YearOfEraJulian(doe) == (doe - doe \div 1460 - doe \div 146096) \div 365

YearOfEra(doe) == (doe - doe \div 1460 + doe \div 36524 - doe \div 146096) \div 365

\* The civil date of a day counted from 1970-01-01; years begin in March.
Civil(days) ==
  LET z     == days + 719468
      era   == TruncDiv(IF z >= 0 THEN z ELSE z - 146096, 146097)
      doe   == z - era * 146097
      yoe   == YearOfEra(doe)
      doy   == doe - (365 * yoe + yoe \div 4 - yoe \div 100)
      mp    == (5 * doy + 2) \div 153
      month == IF mp < 10 THEN mp + 3 ELSE mp - 9
  IN  [ y |-> yoe + era * 400 + (IF month <= 2 THEN 1 ELSE 0),
        mo |-> month, d |-> doy - (153 * mp + 2) \div 5 + 1 ]


\* C truncates toward zero; calendars do not.
SecondsOf(ns) ==
  LET secs == TruncDiv(ns, NsPerSecond)
      rem  == TruncMod(ns, NsPerSecond)
  IN  IF rem < 0 THEN [secs |-> secs - 1, rem |-> rem + NsPerSecond]
                 ELSE [secs |-> secs, rem |-> rem]

DaysOf(secs) == TruncDiv(IF secs >= 0 THEN secs ELSE secs - (Day - 1), Day)

Digits == <<"0", "1", "2", "3", "4", "5", "6", "7", "8", "9">>

\* UINT64_MAX has twenty.
MaxDigits == 20

\* What is left of a number without its last k digits.
Shifted(value) ==
  LET last[k \in 0 .. MaxDigits] == IF k = 0 THEN value ELSE last[k - 1] \div 10 IN last

\* The n digits a number ends in, and all of them.
Padded(value, n) == [k \in 1 .. n |-> Digits[(Shifted(value)[n - k] % 10) + 1]]

Places(value) ==
  CHOOSE n \in 1 .. MaxDigits :
    Shifted(value)[n] = 0 /\ (n > 1 => Shifted(value)[n - 1] # 0)

Decimal(value) == Padded(value, Places(value))

Rfc3339(ns) ==
  LET s    == SecondsOf(ns)
      days == DaysOf(s.secs)
      sod  == s.secs - days * Day
      date == Civil(days)
  IN  Padded(date.y, 4) \o <<"-">> \o Padded(date.mo, 2) \o <<"-">> \o Padded(date.d, 2)
        \o <<"T">> \o Padded(sod \div Hour, 2) \o <<":">>
        \o Padded((sod \div Sixty) % Sixty, 2) \o <<":">> \o Padded(sod % Sixty, 2)
        \o <<".">> \o Padded(s.rem \div NsPerMilli, 3) \o <<"Z">>

-----------------------------------------------------------------------------
(***************************************************************************)
(* The record.                                                             *)
(***************************************************************************)
Quote     == "\""
Backslash == "\\"
Nul       == "NUL"

\* Control characters that have an escape of their own, and some that do not.
Short == [LF |-> "n", CR |-> "r", TAB |-> "t"]
Hex   == [SOH |-> <<"0", "0", "0", "1">>, ESC |-> <<"0", "0", "1", "b">>]

\* Mutant: backslashes are copied as they are.
EscapeQuotes(ch) ==
  CASE ch = Quote        -> <<Backslash, ch>>
    [] ch \in DOMAIN Short -> <<Backslash, Short[ch]>>
    [] ch \in DOMAIN Hex   -> <<Backslash, "u">> \o Hex[ch]
    [] OTHER               -> <<ch>>

Escape(ch) ==
  CASE ch \in {Quote, Backslash} -> <<Backslash, ch>>
    [] ch \in DOMAIN Short       -> <<Backslash, Short[ch]>>
    [] ch \in DOMAIN Hex         -> <<Backslash, "u">> \o Hex[ch]
    [] OTHER                     -> <<ch>>

Escaped(text) ==
  LET upto[k \in 0 .. Len(text)] == IF k = 0 THEN <<>> ELSE upto[k - 1] \o Escape(text[k])
  IN  upto[Len(text)]

StringField(key, value) == <<key, Quote>> \o Escaped(value) \o <<Quote>>

\* Mutant: the sequence is left to the fields that follow.
EventIdBare(ev) == ev.camera_id \o <<":">> \o ev.rule_id

EventId(ev) == ev.camera_id \o <<":">> \o ev.rule_id \o <<":">> \o Decimal(ev.sequence)

Record(ev) ==
  <<"{schema_version:">> \o Decimal(1) \o StringField(",event_id:", EventId(ev))
    \o StringField(",camera_id:", ev.camera_id) \o StringField(",rule_id:", ev.rule_id)
    \o StringField(",event_type:", ev.event_type)
    \o StringField(",observed_at:", Rfc3339(ev.observed_at))
    \o StringField(",emitted_at:", Rfc3339(ev.emitted_at))
    \o <<",confirmations:">> \o Decimal(ev.confirmations)
    \o <<",sustained_ms:">> \o Decimal(ev.sustained \div NsPerMilli) \o <<"}">>

\* Days from the epoch that an int64 of nanoseconds reaches.
FirstDay == -106752
LastDay  == 106751
Days     == FirstDay .. LastDay

\* struct gw_event; texts are sequences of characters, times count nanoseconds.
Tellable(ev) ==
  /\ DOMAIN ev = { "camera_id", "rule_id", "event_type", "sequence", "observed_at",
                   "emitted_at", "confirmations", "sustained" }
  /\ {ev.camera_id, ev.rule_id, ev.event_type} \subseteq Seq(STRING)
  /\ \A n \in {ev.sequence, ev.confirmations, ev.sustained} :
       n \in Nat /\ Shifted(n)[MaxDigits] = 0
  /\ \A ns \in {ev.observed_at, ev.emitted_at} :
       ns \in Int /\ DaysOf(SecondsOf(ns).secs) \in Days

ASSUME EventsAssumption  == \A ev \in Occurrences : Tellable(ev)
ASSUME BatchesAssumption == Batches \subseteq Seq(Occurrences)

-----------------------------------------------------------------------------
(***************************************************************************)
(* The bounded writer.                                                     *)
(***************************************************************************)
\* Mutant: len counts what was written, not what the text needs.
PutCounted(size, w, ch) ==
  IF w.len + 1 < size THEN [len |-> w.len + 1, buf |-> Append(w.buf, ch)] ELSE w

\* One character, if it fits in front of the terminator; len counts it anyway.
Put(size, w, ch) ==
  [ len |-> w.len + 1, buf |-> IF w.len + 1 < size THEN Append(w.buf, ch) ELSE w.buf ]

Written(size, text) ==
  LET upto[k \in 0 .. Len(text)] ==
        IF k = 0 THEN [len |-> 0, buf |-> <<>>] ELSE Put(size, upto[k - 1], text[k])
  IN  upto[Len(text)]

EInit ==
  /\ todo \in Batches
  /\ cap \in BufferSizes
  /\ buffer = <<>> /\ required = 0 /\ status = "none"
  /\ sent = <<>>

Whole(w) ==
  /\ status' = "OK"
  /\ buffer' = Append(w.buf, Nul)
  /\ sent' = Append(sent, [event |-> Head(todo), line |-> w.buf])
  /\ todo' = Tail(todo)

\* Refused whole: what was written is taken back.
TooLong(w) ==
  /\ status' = "LIMIT"
  /\ buffer' = IF cap = 0 THEN <<>>
               ELSE <<Nul>> \o SubSeq(w.buf, 2, Len(w.buf))
  /\ UNCHANGED <<todo, sent>>

Render ==
  /\ todo # <<>> /\ status # "LIMIT"
  /\ LET w == Written(cap, Record(Head(todo)))
     IN  /\ required' = w.len + 1
         /\ IF w.len + 1 > cap THEN TooLong(w) ELSE Whole(w)
  /\ UNCHANGED cap

\* The caller makes the buffer as large as it was told.
SizeUp ==
  /\ status = "LIMIT"
  /\ cap' = required
  /\ status' = "none"
  /\ UNCHANGED <<todo, buffer, required, sent>>

ENext == Render \/ SizeUp

ESpec == EInit /\ [][ENext]_evars

-----------------------------------------------------------------------------
(***************************************************************************)
(* A reader of JSON: the strings of a line in their order, without their   *)
(* escapes, and the numbers between them.                                  *)
(***************************************************************************)
Extended(s, ch) == [s EXCEPT ![Len(s)] = Append(@, ch)]

ReadOutside(r, ch) ==
  CASE ch = Quote -> [r EXCEPT !.mode = "string", !.strings = Append(@, <<>>)]
    [] \E k \in 1 .. 10 : Digits[k] = ch ->
         IF r.mode = "number" THEN [r EXCEPT !.numbers = Extended(@, ch)]
         ELSE [r EXCEPT !.mode = "number", !.numbers = Append(@, <<ch>>)]
    [] OTHER -> [r EXCEPT !.mode = "outside"]

ReadInside(r, ch) ==
  CASE ch = Quote     -> [r EXCEPT !.mode = "outside"]
    [] ch = Backslash -> [r EXCEPT !.mode = "escape"]
    [] ch \in DOMAIN Short \cup DOMAIN Hex -> [r EXCEPT !.mode = "bad"]
    [] OTHER          -> [r EXCEPT !.strings = Extended(@, ch)]

ReadEscape(r, ch) ==
  CASE ch \in {Quote, Backslash} ->
         [r EXCEPT !.mode = "string", !.strings = Extended(@, ch)]
    [] \E c \in DOMAIN Short : Short[c] = ch ->
         [r EXCEPT !.mode = "string",
                   !.strings = Extended(@, CHOOSE c \in DOMAIN Short : Short[c] = ch)]
    [] ch = "u" -> [r EXCEPT !.mode = "hex", !.hex = <<>>]
    [] OTHER    -> [r EXCEPT !.mode = "bad"]

ReadHex(r, ch) ==
  LET hex == Append(r.hex, ch)
  IN  CASE Len(hex) < 4 -> [r EXCEPT !.hex = hex]
        [] Len(hex) = 4 /\ (\E c \in DOMAIN Hex : Hex[c] = hex) ->
             [r EXCEPT !.mode = "string",
                       !.strings = Extended(@, CHOOSE c \in DOMAIN Hex : Hex[c] = hex)]
        [] OTHER -> [r EXCEPT !.mode = "bad"]

ReadOne(r, ch) ==
  CASE r.mode \in {"outside", "number"} -> ReadOutside(r, ch)
    [] r.mode = "string"                -> ReadInside(r, ch)
    [] r.mode = "escape"                -> ReadEscape(r, ch)
    [] r.mode = "hex"                   -> ReadHex(r, ch)
    [] OTHER                            -> r

ReadBack(line) ==
  LET upto[k \in 0 .. Len(line)] ==
        IF k = 0 THEN [mode |-> "outside", strings |-> <<>>, numbers |-> <<>>, hex |-> <<>>]
        ELSE ReadOne(upto[k - 1], line[k])
  IN  upto[Len(line)]

\* A text of digits as a number.
ValueOf(text) ==
  LET upto[k \in 0 .. Len(text)] ==
        IF k = 0 THEN 0
        ELSE 10 * upto[k - 1] + (CHOOSE n \in 0 .. 9 : Digits[n + 1] = text[k])
  IN  upto[Len(text)]

ValueAt(text, first, last) == ValueOf(SubSeq(text, first, last))

-----------------------------------------------------------------------------
(***************************************************************************)
(* The instant a date and time means, by the rule of leap years.           *)
(***************************************************************************)
Leap(y) == (y % 4 = 0 /\ y % 100 # 0) \/ y % 400 = 0

MonthDays(y, m) ==
  CASE m = 2               -> IF Leap(y) THEN 29 ELSE 28
    [] m \in {4, 6, 9, 11} -> 30
    [] OTHER               -> 31

DaysBeforeYear(y)  == 365 * y + (y - 1) \div 4 - (y - 1) \div 100 + (y - 1) \div 400
DaysBeforeMonth(y, m) ==
  LET upto[k \in 0 .. m - 1] == IF k = 0 THEN 0 ELSE upto[k - 1] + MonthDays(y, k)
  IN  upto[m - 1]

DayNumber(y, m, d) == DaysBeforeYear(y) - DaysBeforeYear(1970) + DaysBeforeMonth(y, m) + d - 1

\* text is a time of the calendar, and the instant ns is in its millisecond.
IsInstant(text, ns) ==
  LET y == ValueAt(text, 1, 4)    mo == ValueAt(text, 6, 7)    d == ValueAt(text, 9, 10)
      h == ValueAt(text, 12, 13)  mi == ValueAt(text, 15, 16)  s == ValueAt(text, 18, 19)
      ms == ValueAt(text, 21, 23)
      secs == DayNumber(y, mo, d) * Day + h * Hour + mi * Minute + s
  IN  /\ mo \in 1 .. 12 /\ d \in 1 .. MonthDays(y, mo)
      /\ h < HoursPerDay /\ mi < Sixty /\ s < Sixty /\ ms < NsPerSecond \div NsPerMilli
      /\ ns - (secs * NsPerSecond + ms * NsPerMilli) \in 0 .. NsPerMilli - 1

-----------------------------------------------------------------------------
\* geist_watch.h:303: a caller that knows the size a record needs never ships a
\* truncated line: nothing is written past the buffer, what is left of a record
\* that did not fit is the empty string, and with the size asked for it fits.
RecordWholeOrNothing ==
  /\ Len(buffer) <= cap
  /\ status = "LIMIT" /\ cap > 0 => buffer[1] = Nul
  /\ status = "LIMIT" => required > cap /\ required = Len(Record(Head(todo))) + 1
  /\ status = "OK" => buffer = Append(Record(sent[Len(sent)].event), Nul)

\* ns nanoseconds, cut to milliseconds, are ms.
InMilli(ns, ms) == ms * NsPerMilli <= ns /\ ns < (ms + 1) * NsPerMilli

\* gw_event.c:69: whatever stands in the ids, a line is JSON that says of the
\* event what the caller said, in the order of the keys; of how long it was
\* sustained, the millisecond.
RecordReadsBack ==
  \A k \in DOMAIN sent :
    LET ev == sent[k].event
        r  == ReadBack(sent[k].line)
    IN  /\ r.mode = "outside"
        /\ Len(r.strings) = 6 /\ Len(r.numbers) = 3
        /\ SubSeq(r.strings, 2, 4) = <<ev.camera_id, ev.rule_id, ev.event_type>>
        /\ ValueOf(r.numbers[2]) = ev.confirmations
        /\ InMilli(ev.sustained, ValueOf(r.numbers[3]))

NoColon(text) == \A k \in DOMAIN text : text[k] # ":"

\* gw_event.c:152: lines of different cameras, rules or sequence numbers never
\* have one event_id, by which a consumer drops what was delivered twice.  Rule
\* ids are those of compiled rules, which have no colon; a camera's may.
EventIdsTellApart ==
  \A j, k \in DOMAIN sent :
    LET a == sent[j].event
        b == sent[k].event
    IN  /\ NoColon(a.rule_id) /\ NoColon(b.rule_id)
        /\ ReadBack(sent[j].line).strings[1] = ReadBack(sent[k].line).strings[1]
        => <<a.camera_id, a.rule_id, a.sequence>> = <<b.camera_id, b.rule_id, b.sequence>>

\* geist_watch.h:277: the two timestamps are the UTC instants of the event to the
\* millisecond, before and after 1970, in leap years and at every boundary.
TimesAreTheInstants ==
  \A k \in DOMAIN sent :
    LET strings == ReadBack(sent[k].line).strings
    IN  /\ IsInstant(strings[5], sent[k].event.observed_at)
        /\ IsInstant(strings[6], sent[k].event.emitted_at)
=============================================================================
