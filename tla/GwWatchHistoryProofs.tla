------------------------ MODULE GwWatchHistoryProofs -------------------------
(***************************************************************************)
(* The counters of a rule summarise its history, and every rule keeps the  *)
(* promise of GwPromise, for any rules, any clock and histories of any     *)
(* length.                                                                 *)
(***************************************************************************)
EXTENDS GwWatchHistory, GwWatchProofs

Answer == [at : Int, value : Value]

Ordered(s) == \A j, k \in 1 .. Len(s) : j <= k => s[j].at <= s[k].at

FirstAgreeing(s, j) ==
  /\ j \in 1 .. Len(s)
  /\ Agreeing(s, j, Len(s))
  /\ j = 1 \/ ~Agreeing(s, j - 1, Len(s))

\* min(n, CountMax): how far a saturating counter gets.
Counted(n) == IF n < CountMax THEN n ELSE CountMax

-----------------------------------------------------------------------------
(***************************************************************************)
(* One more answer at the end of a history.                                *)
(***************************************************************************)
LEMMA AppendFacts ==
  ASSUME NEW s \in Seq(Answer), NEW a \in Answer
  PROVE  LET t == Append(s, a) IN
         /\ t \in Seq(Answer) /\ Len(s) \in Nat /\ Len(t) = Len(s) + 1
         /\ DOMAIN t = 1 .. Len(t) /\ DOMAIN s = 1 .. Len(s)
         /\ \A k \in 1 .. Len(s) : t[k] = s[k]
         /\ t[Len(t)] = a /\ t # <<>>
         /\ \A k \in 1 .. Len(s) : s[k] \in Answer
OBVIOUS

\* What was said before agrees as it did, and with the new answer if it is alike.
LEMMA AgreeingAppend ==
  ASSUME NEW s \in Seq(Answer), NEW a \in Answer
  PROVE  LET t == Append(s, a) IN
         /\ \A j \in 1 .. Len(t), k \in 1 .. Len(s) : Agreeing(t, j, k) <=> Agreeing(s, j, k)
         /\ \A j \in 1 .. Len(s) :
              Agreeing(t, j, Len(t)) <=> Agreeing(s, j, Len(s)) /\ s[Len(s)].value = a.value
         /\ Agreeing(t, Len(t), Len(t))
<1> DEFINE t == Append(s, a)
<1>1. /\ Len(s) \in Nat /\ Len(t) = Len(s) + 1
      /\ \A k \in 1 .. Len(s) : t[k] = s[k]
      /\ t[Len(t)] = a
  BY AppendFacts
<1> HIDE DEF t
<1>2. \A j \in 1 .. Len(t), k \in 1 .. Len(s) : Agreeing(t, j, k) <=> Agreeing(s, j, k)
  <2> SUFFICES ASSUME NEW j \in 1 .. Len(t), NEW k \in 1 .. Len(s)
               PROVE  Agreeing(t, j, k) <=> Agreeing(s, j, k)
    OBVIOUS
  <2>1. \A m \in j .. k : t[m] = s[m]
    BY <1>1
  <2>2. t[k] = s[k]
    BY <1>1
  <2> QED
    BY <2>1, <2>2 DEF Agreeing
<1>3. \A j \in 1 .. Len(s) :
        Agreeing(t, j, Len(t)) <=> Agreeing(s, j, Len(s)) /\ s[Len(s)].value = a.value
  <2> SUFFICES ASSUME NEW j \in 1 .. Len(s)
               PROVE  Agreeing(t, j, Len(t))
                        <=> Agreeing(s, j, Len(s)) /\ s[Len(s)].value = a.value
    OBVIOUS
  <2>1. /\ j .. Len(t) = (j .. Len(s)) \cup {Len(t)}
        /\ Len(s) \in j .. Len(s)
        /\ \A m \in j .. Len(s) : t[m] = s[m]
    BY <1>1
  <2> QED
    BY <1>1, <2>1 DEF Agreeing
<1>4. Agreeing(t, Len(t), Len(t))
  BY <1>1 DEF Agreeing
<1> QED
  BY <1>2, <1>3, <1>4 DEF t

\* Old confirmations stand; the new answer may be another one.
LEMMA ConfirmedAppend ==
  ASSUME NEW s \in Seq(Answer), NEW a \in Answer, NEW cfg
  PROVE  LET t == Append(s, a) IN
         /\ \A k \in 1 .. Len(s) : k \in ConfirmedAt(t, cfg) <=> k \in ConfirmedAt(s, cfg)
         /\ Len(t) \in ConfirmedAt(t, cfg) <=> Confirming(t, Len(t), cfg)
         /\ ConfirmedAt(t, cfg) \subseteq 1 .. Len(t)
         /\ ConfirmedAt(s, cfg) \subseteq 1 .. Len(s)
<1> DEFINE t == Append(s, a)
<1>1. /\ Len(s) \in Nat /\ Len(t) = Len(s) + 1
      /\ DOMAIN t = 1 .. Len(t) /\ DOMAIN s = 1 .. Len(s)
      /\ \A k \in 1 .. Len(s) : t[k] = s[k]
  BY AppendFacts
<1>2. \A j \in 1 .. Len(t), k \in 1 .. Len(s) : Agreeing(t, j, k) <=> Agreeing(s, j, k)
  BY AgreeingAppend
<1> HIDE DEF t
<1>3. ASSUME NEW k \in 1 .. Len(s)
      PROVE  Confirming(t, k, cfg) <=> Confirming(s, k, cfg)
  <2>1. \A j \in 1 .. k : t[j] = s[j] /\ (Agreeing(t, j, k) <=> Agreeing(s, j, k))
    BY <1>1, <1>2
  <2>2. t[k] = s[k]
    BY <1>1
  <2> QED
    BY <2>1, <2>2 DEF Confirming
<1>4. \A k \in 1 .. Len(s) : k \in 1 .. Len(t)
  BY <1>1
<1>5. Len(t) \in 1 .. Len(t)
  BY <1>1
<1> QED
  BY <1>1, <1>3, <1>4, <1>5 DEF ConfirmedAt, t

\* Where the agreeing end of a history begins once another answer is appended.
LEMMA FirstAppend ==
  ASSUME NEW s \in Seq(Answer), NEW a \in Answer
  PROVE  LET t == Append(s, a) IN
         /\ s = <<>> \/ s[Len(s)].value # a.value => FirstAgreeing(t, Len(t))
         /\ \A j : FirstAgreeing(s, j) /\ s[Len(s)].value = a.value => FirstAgreeing(t, j)
<1> DEFINE t == Append(s, a)
<1>1. /\ Len(s) \in Nat /\ Len(t) = Len(s) + 1 /\ (s = <<>> \/ Len(s) \in 1 .. Len(s))
      /\ \A k \in 1 .. Len(s) : t[k] = s[k]
  BY AppendFacts
<1>2. /\ \A j \in 1 .. Len(s) :
           Agreeing(t, j, Len(t)) <=> Agreeing(s, j, Len(s)) /\ s[Len(s)].value = a.value
      /\ Agreeing(t, Len(t), Len(t))
  BY AgreeingAppend
<1>3. s = <<>> => Len(s) = 0
  OBVIOUS
<1> HIDE DEF t
<1>4. ASSUME s = <<>> \/ s[Len(s)].value # a.value PROVE FirstAgreeing(t, Len(t))
  <2>1. CASE s = <<>>
    BY <1>1, <1>2, <1>3, <2>1 DEF FirstAgreeing
  <2>2. CASE s # <<>>
    <3>1. Len(t) - 1 \in 1 .. Len(s) /\ Len(t) \in 1 .. Len(t)
      BY <1>1, <2>2
    <3>2. ~Agreeing(t, Len(t) - 1, Len(t))
      BY <1>2, <1>4, <2>2, <3>1
    <3> QED
      BY <1>2, <3>1, <3>2 DEF FirstAgreeing
  <2> QED
    BY <2>1, <2>2
<1>5. ASSUME NEW j, FirstAgreeing(s, j), s[Len(s)].value = a.value
      PROVE  FirstAgreeing(t, j)
  <2>1. j \in 1 .. Len(s) /\ j \in 1 .. Len(t) /\ Agreeing(t, j, Len(t))
    BY <1>1, <1>2, <1>5 DEF FirstAgreeing
  <2>2. CASE j = 1
    BY <2>1, <2>2 DEF FirstAgreeing
  <2>3. CASE j # 1
    <3>1. j - 1 \in 1 .. Len(s) /\ ~Agreeing(s, j - 1, Len(s))
      BY <1>1, <1>5, <2>1, <2>3 DEF FirstAgreeing
    <3>2. ~Agreeing(t, j - 1, Len(t))
      BY <1>2, <3>1
    <3> QED
      BY <2>1, <3>2 DEF FirstAgreeing
  <2> QED
    BY <2>2, <2>3
<1> QED
  BY <1>4, <1>5 DEF t

\* A history stays in the order of time when the answer appended is no older.
LEMMA OrderedAppend ==
  ASSUME NEW s \in Seq(Answer), NEW a \in Answer, Ordered(s),
         s # <<>> => s[Len(s)].at <= a.at
  PROVE  Ordered(Append(s, a))
<1> DEFINE t == Append(s, a)
<1>1. /\ Len(s) \in Nat /\ Len(t) = Len(s) + 1 /\ (s = <<>> \/ Len(s) \in 1 .. Len(s))
      /\ \A k \in 1 .. Len(s) : t[k] = s[k] /\ s[k] \in Answer
      /\ t[Len(t)] = a
  BY AppendFacts
<1>2. s = <<>> => Len(s) = 0
  OBVIOUS
<1> HIDE DEF t
<1> SUFFICES ASSUME NEW j \in 1 .. Len(t), NEW k \in 1 .. Len(t), j <= k
             PROVE  t[j].at <= t[k].at
  BY DEF Ordered, t
<1>3. a.at \in Int /\ \A m \in 1 .. Len(s) : s[m].at \in Int
  BY <1>1 DEF Answer
<1>4. CASE k \in 1 .. Len(s)
  <2>1. j \in 1 .. Len(s)
    BY <1>4
  <2> QED
    BY <1>1, <1>4, <2>1 DEF Ordered
<1>5. CASE k = Len(t) /\ j \in 1 .. Len(s)
  <2>1. s # <<>>
    BY <1>1, <1>2, <1>5
  <2>2. s[j].at <= s[Len(s)].at /\ Len(s) \in 1 .. Len(s)
    BY <1>1, <1>5, <2>1 DEF Ordered
  <2> QED
    BY <1>1, <1>3, <1>5, <2>1, <2>2
<1>6. CASE k = Len(t) /\ j = Len(t)
  BY <1>1, <1>3, <1>6
<1> QED
  BY <1>1, <1>4, <1>5, <1>6

-----------------------------------------------------------------------------
(***************************************************************************)
(* What a runtime says of the history behind it.                           *)
(***************************************************************************)
CountReflects(r, s) ==
  IF s = <<>> THEN r.candidate_count = 0
  ELSE /\ r.has_obs
       /\ r.last_obs = s[Len(s)].at
       /\ r.candidate = s[Len(s)].value
       /\ r.candidate_count > 0
       /\ \E j \in 1 .. Len(s) :
            /\ FirstAgreeing(s, j)
            /\ r.candidate_first = s[j].at
            /\ r.candidate_count = Counted(Len(s) - j + 1)

BeliefReflects(r, s) ==
  LET C == ConfirmedAt(s, r.cfg)
  IN  \/ C = {} /\ r.confirmed = "unknown"
      \/ \E k \in C : r.confirmed = s[k].value /\ \A m \in C : m <= k

ArmingReflects(r, s) ==
  Appeared(r) => (r.armed <=> AbsenceSeen(s, r.cfg, OppositeOf(r.cfg.target)))

RunReflects(r, s) ==
  r.run_open => \E k \in 1 .. Len(s) : HeldFrom(s, r.cfg, k) /\ r.run_start = s[k].at

Reflects(r, s) ==
  /\ s \in Seq(Answer) /\ Ordered(s)
  /\ CountReflects(r, s)
  /\ BeliefReflects(r, s)
  /\ ArmingReflects(r, s)
  /\ RunReflects(r, s)

\* The counters decide a confirmation as the whole history does.
LEMMA ConfirmsIsConfirming ==
  ASSUME NEW g \in Runtime, Usable(g.cfg), NEW t \in Seq(Answer), t # <<>>, Ordered(t),
         CountReflects(g, t)
  PROVE  Confirms(g, t[Len(t)].at) <=> Confirming(t, Len(t), g.cfg)
<1> DEFINE n == Len(t)
           cc == g.cfg.confirm_count
           window == g.cfg.confirm_window
<1>1. /\ n \in Nat /\ n \in 1 .. n
      /\ \A k \in 1 .. n : t[k].at \in Int
  <2>1. n \in Nat /\ n # 0 /\ \A k \in 1 .. n : t[k] \in Answer
    OBVIOUS
  <2> QED
    BY <2>1 DEF Answer
<1>2. cc \in 1 .. CountMax /\ window \in Int /\ CountMax \in Nat
  BY CountMaxAssumption DEF Usable, Runtime, Config
<1>3. PICK j \in 1 .. n :
        /\ FirstAgreeing(t, j)
        /\ g.candidate_first = t[j].at
        /\ g.candidate_count = Counted(n - j + 1)
  BY DEF CountReflects
<1>4. g.candidate_count >= cc <=> n - j + 1 >= cc
  BY <1>1, <1>2, <1>3 DEF Counted
<1> HIDE DEF cc, window
<1>5. Confirms(g, t[n].at) <=> n - j + 1 >= cc /\ t[n].at - t[j].at >= window
  BY <1>3, <1>4 DEF Confirms, cc, window
<1>6. Confirming(t, n, g.cfg) <=>
        \E k \in 1 .. n : Agreeing(t, k, n) /\ n - k + 1 >= cc /\ t[n].at - t[k].at >= window
  BY DEF Confirming, cc, window
<1>7. ASSUME NEW k \in 1 .. n, Agreeing(t, k, n), n - k + 1 >= cc, t[n].at - t[k].at >= window
      PROVE  n - j + 1 >= cc /\ t[n].at - t[j].at >= window
  <2>1. j <= k
    <3> SUFFICES ASSUME k < j PROVE FALSE
      BY <1>1
    <3>1. j # 1 /\ (j - 1) .. n \subseteq k .. n
      BY <1>1
    <3>2. Agreeing(t, j - 1, n)
      BY <1>7, <3>1 DEF Agreeing
    <3> QED
      BY <1>3, <3>1, <3>2 DEF FirstAgreeing
  <2>2. t[j].at <= t[k].at
    BY <2>1 DEF Ordered
  <2>3. t[n].at - t[j].at >= window
    BY <1>1, <1>2, <1>7, <2>2 DEF window
  <2>4. n - j + 1 >= cc
    BY <1>1, <1>2, <1>7, <2>1 DEF cc
  <2> QED
    BY <2>3, <2>4
<1>8. Agreeing(t, j, n)
  BY <1>3 DEF FirstAgreeing
<1> QED
  BY <1>5, <1>6, <1>7, <1>8

-----------------------------------------------------------------------------
(***************************************************************************)
(* Accepting an observation adds one answer to the history.                *)
(***************************************************************************)
AnswerOf(o) == [at |-> o.at, value |-> o.value]

\* Gathered bounds the counter; this is what it is.
LEMMA GatherCounts ==
  ASSUME NEW r \in Runtime, NEW o \in Heard
  PROVE  Gather(r, o).candidate_count =
           IF r.candidate_count = 0 \/ o.value # r.candidate
           THEN 1 ELSE NextCount(r.candidate_count)
<1> DEFINE st == Stamp(r, o)
           c == Count(st, o)
           n == NextCount(r.candidate_count)
<1>1. st \in Runtime /\ st.candidate_count = r.candidate_count /\ st.candidate = r.candidate
  BY StampFields, RuntimeFields
<1>2. /\ o.at \in Int /\ o.value \in Value /\ 1 \in 0 .. CountMax
      /\ \A x \in 0 .. CountMax : NextCount(x) \in 0 .. CountMax
      /\ r.candidate_count \in 0 .. CountMax
  BY CountMaxAssumption DEF Heard, NextCount, Runtime
<1> HIDE DEF st
<1>3. c \in Runtime
  BY <1>1, CountFields
<1>4. c.candidate_count = IF r.candidate_count = 0 \/ o.value # r.candidate THEN 1 ELSE n
  <2>1. CASE r.candidate_count = 0 \/ o.value # r.candidate
    BY <1>1, <2>1, CountFields
  <2>2. CASE ~(r.candidate_count = 0 \/ o.value # r.candidate)
    <3>1. c = [st EXCEPT !.candidate_count = n]
      BY <1>1, <2>2 DEF Count
    <3> HIDE DEF n
    <3>2. QED
      BY <1>1, <2>2, <3>1 DEF Runtime
  <2>3. QED
    BY <2>1, <2>2
<1> HIDE DEF c, n
<1>5. BreakOnContrary(c, o).candidate_count = c.candidate_count
  BY <1>3, BreakRunFields, RuntimeFields DEF BreakOnContrary
<1>6. QED
  BY <1>4, <1>5 DEF Gather, st, c, n

\* Counting an answer keeps the count a summary of the history.
LEMMA GatherReflects ==
  ASSUME NEW r \in Runtime, NEW o \in Heard, NEW s \in Seq(Answer), CountReflects(r, s)
  PROVE  CountReflects(Gather(r, o), Append(s, AnswerOf(o)))
<1> DEFINE g == Gather(r, o)
           a == AnswerOf(o)
           t == Append(s, a)
<1>1. a \in Answer /\ a.at = o.at /\ a.value = o.value
  BY DEF AnswerOf, Answer, Heard
<1>2. Gathered(r, o, g) /\ g.candidate_count =
           IF r.candidate_count = 0 \/ o.value # r.candidate
           THEN 1 ELSE NextCount(r.candidate_count)
  BY GatherFields, GatherCounts
<1> HIDE DEF g, a
<1>3. /\ Len(s) \in Nat /\ Len(t) = Len(s) + 1 /\ Len(t) \in 1 .. Len(t)
      /\ \A k \in 1 .. Len(s) : t[k] = s[k]
      /\ t[Len(t)] = a /\ t # <<>>
  BY <1>1, AppendFacts
<1>4. /\ s = <<>> \/ s[Len(s)].value # a.value => FirstAgreeing(t, Len(t))
      /\ \A j : FirstAgreeing(s, j) /\ s[Len(s)].value = a.value => FirstAgreeing(t, j)
  BY <1>1, FirstAppend
<1> HIDE DEF t
<1>5. /\ g.has_obs /\ g.last_obs = t[Len(t)].at /\ g.candidate = t[Len(t)].value
  BY <1>1, <1>2, <1>3 DEF Gathered
<1>6. SUFFICES /\ g.candidate_count > 0
               /\ \E j \in 1 .. Len(t) :
                    /\ FirstAgreeing(t, j)
                    /\ g.candidate_first = t[j].at
                    /\ g.candidate_count = Counted(Len(t) - j + 1)
  BY <1>3, <1>5 DEF CountReflects, g, t, a
<1>7. CASE s = <<>> \/ s[Len(s)].value # a.value
  <2>1. r.candidate_count = 0 \/ o.value # r.candidate
    BY <1>1, <1>7 DEF CountReflects
  <2>2. g.candidate_count = 1 /\ g.candidate_first = t[Len(t)].at
    BY <1>1, <1>2, <1>3, <2>1 DEF Gathered
  <2>3. Counted(Len(t) - Len(t) + 1) = 1
    BY <1>3, CountMaxAssumption DEF Counted
  <2>4. QED
    BY <1>3, <1>4, <1>7, <2>2, <2>3
<1>8. CASE s # <<>> /\ s[Len(s)].value = a.value
  <2>1. PICK j \in 1 .. Len(s) :
          /\ FirstAgreeing(s, j)
          /\ r.candidate_first = s[j].at
          /\ r.candidate_count = Counted(Len(s) - j + 1)
    BY <1>8 DEF CountReflects
  <2>2. r.candidate_count > 0 /\ r.candidate = o.value
    BY <1>1, <1>8 DEF CountReflects
  <2>3. r.candidate_count # 0
    BY <2>2
  <2>4. g.candidate_count = NextCount(r.candidate_count) /\ g.candidate_first = t[j].at
    BY <1>2, <1>3, <2>1, <2>2, <2>3 DEF Gathered
  <2>5. NextCount(Counted(Len(s) - j + 1)) = Counted(Len(t) - j + 1)
    BY <1>3, CountMaxAssumption DEF Counted, NextCount
  <2>6. g.candidate_count > 0
    BY <1>2, <2>2, <2>3 DEF Gathered
  <2>7. j \in 1 .. Len(t) /\ FirstAgreeing(t, j)
    BY <1>3, <1>4, <1>8, <2>1
  <2>8. QED
    BY <2>1, <2>4, <2>5, <2>6, <2>7
<1>9. QED
  BY <1>7, <1>8

\* An absence is seen when the new answer confirms it, or was and still stands.
LEMMA AbsenceAppend ==
  ASSUME NEW s \in Seq(Answer), NEW a \in Answer, NEW cfg, NEW opposite
  PROVE  LET t == Append(s, a) IN
         /\ AbsenceSeen(t, cfg, opposite) <=>
              IF Confirming(t, Len(t), cfg)
              THEN \/ a.value = opposite
                   \/ a.value # cfg.target /\ AbsenceSeen(s, cfg, opposite)
              ELSE AbsenceSeen(s, cfg, opposite)
         /\ Arrival(t, cfg, opposite) <=>
              /\ Confirming(t, Len(t), cfg)
              /\ a.value = cfg.target
              /\ AbsenceSeen(s, cfg, opposite)
<1> DEFINE t == Append(s, a)
           n == Len(t)
           C == ConfirmedAt(s, cfg)
           D == ConfirmedAt(t, cfg)
           absence(u, j, X) == u[j].value = opposite
                               /\ \A m \in X : m > j => u[m].value # cfg.target
<1>1. /\ Len(s) \in Nat /\ n = Len(s) + 1
      /\ \A k \in 1 .. Len(s) : t[k] = s[k]
      /\ t[n] = a
  BY AppendFacts
<1>2. /\ \A k \in 1 .. Len(s) : k \in D <=> k \in C
      /\ n \in D <=> Confirming(t, n, cfg)
      /\ D \subseteq 1 .. n /\ C \subseteq 1 .. Len(s)
  BY ConfirmedAppend
<1>3. SubSeq(t, 1, n - 1) = s
  OBVIOUS
<1>4. /\ AbsenceSeen(t, cfg, opposite) <=> \E j \in D : absence(t, j, D)
      /\ AbsenceSeen(s, cfg, opposite) <=> \E j \in C : absence(s, j, C)
  BY DEF AbsenceSeen
<1>5. Arrival(t, cfg, opposite) <=>
        n \in D /\ t[n].value = cfg.target /\ AbsenceSeen(SubSeq(t, 1, n - 1), cfg, opposite)
  BY DEF Arrival
<1> HIDE DEF t, n, C, D
<1>6. C \subseteq D /\ D \subseteq C \cup {n} /\ \A j \in C : j < n /\ t[j] = s[j]
  <2>1. \A k \in 1 .. n : k \in 1 .. Len(s) \/ k = n
    BY <1>1
  <2>2. \A k \in 1 .. Len(s) : k < n
    BY <1>1
  <2>3. QED
    BY <1>1, <1>2, <2>1, <2>2
<1>7. \A j \in C : absence(t, j, C) <=> absence(s, j, C)
  BY <1>6
<1>8. CASE n \in D
  <2>1. ASSUME NEW j \in D, absence(t, j, D)
        PROVE  a.value = opposite \/ (a.value # cfg.target /\ \E k \in C : absence(s, k, C))
    <3>1. CASE j = n
      BY <1>1, <2>1, <3>1
    <3>2. CASE j # n
      <4>1. j \in C /\ n > j
        BY <1>6, <3>2
      <4>2. a.value # cfg.target
        BY <1>1, <1>8, <2>1, <4>1
      <4>3. absence(s, j, C)
        BY <1>6, <1>7, <2>1, <4>1
      <4>4. QED
        BY <4>1, <4>2, <4>3
    <3>3. QED
      BY <3>1, <3>2
  <2>2. ASSUME a.value = opposite PROVE absence(t, n, D)
    BY <1>1, <1>2, <1>6, <2>2
  <2>3. ASSUME a.value # cfg.target, NEW k \in C, absence(s, k, C) PROVE absence(t, k, D)
    BY <1>1, <1>6, <1>7, <2>3
  <2>4. AbsenceSeen(t, cfg, opposite) <=>
          a.value = opposite \/ (a.value # cfg.target /\ AbsenceSeen(s, cfg, opposite))
    BY <1>4, <1>6, <1>8, <2>1, <2>2, <2>3
  <2>5. QED
    BY <1>1, <1>2, <1>3, <1>5, <1>8, <2>4 DEF t, n
<1>9. CASE n \notin D
  <2>1. C = D
    BY <1>6, <1>9
  <2>2. AbsenceSeen(t, cfg, opposite) <=> AbsenceSeen(s, cfg, opposite)
    BY <1>4, <1>7, <2>1
  <2>3. QED
    BY <1>2, <1>5, <1>9, <2>2 DEF t, n
<1>10. QED
  BY <1>8, <1>9

\* Beliefs, arming and runs after an answer: it confirms a value or it does not.
LEMMA AcceptReflects ==
  ASSUME NEW r \in Runtime, Usable(r.cfg), RuntimeInv(r),
         NEW o \in Heard, ~Stale(r, o), NEW s, Reflects(r, s)
  PROVE  LET e == Accept(r, o)
             t == Append(s, AnswerOf(o))
         IN  /\ Reflects(e, t)
             /\ e.cfg = r.cfg
             /\ s # <<>> => o.at >= s[Len(s)].at
             /\ e.pending <=>
                  \/ r.pending
                  \/ Appeared(r) /\ Arrival(t, r.cfg, OppositeOf(r.cfg.target))
             /\ Sustained(r) =>
                  (e.fired <=> r.fired /\ o.value = r.cfg.target)
<1> DEFINE g == Gather(r, o)
           e == Accept(r, o)
           a == AnswerOf(o)
           t == Append(s, a)
           n == Len(t)
           cfg == r.cfg
           opp == OppositeOf(r.cfg.target)
           C == ConfirmedAt(s, cfg)
           D == ConfirmedAt(t, cfg)
<1>1. /\ a \in Answer /\ a.at = o.at /\ a.value = o.value
      /\ o.at \in Int /\ o.value \in Value
  BY DEF AnswerOf, Answer, Heard
<1>2. s \in Seq(Answer) /\ Ordered(s) /\ CountReflects(r, s)
  BY DEF Reflects
<1>3. g \in Runtime /\ Gathered(r, o, g) /\ CountReflects(g, t)
  BY <1>2, GatherFields, GatherReflects
<1>4. s # <<>> => o.at >= s[Len(s)].at
  <2>1. s # <<>> => r.has_obs /\ r.last_obs = s[Len(s)].at
    BY <1>2 DEF CountReflects
  <2>2. r.last_obs \in Int
    BY DEF Runtime
  <2>3. QED
    BY <1>1, <2>1, <2>2 DEF Stale
<1>5. Ordered(t)
  <2>1. s # <<>> => s[Len(s)] \in Answer
    BY <1>2
  <2>2. s # <<>> => s[Len(s)].at <= a.at
    BY <1>1, <1>4, <2>1 DEF Answer
  <2>3. QED
    BY <1>1, <1>2, <2>2, OrderedAppend
<1>6. /\ t \in Seq(Answer) /\ t # <<>> /\ t[n] = a /\ n = Len(s) + 1 /\ Len(s) \in Nat
      /\ \A k \in 1 .. Len(s) : t[k] = s[k]
  BY <1>1, <1>2, AppendFacts
<1>7. /\ \A k \in 1 .. Len(s) : k \in D <=> k \in C
      /\ n \in D <=> Confirming(t, n, cfg)
      /\ D \subseteq 1 .. n /\ C \subseteq 1 .. Len(s)
  BY <1>1, <1>2, ConfirmedAppend
<1>8. /\ AbsenceSeen(t, cfg, opp) <=>
           IF Confirming(t, n, cfg)
           THEN o.value = opp \/ (o.value # cfg.target /\ AbsenceSeen(s, cfg, opp))
           ELSE AbsenceSeen(s, cfg, opp)
      /\ Arrival(t, cfg, opp) <=>
           /\ Confirming(t, n, cfg)
           /\ o.value = cfg.target
           /\ AbsenceSeen(s, cfg, opp)
  BY <1>1, <1>2, AbsenceAppend
<1>9. g.cfg = cfg /\ Usable(g.cfg)
  BY <1>3 DEF Gathered
<1>10. Confirms(g, o.at) <=> Confirming(t, n, cfg)
  BY <1>1, <1>3, <1>5, <1>6, <1>9, ConfirmsIsConfirming
<1>11. e = IF Confirms(g, o.at) THEN SetConfirmed(g, o.value, o.at) ELSE g
  BY <1>3 DEF Accept, Promote, Gathered
<1>12. Promoted(g, o.value, o.at, SetConfirmed(g, o.value, o.at))
  BY <1>1, <1>3, <1>9, SetConfirmedFields
<1>13. e \in Runtime /\ RuntimeInv(e)
  BY AcceptInv
<1> HIDE DEF g, e, a, t, n, C, D
<1>14. /\ e.cfg = g.cfg /\ e.has_obs = g.has_obs /\ e.last_obs = g.last_obs
       /\ e.candidate = g.candidate /\ e.candidate_count = g.candidate_count
       /\ e.candidate_first = g.candidate_first
  BY <1>11, <1>12 DEF Promoted
<1>15. CountReflects(e, t)
  BY <1>3, <1>6, <1>14 DEF CountReflects
<1>16. e.confirmed = IF n \in D THEN o.value ELSE r.confirmed
  BY <1>3, <1>7, <1>10, <1>11, <1>12 DEF Promoted, Gathered
<1>17. /\ C \subseteq D /\ D \subseteq C \cup {n}
       /\ \A j \in C : j < n /\ j <= n /\ t[j] = s[j]
  <2>1. \A k \in 1 .. n : k \in 1 .. Len(s) \/ k = n
    BY <1>6
  <2>2. \A k \in 1 .. Len(s) : k < n /\ k <= n
    BY <1>6
  <2>3. QED
    BY <1>6, <1>7, <2>1, <2>2
<1>18. BeliefReflects(e, t)
  <2>1. BeliefReflects(r, s)
    BY DEF Reflects
  <2>2. CASE n \in D
    <3>1. n <= n
      BY <1>6
    <3>2. \A m \in D : m <= n
      BY <1>17, <3>1
    <3>3. QED
      BY <1>1, <1>6, <1>9, <1>14, <1>16, <2>2, <3>2 DEF BeliefReflects, D
  <2>3. CASE n \notin D
    <3>1. C = D
      BY <1>17, <2>3
    <3>2. QED
      BY <1>9, <1>14, <1>16, <1>17, <2>1, <2>3, <3>1 DEF BeliefReflects, C, D
  <2>4. QED
    BY <2>2, <2>3
<1>19. cfg.target \in {"yes", "no"} /\ cfg.kind \in {"appeared", "sustained"}
  BY DEF Usable
<1>20. ArmingReflects(e, t)
  <2> SUFFICES ASSUME Appeared(r)
               PROVE  e.armed <=> AbsenceSeen(t, cfg, opp)
    BY <1>9, <1>14 DEF ArmingReflects, Appeared
  <2>1. r.armed <=> AbsenceSeen(s, cfg, opp)
    BY DEF Reflects, ArmingReflects
  <2>2. /\ r.armed => r.confirmed # cfg.target
        /\ r.confirmed = opp => r.armed
    BY DEF RuntimeInv, ArmedSinceAbsence
  <2>3. opp # cfg.target
    BY <1>19 DEF OppositeOf
  <2>4. g.armed = r.armed /\ g.confirmed = r.confirmed /\ Appeared(g)
    BY <1>3 DEF Gathered, Appeared
  <2>5. CASE Confirming(t, n, cfg) /\ r.confirmed # o.value
    <3>1. e.armed <=> o.value = opp \/ (o.value # cfg.target /\ r.armed)
      BY <1>9, <1>10, <1>11, <1>12, <2>4, <2>5 DEF Promoted
    <3>2. QED
      BY <1>8, <2>1, <2>5, <3>1
  <2>6. CASE Confirming(t, n, cfg) /\ r.confirmed = o.value
    <3>1. e.armed = r.armed
      BY <1>10, <1>11, <1>12, <2>4, <2>6 DEF Promoted
    <3>2. QED
      BY <1>8, <2>1, <2>2, <2>3, <2>6, <3>1
  <2>7. CASE ~Confirming(t, n, cfg)
    BY <1>8, <1>10, <1>11, <2>1, <2>4, <2>7
  <2>8. QED
    BY <2>5, <2>6, <2>7
<1>21. Sustained(r) => /\ e.fired <=> r.fired /\ o.value = cfg.target
                       /\ e.run_open /\ o.value = cfg.target
                            => \/ n \in D /\ e.run_start = o.at
                               \/ r.run_open /\ e.run_start = r.run_start
                       /\ e.run_open => o.value = cfg.target
  <2> SUFFICES ASSUME Sustained(r)
               PROVE  /\ e.fired <=> r.fired /\ o.value = cfg.target
                      /\ e.run_open /\ o.value = cfg.target
                            => \/ n \in D /\ e.run_start = o.at
                               \/ r.run_open /\ e.run_start = r.run_start
                      /\ e.run_open => o.value = cfg.target
    OBVIOUS
  <2>1. /\ IF o.value # cfg.target
           THEN ~g.run_open /\ ~g.fired
           ELSE g.run_open = r.run_open /\ g.fired = r.fired /\ g.run_start = r.run_start
        /\ g.confirmed = r.confirmed /\ Sustained(g)
    BY <1>3 DEF Gathered, Sustained
  <2>2. r.fired => r.confirmed = cfg.target
    BY DEF RuntimeInv, LatchShape, OpenRunIsBacked
  <2>3. CASE n \in D /\ r.confirmed # o.value
    <3>1. /\ ~e.fired
          /\ e.run_open <=> o.value = cfg.target
          /\ e.run_open => e.run_start = o.at
      BY <1>7, <1>9, <1>10, <1>11, <1>12, <2>1, <2>3 DEF Promoted
    <3>2. QED
      BY <2>2, <2>3, <3>1
  <2>4. CASE ~(n \in D /\ r.confirmed # o.value)
    <3>1. e = g
      BY <1>7, <1>10, <1>11, <1>12, <2>1, <2>4 DEF Promoted
    <3>2. QED
      BY <2>1, <3>1
  <2>5. QED
    BY <2>3, <2>4
<1>22. RunReflects(e, t)
  <2> SUFFICES ASSUME e.run_open
               PROVE  \E k \in 1 .. n : HeldFrom(t, cfg, k) /\ e.run_start = t[k].at
    BY <1>9, <1>14 DEF RunReflects, n
  <2>1. Sustained(e) /\ Sustained(r)
    BY <1>9, <1>13, <1>14 DEF RuntimeInv, OpenRunIsBacked, Sustained
  <2>2. o.value = cfg.target
    BY <1>21, <2>1
  <2>3. CASE n \in D /\ e.run_start = o.at
    <3>1. n \in 1 .. n /\ n .. n = {n}
      BY <1>6
    <3>2. HeldFrom(t, cfg, n)
      BY <1>1, <1>6, <2>2, <2>3, <3>1 DEF HeldFrom, D, n
    <3>3. QED
      BY <1>1, <1>6, <2>3, <3>1, <3>2
  <2>4. CASE r.run_open /\ e.run_start = r.run_start
    <3>1. PICK k \in 1 .. Len(s) : HeldFrom(s, cfg, k) /\ r.run_start = s[k].at
      BY <2>4 DEF Reflects, RunReflects
    <3>2. k \in D /\ k \in 1 .. n
      BY <1>6, <1>7, <3>1 DEF HeldFrom, C
    <3>3. \A m \in k .. n : m = n \/ (m \in k .. Len(s) /\ m \in 1 .. Len(s))
      BY <1>6
    <3>4. \A m \in k .. n : t[m].value = cfg.target
      BY <1>1, <1>6, <2>2, <3>1, <3>3 DEF HeldFrom
    <3>5. HeldFrom(t, cfg, k)
      BY <3>2, <3>4 DEF HeldFrom, D, n
    <3>6. QED
      BY <1>6, <2>4, <3>1, <3>2, <3>5
  <2>5. QED
    BY <1>21, <2>1, <2>2, <2>3, <2>4
<1>23. e.pending <=> r.pending \/ (Appeared(r) /\ Arrival(t, cfg, opp))
  <2>1. g.pending = r.pending /\ g.armed = r.armed /\ g.confirmed = r.confirmed
    BY <1>3 DEF Gathered
  <2>2. CASE Appeared(r)
    <3>1. Appeared(g)
      BY <1>9, <2>2 DEF Appeared
    <3>2. r.armed <=> AbsenceSeen(s, cfg, opp)
      BY <2>2 DEF Reflects, ArmingReflects
    <3>3. r.armed => r.confirmed # cfg.target
      BY DEF RuntimeInv, ArmedSinceAbsence
    <3>4. CASE Confirming(t, n, cfg) /\ r.confirmed # o.value
      <4>1. e.pending <=> r.pending \/ (o.value = cfg.target /\ r.armed)
        BY <1>9, <1>10, <1>11, <1>12, <2>1, <3>1, <3>4 DEF Promoted
      <4>2. QED
        BY <1>8, <2>2, <3>2, <3>4, <4>1
    <3>5. CASE Confirming(t, n, cfg) /\ r.confirmed = o.value
      <4>1. e.pending = r.pending
        BY <1>10, <1>11, <1>12, <2>1, <3>5 DEF Promoted
      <4>2. QED
        BY <1>8, <3>2, <3>3, <3>5, <4>1
    <3>6. CASE ~Confirming(t, n, cfg)
      BY <1>8, <1>10, <1>11, <2>1, <3>6
    <3>7. QED
      BY <3>4, <3>5, <3>6
  <2>3. CASE Sustained(r)
    <3>1. Sustained(g) /\ ~Appeared(r)
      BY <1>9, <2>3 DEF Appeared, Sustained
    <3>2. e.pending = r.pending
      BY <1>11, <1>12, <2>1, <3>1 DEF Promoted
    <3>3. QED
      BY <3>1, <3>2
  <2>4. QED
    BY <1>19, <2>2, <2>3 DEF Appeared, Sustained
<1>24. Reflects(e, t)
  BY <1>5, <1>6, <1>15, <1>18, <1>20, <1>22 DEF Reflects
<1>25. QED
  BY <1>4, <1>9, <1>14, <1>21, <1>23, <1>24 DEF e, t, a

-----------------------------------------------------------------------------
(***************************************************************************)
(* A tick ends the history or leaves it alone.                             *)
(***************************************************************************)
LEMMA EmptyReflects ==
  ASSUME NEW d \in Runtime, RuntimeInv(d), Usable(d.cfg), d.candidate_count = 0
  PROVE  Reflects(d, <<>>)
<1>1. /\ <<>> \in Seq(Answer) /\ Len(<<>>) = 0 /\ DOMAIN <<>> = {}
      /\ Ordered(<<>>)
  BY DEF Ordered
<1>2. d.confirmed = "unknown" /\ ~d.run_open /\ ~d.armed
  BY DEF RuntimeInv, EvidenceBacksBelief
<1>3. ConfirmedAt(<<>>, d.cfg) = {}
  BY <1>1, Zenon DEF ConfirmedAt
<1>4. ~AbsenceSeen(<<>>, d.cfg, OppositeOf(d.cfg.target))
  BY <1>3 DEF AbsenceSeen
<1>5. QED
  BY <1>1, <1>2, <1>3, <1>4
  DEF Reflects, CountReflects, BeliefReflects, ArmingReflects, RunReflects

\* Losing sight on a tick forgets exactly the history that no longer counts.
LEMMA AgeReflects ==
  ASSUME NEW r \in Runtime, Usable(r.cfg), RuntimeInv(r), NEW now \in Int,
         NEW s, Reflects(r, s)
  PROVE  LET a     == Age(r, now)
             d     == Drain(a)
             blind == Expired(r, now) \/ s = <<>>
         IN  /\ Reflects(d, IF Expired(r, now) THEN <<>> ELSE s)
             /\ d.cfg = r.cfg /\ ~d.pending
             /\ blind <=> Blind(s, r.cfg, now)
             /\ blind \/ Appeared(r) => (a.pending <=> r.pending)
             /\ blind => ~(Sustained(r) /\ d.fired)
             /\ ~blind /\ Sustained(r) =>
                  /\ a.pending => HeldFor(s, r.cfg, now) /\ ~r.fired
                  /\ d.fired <=> r.fired \/ a.pending
<1> DEFINE a == Age(r, now)
           d == Drain(a)
           blind == Expired(r, now) \/ s = <<>>
<1>1. d \in Runtime /\ d.cfg = r.cfg /\ RuntimeInv(d)
  BY AgeInv
<1>2. /\ s = <<>> => r.candidate_count = 0
      /\ s # <<>> => r.has_obs /\ r.last_obs = s[Len(s)].at
  BY DEF Reflects, CountReflects
<1>3. r.candidate_count = 0 => ~r.run_open
  BY DEF RuntimeInv, EvidenceBacksBelief
<1>4. r.cfg.kind \in {"appeared", "sustained"}
  BY DEF Usable
<1>5. Sustained(r) => ~r.pending /\ (r.fired => r.run_open)
  BY DEF RuntimeInv, LatchShape, Sustained, Appeared
<1>6. CASE Expired(r, now)
  <2>1. a \in Runtime /\ Blinded(r, a)
    BY <1>6, LoseSightFields DEF Age
  <2> HIDE DEF a
  <2>2. /\ d.candidate_count = 0 /\ d.fired = a.fired /\ ~d.pending
    BY <2>1, DrainFields, RuntimeFields DEF Blinded
  <2>3. Reflects(d, <<>>)
    BY <1>1, <2>2, EmptyReflects
  <2>4. Blind(s, r.cfg, now)
    BY <1>2, <1>6 DEF Expired, Blind
  <2>5. a.pending = r.pending /\ (Sustained(r) => ~a.fired)
    BY <2>1 DEF Blinded
  <2> HIDE DEF d
  <2>6. QED
    BY <1>1, <1>6, <2>2, <2>3, <2>4, <2>5 DEF a, d
<1>7. CASE ~Expired(r, now)
  <2>1. a = IF Matured(r, now) THEN Latch(r) ELSE r
    BY <1>7 DEF Age
  <2>2. /\ a \in Runtime
        /\ a.cfg = r.cfg /\ a.has_obs = r.has_obs /\ a.last_obs = r.last_obs
        /\ a.candidate = r.candidate /\ a.candidate_count = r.candidate_count
        /\ a.candidate_first = r.candidate_first /\ a.confirmed = r.confirmed
        /\ a.armed = r.armed /\ a.run_open = r.run_open /\ a.run_start = r.run_start
        /\ a.pending <=> r.pending \/ Matured(r, now)
        /\ a.fired <=> r.fired \/ Matured(r, now)
    BY <2>1, LatchFields, RuntimeFields
  <2> HIDE DEF a
  <2>3. /\ d.cfg = a.cfg /\ d.has_obs = a.has_obs /\ d.last_obs = a.last_obs
        /\ d.candidate = a.candidate /\ d.candidate_count = a.candidate_count
        /\ d.candidate_first = a.candidate_first /\ d.confirmed = a.confirmed
        /\ d.armed = a.armed /\ d.run_open = a.run_open /\ d.run_start = a.run_start
        /\ d.fired = a.fired /\ ~d.pending
    BY <2>2, DrainFields, RuntimeFields
  <2> HIDE DEF d
  <2>4. Reflects(d, s)
    <3>1. CountReflects(d, s) /\ BeliefReflects(d, s)
      BY <2>2, <2>3 DEF Reflects, CountReflects, BeliefReflects
    <3>2. ArmingReflects(d, s) /\ RunReflects(d, s)
      BY <2>2, <2>3 DEF Reflects, ArmingReflects, RunReflects, Appeared
    <3>3. QED
      BY <3>1, <3>2 DEF Reflects
  <2>5. s = <<>> <=> Blind(s, r.cfg, now)
    BY <1>2, <1>7 DEF Expired, Blind
  <2>6. Matured(r, now) => Sustained(r) /\ s # <<>> /\ ~r.fired
    BY <1>2, <1>3 DEF Matured
  <2>7. Matured(r, now) => HeldFor(s, r.cfg, now)
    <3> SUFFICES ASSUME Matured(r, now) PROVE HeldFor(s, r.cfg, now)
      OBVIOUS
    <3>1. PICK k \in 1 .. Len(s) : HeldFrom(s, r.cfg, k) /\ r.run_start = s[k].at
      BY DEF Reflects, RunReflects, Matured
    <3>2. k \in DOMAIN s
      BY <3>1 DEF HeldFrom, ConfirmedAt
    <3>3. QED
      BY <3>1, <3>2 DEF HeldFor, Matured
  <2>8. s = <<>> => ~(Sustained(r) /\ d.fired)
    BY <1>2, <1>3, <1>5, <2>2, <2>3, <2>6
  <2>9. blind <=> Blind(s, r.cfg, now)
    BY <1>7, <2>5
  <2>10. blind \/ Appeared(r) => (a.pending <=> r.pending)
    BY <1>7, <2>2, <2>6 DEF Appeared, Sustained
  <2>11. Sustained(r) => /\ a.pending => HeldFor(s, r.cfg, now) /\ ~r.fired
                         /\ d.fired <=> r.fired \/ a.pending
    BY <1>5, <2>2, <2>3, <2>6, <2>7
  <2>12. QED
    BY <1>1, <1>7, <2>3, <2>4, <2>8, <2>9, <2>10, <2>11 DEF a, d
<1>8. QED
  BY <1>6, <1>7

-----------------------------------------------------------------------------
(***************************************************************************)
(* The summary is faithful in every reachable state.                       *)
(***************************************************************************)
HInv ==
  /\ IInv
  /\ history \in [Slot -> Seq(Answer)]
  /\ \A i \in Live : Reflects(rules[i], history[i])
  /\ \A i \in Slot \ Live : history[i] = <<>>

\* The summary is faithful before gw_init.
LEMMA HInitInv == HInit => HInv
<1> SUFFICES ASSUME HInit PROVE HInv
  OBVIOUS
<1>1. IInv
  BY InitInv DEF HInit
<1>2. Live = {}
  BY DEF HInit, Init, Live, Slot
<1>3. <<>> \in Seq(Answer)
  OBVIOUS
<1>4. QED
  BY <1>1, <1>2, <1>3 DEF HInv, HInit, Nothing

\* A call that leaves every rule and every history alone.
LEMMA RefuseHInv ==
  ASSUME HInv, NEW status \in Status, Refuse(status), UNCHANGED history
  PROVE  HInv'
<1>1. IInv'
  BY RefuseInv DEF HInv
<1>2. Live' = Live /\ rules' = rules
  BY DEF Refuse, watch, Live
<1>3. QED
  BY <1>1, <1>2 DEF HInv

\* gw_init keeps it faithful.
LEMMA HStartInv ==
  ASSUME HInv, NEW camera \in Cameras, HStart(camera)
  PROVE  HInv'
<1>1. IInv'
  BY StartInv, CamerasAssumption DEF HInv, HStart
<1>2. Live' = {}
  BY DEF HStart, Start, Live, Slot
<1>3. <<>> \in Seq(Answer)
  OBVIOUS
<1>4. history' = [i \in Slot |-> <<>>]
  BY DEF HStart, Nothing
<1>5. QED
  BY <1>1, <1>2, <1>3, <1>4 DEF HInv

\* gw_add_rule keeps it faithful.
LEMMA HAddRuleInv ==
  ASSUME HInv, NEW cfg \in Configs, HAddRule(cfg)
  PROVE  HInv'
<1>1. IInv' /\ history' = history
  BY AddRuleInv, ConfigsAssumption DEF HInv, HAddRule
<1>2. /\ rules \in [Slot -> Runtime] /\ rule_count \in 0 .. MaxRules
      /\ Live \subseteq Slot /\ rule_count \notin Live
  BY DEF HInv, IInv, TypeOK, Live
<1>3. CASE AddRuleOverLimit(cfg) \/ AddRuleUnusable(cfg)
  BY <1>1, <1>3, RefuseHInv DEF AddRuleOverLimit, AddRuleUnusable, Status
<1>4. CASE AddRuleBadId(cfg)
  <2>1. Live' = Live /\ \A i \in Live : rules'[i] = rules[i]
    BY <1>2, <1>4 DEF AddRuleBadId, WriteSlot, Live
  <2>2. QED
    BY <1>1, <2>1 DEF HInv
<1>5. CASE AddRuleAppend(cfg)
  <2>1. /\ rule_count \in Slot /\ Live' = Live \cup {rule_count}
        /\ rules' = [rules EXCEPT ![rule_count] = NewRuntime(cfg)]
    BY <1>2, <1>5, MaxRulesAssumption DEF AddRuleAppend, WriteSlot, Live, Slot
  <2>2. /\ rules'[rule_count] = NewRuntime(cfg)
        /\ \A i \in Live : rules'[i] = rules[i]
    BY <1>2, <2>1
  <2>3. /\ NewRuntime(cfg) \in Runtime /\ NewRuntime(cfg).cfg = cfg /\ Usable(cfg)
        /\ RuntimeInv(NewRuntime(cfg)) /\ NewRuntime(cfg).candidate_count = 0
    BY <1>5, ConfigsAssumption, NewRuntimeType, NewRuntimeInv
    DEF AddRuleAppend, NewRuntime
  <2>4. Reflects(NewRuntime(cfg), <<>>)
    BY <2>3, EmptyReflects
  <2>5. history[rule_count] = <<>>
    BY <1>2, <2>1 DEF HInv
  <2>6. QED
    BY <1>1, <2>1, <2>2, <2>4, <2>5 DEF HInv
<1>6. QED
  BY <1>3, <1>4, <1>5 DEF HAddRule, AddRule

\* What gw_observe does to the rule it accepts an answer for.
LEMMA ObserveFacts ==
  ASSUME HInv, NEW i \in 0 .. MaxRules, NEW o \in Observation,
         ObserveAccept(i, o), Remember(i, o)
  PROVE  /\ i \in Live /\ o \in Heard /\ ~Stale(rules[i], o)
         /\ rules[i] \in Runtime /\ Usable(rules[i].cfg) /\ RuntimeInv(rules[i])
         /\ history[i] \in Seq(Answer) /\ Reflects(rules[i], history[i])
         /\ rules'[i] = Accept(rules[i], o)
         /\ history'[i] = Append(history[i], AnswerOf(o))
         /\ \A j \in Slot \ {i} : rules'[j] = rules[j] /\ history'[j] = history[j]
         /\ Live' = Live /\ ret'.fired = {}
<1>1. i \in Live /\ i \in Slot /\ Live \subseteq Slot
  BY MaxRulesAssumption DEF ObserveAccept, Answerable, Live, Slot, HInv, IInv, TypeOK
<1>2. o \in Heard
  BY TimeAssumption, FramesAssumption DEF ObserveAccept, Answerable, Observation, Heard
<1>3. rules \in [Slot -> Runtime] /\ history \in [Slot -> Seq(Answer)]
  BY DEF HInv, IInv, TypeOK
<1>4. /\ rules' = [rules EXCEPT ![i] = Accept(rules[i], o)]
      /\ history' = [history EXCEPT ![i] = Append(history[i], AnswerOf(o))]
  BY DEF ObserveAccept, Remember, AnswerOf
<1>5. Live' = Live /\ ret'.fired = {} /\ ~Stale(rules[i], o)
  BY DEF ObserveAccept, Live, Return
<1>6. QED
  BY <1>1, <1>2, <1>3, <1>4, <1>5 DEF HInv, IInv, TypeOK, RuleInv

\* gw_observe keeps it faithful.
LEMMA HObserveInv ==
  ASSUME HInv, NEW i \in 0 .. MaxRules, NEW o \in Observation, HObserve(i, o)
  PROVE  HInv'
<1>1. CASE ObserveAccept(i, o) /\ Remember(i, o)
  <2>1. IInv'
    BY <1>1, ObservationType, ObserveInv DEF HInv, Observe
  <2>2. /\ i \in Live /\ Live' = Live /\ Live \subseteq Slot
        /\ rules'[i] = Accept(rules[i], o)
        /\ history'[i] = Append(history[i], AnswerOf(o))
        /\ \A j \in Slot \ {i} : rules'[j] = rules[j] /\ history'[j] = history[j]
    BY <1>1, ObserveFacts DEF Live
  <2>3. Reflects(rules'[i], history'[i])
    BY <1>1, <2>2, ObserveFacts, AcceptReflects
  <2>4. history' \in [Slot -> Seq(Answer)]
    <3>1. Append(history[i], AnswerOf(o)) \in Seq(Answer)
      BY <2>2, <2>3 DEF Reflects
    <3>2. QED
      BY <1>1, <3>1 DEF HInv, Remember, AnswerOf
  <2>5. QED
    BY <2>1, <2>2, <2>3, <2>4 DEF HInv
<1>2. CASE /\ ObserveInvalid(i, o) \/ ObserveDuplicate(i, o) \/ ObserveStale(i, o)
           /\ UNCHANGED history
  BY <1>2, RefuseHInv DEF ObserveInvalid, ObserveDuplicate, ObserveStale, Status
<1>3. QED
  BY <1>1, <1>2 DEF HObserve

\* What gw_tick does to a live rule.
LEMMA TickFacts ==
  ASSUME HInv, NEW now \in Time, NEW cap \in Caps, TickForward(now, cap),
         history' = [i \in Slot |-> IF i \in Live /\ Expired(rules[i], now)
                                    THEN <<>> ELSE history[i]]
  PROVE  /\ now \in Int /\ Live' = Live /\ Live \subseteq Slot
         /\ \A i \in Live :
              /\ rules[i] \in Runtime /\ Usable(rules[i].cfg) /\ RuntimeInv(rules[i])
              /\ Reflects(rules[i], history[i])
              /\ rules'[i] = Drain(Age(rules[i], now))
              /\ history'[i] = IF Expired(rules[i], now) THEN <<>> ELSE history[i]
         /\ \A i \in Slot \ Live : rules'[i] = rules[i] /\ history'[i] = history[i]
BY TimeAssumption DEF TickForward, Live, HInv, IInv, TypeOK, RuleInv

\* gw_tick keeps it faithful.
LEMMA HTickInv ==
  ASSUME HInv, NEW now \in Time, NEW cap \in Caps, HTick(now, cap)
  PROVE  HInv'
<1>1. CASE TickBackwards(now, cap) /\ UNCHANGED history
  BY <1>1, RefuseHInv DEF TickBackwards, Status
<1>2. CASE /\ TickForward(now, cap)
           /\ history' = [i \in Slot |-> IF i \in Live /\ Expired(rules[i], now)
                                         THEN <<>> ELSE history[i]]
  <2>1. IInv'
    BY <1>2, TickInv, TimeAssumption, CapsAssumption DEF HInv, Tick
  <2>2. /\ Live' = Live
        /\ \A i \in Live : Reflects(rules'[i], history'[i])
        /\ \A i \in Slot \ Live : history'[i] = history[i]
    <3>1. /\ now \in Int /\ Live' = Live
          /\ \A i \in Slot \ Live : history'[i] = history[i]
      BY <1>2, TickFacts
    <3>2. ASSUME NEW i \in Live PROVE Reflects(rules'[i], history'[i])
      <4>1. /\ rules[i] \in Runtime /\ Usable(rules[i].cfg) /\ RuntimeInv(rules[i])
            /\ Reflects(rules[i], history[i])
            /\ rules'[i] = Drain(Age(rules[i], now))
            /\ history'[i] = IF Expired(rules[i], now) THEN <<>> ELSE history[i]
        BY <1>2, TickFacts
      <4>2. QED
        BY <3>1, <4>1, AgeReflects
    <3>3. QED
      BY <3>1, <3>2
  <2>3. history' \in [Slot -> Seq(Answer)]
    <3>1. <<>> \in Seq(Answer)
      OBVIOUS
    <3>2. QED
      BY <1>2, <3>1 DEF HInv
  <2>4. QED
    BY <2>1, <2>2, <2>3 DEF HInv
<1>3. QED
  BY <1>1, <1>2 DEF HTick

\* Every call keeps it faithful.
LEMMA HStepInv == HInv /\ [HNext]_hvars => HInv'
<1> SUFFICES ASSUME HInv, [HNext]_hvars PROVE HInv'
  OBVIOUS
<1>1. ASSUME NEW i \in 0 .. MaxRules, NEW now \in Time, HGetState(i, now) PROVE HInv'
  BY <1>1, RefuseHInv DEF HGetState, GetState, Status
<1>2. CASE UNCHANGED hvars
  <2>1. IInv'
    BY <1>2, StepInv DEF hvars, vars, HInv
  <2>2. Live' = Live
    BY <1>2 DEF hvars, Live
  <2>3. QED
    BY <1>2, <2>1, <2>2 DEF hvars, HInv
<1>3. QED
  BY <1>1, <1>2, HStartInv, HAddRuleInv, HObserveInv, HTickInv DEF HNext

\* gw_state.c: after every sequence of calls the few numbers a rule keeps are those
\* that the whole history of its answers would give.
THEOREM HistoryInvariance == HSpec => []HInv
BY HInitInv, HStepInv, PTL DEF HSpec

\* There is one first of the newest agreeing answers.
LEMMA AgreeingFromIs ==
  ASSUME NEW s \in Seq(Answer), NEW j, FirstAgreeing(s, j)
  PROVE  AgreeingFrom(s) = j
<1> DEFINE n == Len(s)
<1>1. ASSUME NEW k, NEW l, FirstAgreeing(s, k), FirstAgreeing(s, l) PROVE ~(k < l)
  <2> SUFFICES ASSUME k < l PROVE FALSE
    OBVIOUS
  <2>1. /\ k \in 1 .. n /\ l \in 1 .. n /\ n \in Nat
        /\ Agreeing(s, k, n)
        /\ l = 1 \/ ~Agreeing(s, l - 1, n)
    BY <1>1 DEF FirstAgreeing
  <2>2. l # 1 /\ (l - 1) .. n \subseteq k .. n
    BY <2>1
  <2>3. Agreeing(s, l - 1, n)
    BY <2>1, <2>2 DEF Agreeing
  <2>4. QED
    BY <2>1, <2>2, <2>3
<1>2. ASSUME NEW k, FirstAgreeing(s, k) PROVE k = j
  <2>1. ~(k < j) /\ ~(j < k)
    BY <1>1, <1>2
  <2>2. k \in 1 .. n /\ j \in 1 .. n
    BY <1>2 DEF FirstAgreeing
  <2>3. QED
    BY <2>1, <2>2
<1>3. AgreeingFrom(s) = CHOOSE k \in 1 .. n : FirstAgreeing(s, k)
  <2>1. \A k \in 1 .. n : FirstAgreeing(s, k) <=>
          Agreeing(s, k, n) /\ (k = 1 \/ ~Agreeing(s, k - 1, n))
    BY DEF FirstAgreeing
  <2>2. QED
    BY <2>1, Zenon DEF AgreeingFrom
<1>4. j \in 1 .. n
  BY DEF FirstAgreeing
<1>5. QED
  BY <1>2, <1>3, <1>4

\* In every reachable state a rule's belief, its count and since when it counts
\* are what its whole history shows.
THEOREM FaithfulSummary == HSpec => []SummaryIsFaithful
<1>1. ASSUME HInv PROVE SummaryIsFaithful
  <2> SUFFICES ASSUME NEW i \in Live
               PROVE  LET s == history[i]
                          r == rules[i]
                      IN  /\ \A v \in {"no", "yes"} :
                               r.confirmed = v <=> Believes(s, r.cfg, v)
                          /\ s # <<>> =>
                               /\ r.last_obs = s[Len(s)].at
                               /\ r.candidate = s[Len(s)].value
                               /\ r.candidate_first = s[AgreeingFrom(s)].at
                               /\ LET agreeing == Len(s) - AgreeingFrom(s) + 1
                                  IN  r.candidate_count =
                                        IF agreeing < CountMax THEN agreeing ELSE CountMax
                          /\ s = <<>> => r.candidate_count = 0
    BY DEF SummaryIsFaithful
  <2> DEFINE s == history[i]
             r == rules[i]
             C == ConfirmedAt(s, r.cfg)
  <2>1. s \in Seq(Answer) /\ CountReflects(r, s) /\ BeliefReflects(r, s)
    BY <1>1 DEF HInv, Reflects
  <2> HIDE DEF s, r
  <2>2. C \subseteq Int
    BY <2>1 DEF ConfirmedAt
  <2>3. ASSUME NEW v \in {"no", "yes"} PROVE r.confirmed = v <=> Believes(s, r.cfg, v)
    <3>1. Believes(s, r.cfg, v) <=> \E k \in C : s[k].value = v /\ \A m \in C : m <= k
      BY DEF Believes
    <3> HIDE DEF C
    <3>2. CASE C = {} /\ r.confirmed = "unknown"
      BY <3>1, <3>2
    <3>3. ASSUME NEW k \in C, r.confirmed = s[k].value, \A m \in C : m <= k
          PROVE  r.confirmed = v <=> Believes(s, r.cfg, v)
      <4>1. ASSUME NEW l \in C, \A m \in C : m <= l PROVE l = k
        BY <2>2, <3>3, <4>1
      <4>2. QED
        BY <3>1, <3>3, <4>1
    <3>4. QED
      BY <2>1, <3>2, <3>3 DEF BeliefReflects, C
  <2>4. s # <<>> =>
          /\ r.last_obs = s[Len(s)].at
          /\ r.candidate = s[Len(s)].value
          /\ r.candidate_first = s[AgreeingFrom(s)].at
          /\ r.candidate_count = Counted(Len(s) - AgreeingFrom(s) + 1)
    BY <2>1, AgreeingFromIs DEF CountReflects
  <2>5. s = <<>> => r.candidate_count = 0
    BY <2>1 DEF CountReflects
  <2>6. QED
    BY <2>3, <2>4, <2>5 DEF Counted, s, r
<1>2. QED
  BY <1>1, HistoryInvariance, PTL

-----------------------------------------------------------------------------
(***************************************************************************)
(* Every rule keeps its promise, when the caller has room for every rule.  *)
(***************************************************************************)
\* GwPromise's GwEvidence is this one.
LEMMA SameEvidence ==
  ASSUME NEW i, NEW s, NEW cfg, NEW x
  PROVE  /\ Promise(i)!Blind(s, cfg, x) <=> Blind(s, cfg, x)
         /\ Promise(i)!HeldFor(s, cfg, x) <=> HeldFor(s, cfg, x)
         /\ Promise(i)!Arrival(s, cfg, x) <=> Arrival(s, cfg, x)
<1>1. Promise(i)!Blind(s, cfg, x) <=> Blind(s, cfg, x)
  BY DEF Promise!Blind, Blind
<1>2. \A u : Promise(i)!ConfirmedAt(u, cfg) = ConfirmedAt(u, cfg)
  BY DEF Promise!ConfirmedAt, Promise!Confirming, Promise!Agreeing,
         ConfirmedAt, Confirming, Agreeing
<1>3. Promise(i)!HeldFor(s, cfg, x) <=> HeldFor(s, cfg, x)
  BY <1>2 DEF Promise!HeldFor, Promise!HeldFrom, HeldFor, HeldFrom
<1>4. \A u : Promise(i)!AbsenceSeen(u, cfg, x) <=> AbsenceSeen(u, cfg, x)
  BY <1>2 DEF Promise!AbsenceSeen, AbsenceSeen
<1>5. Promise(i)!Arrival(s, cfg, x) <=> Arrival(s, cfg, x)
  BY <1>2, <1>4 DEF Promise!Arrival, Arrival
<1>6. QED
  BY <1>1, <1>3, <1>5

\* A step that leaves rule i alone and announces nothing of it.
LEMMA QuietStep ==
  ASSUME NEW i \in Slot, rules'[i] = rules[i], history'[i] = history[i],
         i \notin ret'.fired
  PROVE  Promise(i)!Next
BY DEF Promise!Next, Promise!Quiet

\* A slot written anew has inherited nothing.
LEMMA ForgetStep ==
  ASSUME NEW i \in Slot, NEW cfg \in Config, rules'[i] = NewRuntime(cfg),
         history'[i] = <<>>, i \notin ret'.fired
  PROVE  Promise(i)!Next
<1>1. rules'[i].cfg = cfg /\ ~rules'[i].pending /\ ~rules'[i].fired
  BY DEF NewRuntime
<1>2. rules'[i].pending = FALSE
  BY DEF NewRuntime
<1>3. QED
  BY <1>1, <1>2 DEF Promise!Next, Promise!Forget

\* A refused call changes nothing that was promised.
LEMMA RefuseStep ==
  ASSUME NEW status, Refuse(status), UNCHANGED history
  PROVE  \A i \in Slot : Promise(i)!Next
<1>1. \A i \in Slot : rules'[i] = rules[i] /\ history'[i] = history[i] /\ i \notin ret'.fired
  BY DEF Refuse, Return, watch
<1>2. QED
  BY <1>1, QuietStep

\* gw_init is a step of every rule's promise.
LEMMA StartKeeps ==
  ASSUME NEW camera \in Cameras, HStart(camera)
  PROVE  \A i \in Slot : Promise(i)!Next
<1>1. \A i \in Slot : /\ rules'[i] = NewRuntime(ZeroConfig)
                      /\ history'[i] = <<>>
                      /\ i \notin ret'.fired
  BY DEF HStart, Start, Return, Nothing
<1>2. QED
  BY <1>1, ForgetStep, ZeroConfigType

\* So is gw_add_rule.
LEMMA AddRuleKeeps ==
  ASSUME HInv, NEW cfg \in Configs, HAddRule(cfg)
  PROVE  \A i \in Slot : Promise(i)!Next
<1>1. CASE AddRuleOverLimit(cfg) \/ AddRuleUnusable(cfg)
  BY <1>1, RefuseStep DEF HAddRule, AddRuleOverLimit, AddRuleUnusable
<1>2. CASE AddRuleBadId(cfg) \/ AddRuleAppend(cfg)
  <2>1. /\ rules \in [Slot -> Runtime] /\ cfg \in Config
        /\ rule_count \in Slot \ Live
    BY <1>2, ConfigsAssumption, MaxRulesAssumption
    DEF HInv, IInv, TypeOK, Live, Slot, AddRuleBadId, AddRuleAppend
  <2>2. /\ rules' = [rules EXCEPT ![rule_count] = NewRuntime(cfg)]
        /\ history' = history /\ ret'.fired = {}
    BY <1>2 DEF HAddRule, AddRuleBadId, AddRuleAppend, WriteSlot, Return
  <2>3. /\ rules'[rule_count] = NewRuntime(cfg) /\ history'[rule_count] = <<>>
        /\ \A i \in Slot \ {rule_count} : rules'[i] = rules[i]
    BY <2>1, <2>2 DEF HInv
  <2>4. QED
    BY <2>1, <2>2, <2>3, QuietStep, ForgetStep
<1>3. QED
  BY <1>1, <1>2 DEF HAddRule, AddRule

\* So is gw_observe: a step of the rule it is for, none of the others'.
LEMMA ObserveKeeps ==
  ASSUME HInv, NEW i \in 0 .. MaxRules, NEW o \in Observation, HObserve(i, o)
  PROVE  \A j \in Slot : Promise(j)!Next
<1>1. CASE ObserveAccept(i, o) /\ Remember(i, o)
  <2> DEFINE r == rules[i]
             e == rules'[i]
             s == history[i]
             t == history'[i]
  <2>1. /\ i \in Slot /\ o \in Heard /\ r \in Runtime /\ s \in Seq(Answer)
        /\ e = Accept(r, o) /\ t = Append(s, AnswerOf(o))
        /\ ret'.fired = {}
        /\ \A j \in Slot \ {i} : rules'[j] = rules[j] /\ history'[j] = history[j]
    BY <1>1, ObserveFacts DEF Live
  <2>2. /\ e.cfg = r.cfg
        /\ s # <<>> => o.at >= s[Len(s)].at
        /\ e.pending <=>
             \/ r.pending
             \/ Appeared(r) /\ Arrival(t, r.cfg, OppositeOf(r.cfg.target))
        /\ Sustained(r) => (e.fired <=> r.fired /\ o.value = r.cfg.target)
    BY <1>1, <2>1, ObserveFacts, AcceptReflects
  <2>3. e \in Runtime
    BY <1>1, <2>1, ObserveFacts, AcceptInv
  <2>4. e.pending \in BOOLEAN /\ r.pending \in BOOLEAN
    BY <2>1, <2>3 DEF Runtime
  <2>5. o.at \in Time /\ o.value \in Value
    BY <2>1 DEF Observation, Heard
  <2>6. Promise(i)!Hear
    <3>1. /\ s # <<>> => o.at >= s[Len(s)].at
          /\ t = Append(s, [at |-> o.at, value |-> o.value])
          /\ (Sustained(e) /\ e.fired) = ((Sustained(r) /\ r.fired) /\ o.value = r.cfg.target)
      BY <2>1, <2>2 DEF Sustained, AnswerOf
    <3>2. e.pending = (r.pending \/ (r.cfg.kind = "appeared"
                                       /\ Arrival(t, r.cfg, OppositeOf(r.cfg.target))))
      BY <2>2, <2>4 DEF Appeared
    <3>3. (i \in ret'.fired) = FALSE
      BY <2>1
    <3>4. QED
      BY <2>2, <2>5, <3>1, <3>2, <3>3, SameEvidence DEF Promise!Hear, Promise!Appearance
  <2>7. ASSUME NEW j \in Slot, j # i PROVE Promise(j)!Next
    BY <2>1, <2>7, QuietStep
  <2>8. QED
    BY <2>6, <2>7 DEF Promise!Next
<1>2. CASE /\ ObserveInvalid(i, o) \/ ObserveDuplicate(i, o) \/ ObserveStale(i, o)
           /\ UNCHANGED history
  BY <1>2, RefuseStep DEF ObserveInvalid, ObserveDuplicate, ObserveStale
<1>3. QED
  BY <1>1, <1>2 DEF HObserve

\* With room for every rule, every due rule is written.
LEMMA AllWritten ==
  ASSUME NEW due \in SUBSET Slot, NEW cap \in Nat, cap >= MaxRules
  PROVE  Written(due, cap) = due
<1>1. IsFiniteSet(Slot) /\ Cardinality(Slot) = MaxRules
  <2>1. /\ IsFiniteSet(0 .. MaxRules - 1)
        /\ Cardinality(0 .. MaxRules - 1) =
             IF 0 > MaxRules - 1 THEN 0 ELSE MaxRules - 1 - 0 + 1
    BY MaxRulesAssumption, FS_Interval
  <2>2. QED
    BY <2>1, MaxRulesAssumption DEF Slot
<1>2. Cardinality(due) <= MaxRules /\ Cardinality(due) \in Nat
  BY <1>1, FS_Subset, SlotFinite
<1>3. ASSUME NEW i \in due, i \notin Written(due, cap) PROVE FALSE
  <2>1. Cardinality(due) > cap
    BY <1>3, UnwrittenIsLimit
  <2>2. QED
    BY <1>2, <2>1, MaxRulesAssumption
<1>4. Written(due, cap) \subseteq due
  BY DEF Written
<1>5. QED
  BY <1>3, <1>4

\* So is gw_tick with room for every rule's event.
LEMMA TickKeeps ==
  ASSUME HInv, NEW now \in Time, NEW cap \in Caps, cap >= MaxRules, HTick(now, cap)
  PROVE  \A i \in Slot : Promise(i)!Next
<1>1. CASE TickBackwards(now, cap) /\ UNCHANGED history
  BY <1>1, RefuseStep DEF TickBackwards
<1>2. CASE /\ TickForward(now, cap)
           /\ history' = [i \in Slot |-> IF i \in Live /\ Expired(rules[i], now)
                                         THEN <<>> ELSE history[i]]
  <2>1. /\ now \in Int /\ Live \subseteq Slot
        /\ \A i \in Slot \ Live : rules'[i] = rules[i] /\ history'[i] = history[i]
    BY <1>2, TickFacts
  <2>2. ret'.fired = Due(now)
    <3>1. Due(now) \in SUBSET Slot /\ cap \in Nat
      BY <2>1, CapsAssumption DEF Due
    <3>2. QED
      BY <1>2, <3>1, AllWritten DEF TickForward
  <2>3. ASSUME NEW i \in Slot \ Live PROVE Promise(i)!Next
    BY <2>1, <2>2, QuietStep DEF Due
  <2>4. ASSUME NEW i \in Live PROVE Promise(i)!Next
    <3> DEFINE r == rules[i]
               a == Age(r, now)
               d == rules'[i]
               s == history[i]
               t == history'[i]
    <3>1. /\ i \in Slot
          /\ r \in Runtime /\ Usable(r.cfg) /\ RuntimeInv(r) /\ Reflects(r, s)
          /\ d = Drain(a)
          /\ t = IF Expired(r, now) THEN <<>> ELSE s
      BY <1>2, <2>1, TickFacts
    <3>2. /\ d.cfg = r.cfg /\ ~d.pending
          /\ Expired(r, now) \/ s = <<>> <=> Blind(s, r.cfg, now)
          /\ Blind(s, r.cfg, now) \/ Appeared(r) => (a.pending <=> r.pending)
          /\ Blind(s, r.cfg, now) => ~(Sustained(r) /\ d.fired)
          /\ ~Blind(s, r.cfg, now) /\ Sustained(r) =>
               /\ a.pending => HeldFor(s, r.cfg, now) /\ ~r.fired
               /\ d.fired <=> r.fired \/ a.pending
      BY <2>1, <3>1, AgeReflects
    <3>3. i \in ret'.fired <=> a.pending
      BY <2>2 DEF Due
    <3>4. /\ r.pending \in BOOLEAN /\ d.pending \in BOOLEAN
          /\ r.cfg.kind \in {"appeared", "sustained"}
      <4>1. d \in Runtime
        BY <2>1, <3>1, AgeInv
      <4>2. QED
        BY <3>1, <4>1 DEF Runtime, Usable
    <3>5. d.pending = FALSE
      BY <3>2, <3>4
    <3> HIDE DEF a
    <3>6. CASE Blind(s, r.cfg, now)
      <4>1. (i \in ret'.fired) = r.pending
        BY <3>2, <3>3, <3>4, <3>6
      <4>2. t = <<>>
        BY <3>1, <3>2, <3>6
      <4>3. (Sustained(d) /\ d.fired) = FALSE
        BY <3>2, <3>6 DEF Sustained
      <4>4. Promise(i)!ReportBlind
        BY <3>2, <3>5, <3>6, <4>1, <4>2, <4>3, SameEvidence DEF Promise!ReportBlind
      <4>5. QED
        BY <4>4 DEF Promise!Next
    <3>7. CASE ~Blind(s, r.cfg, now)
      <4>1. t = s
        BY <3>1, <3>2, <3>7
      <4>2. CASE Appeared(r)
        <5>1. (i \in ret'.fired) = r.pending
          BY <3>2, <3>3, <3>4, <4>2
        <5>2. /\ r.cfg.kind = "appeared"
              /\ (Sustained(d) /\ d.fired) = FALSE /\ (Sustained(r) /\ r.fired) = FALSE
          BY <3>2, <4>2 DEF Sustained, Appeared
        <5>3. Promise(i)!ReportSighted
          BY <3>2, <3>5, <3>7, <4>1, <5>1, <5>2, SameEvidence
          DEF Promise!ReportSighted, Promise!Appearance
        <5>4. QED
          BY <5>3 DEF Promise!Next
      <4>3. CASE Sustained(r)
        <5>1. r.cfg.kind # "appeared" /\ Sustained(d)
          BY <3>2, <4>3 DEF Sustained
        <5>2. (i \in ret'.fired) \in {FALSE, HeldFor(s, r.cfg, now) /\ ~(Sustained(r) /\ r.fired)}
          <6>1. CASE i \in ret'.fired
            BY <3>2, <3>3, <3>7, <4>3, <6>1
          <6>2. CASE i \notin ret'.fired
            <7>1. (i \in ret'.fired) = FALSE
              BY <6>2
            <7>2. QED
              BY <7>1, Zenon
          <6>3. QED
            BY <6>1, <6>2
        <5>3. (Sustained(d) /\ d.fired) = ((Sustained(r) /\ r.fired) \/ i \in ret'.fired)
          BY <3>2, <3>3, <3>7, <4>3, <5>1
        <5>4. Promise(i)!ReportSighted
          BY <3>2, <3>5, <3>7, <4>1, <5>1, <5>2, <5>3, SameEvidence
          DEF Promise!ReportSighted, Promise!Appearance
        <5>5. QED
          BY <5>4 DEF Promise!Next
      <4>4. QED
        BY <3>4, <4>2, <4>3 DEF Appeared, Sustained
    <3>8. QED
      BY <3>6, <3>7
  <2>5. QED
    BY <2>3, <2>4
<1>3. QED
  BY <1>1, <1>2 DEF HTick

\* GwWatch implements GwPromise, rule by rule: when out_fired has room for every
\* rule, each rule announces exactly what its evidence supports.
THEOREM PromiseKept ==
  ASSUME \A cap \in Caps : cap >= MaxRules
  PROVE  HSpec => KeepsPromise
<1>1. ASSUME HInit PROVE \A i \in Slot : Promise(i)!Init
  <2>1. ASSUME NEW i \in Slot PROVE Promise(i)!Init
    <3>1. rules[i] = NewRuntime(ZeroConfig) /\ history[i] = <<>> /\ i \notin ret.fired
      BY <1>1 DEF HInit, Init, Nothing
    <3>2. rules[i].cfg = ZeroConfig /\ rules[i].pending = FALSE /\ ~Sustained(rules[i])
      BY <3>1 DEF NewRuntime, Sustained, ZeroConfig
    <3>3. QED
      BY <3>1, <3>2, ZeroConfigType DEF Promise!Init
  <2>2. QED
    BY <2>1
<1>2. ASSUME HInv, [HNext]_hvars
      PROVE  [ \A i \in Slot : [Promise(i)!Next]_(Promise(i)!vars) ]_hvars
  <2> SUFFICES ASSUME HNext PROVE \A i \in Slot : Promise(i)!Next
    BY <1>2
  <2>1. ASSUME NEW i \in 0 .. MaxRules, NEW now \in Time, HGetState(i, now)
        PROVE  \A j \in Slot : Promise(j)!Next
    BY <2>1, RefuseStep DEF HGetState, GetState
  <2>2. ASSUME NEW now \in Time, NEW cap \in Caps, HTick(now, cap)
        PROVE  \A i \in Slot : Promise(i)!Next
    BY <1>2, <2>2, TickKeeps
  <2>3. QED
    BY <1>2, <2>1, <2>2, StartKeeps, AddRuleKeeps, ObserveKeeps DEF HNext
<1>3. QED
  BY <1>1, <1>2, HistoryInvariance, PTL DEF HSpec, KeepsPromise
=============================================================================
