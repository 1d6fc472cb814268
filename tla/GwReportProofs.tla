--------------------------- MODULE GwReportProofs ---------------------------
(***************************************************************************)
(* What the release gate guarantees for any criteria, any report and any   *)
(* sizes of its tables: it opens only on evidence, and it answers every    *)
(* criterion.                                                              *)
(*                                                                         *)
(* While no line has been refused, the two tables say what the two texts   *)
(* say: the k-th item is the k-th line that requires something, and every  *)
(* metric line has its one entry.  The loop of gw_report_grade has given a *)
(* verdict on each criterion before i, and counted those that are no pass. *)
(***************************************************************************)
EXTENDS GwReport, FiniteSetTheorems, TLAPS

CriterionOf(l) == [key |-> l.key, cmp |-> l.cmp, limit |-> l.limit]
MetricOf(l)    == [key |-> l.key, value |-> l.value]

Criteria == {CriterionOf(l) : l \in CriteriaLines}
Measured == {MetricOf(l) : l \in ReportLines}

TablesOK ==
  /\ ctext \in Seq(CriteriaLines) /\ rtext \in Seq(ReportLines)
  /\ items \in Seq(Criteria) /\ Len(items) <= MaxCriteria
  /\ metrics \in Seq(Measured)
  /\ grades \in [1 .. MaxCriteria -> {"PASS", "FAIL", "NOT_MEASURED"}]
  /\ i \in Nat /\ 1 <= i /\ i <= Len(items) + 1

\* No line of either text has been refused.
Accepting == step # "done" \/ i > 1

\* A criterion or a metric is the one its line gives.
Asks(item, l)    == item.key = l.key /\ item.cmp = l.cmp /\ item.limit = l.limit
Reports(entry, l) == l.kw = "metric" /\ entry.key = l.key /\ entry.value = l.value

\* The items are the requirements of the text, in their order.
ItemsAreRequired ==
  /\ Len(items) = Cardinality(Required)
  /\ \A n \in Required : Rank[n] \in 1 .. Len(items) /\ Asks(items[Rank[n]], ctext[n])
  /\ \A k \in 1 .. Len(items) : \E n \in Required : Rank[n] = k
  /\ \A m, n \in Required : Rank[m] = Rank[n] => m = n

\* The metrics and the provenance are those of the text, each metric once.
MetricsAreReported ==
  /\ \A n \in DOMAIN rtext :
       rtext[n].kw = "metric" => \E k \in DOMAIN metrics : Reports(metrics[k], rtext[n])
  /\ \A k \in DOMAIN metrics : \E n \in DOMAIN rtext : Reports(metrics[k], rtext[n])
  /\ \A j, k \in DOMAIN metrics : metrics[j].key = metrics[k].key => j = k
  /\ \A f \in provenance :
       \E n \in DOMAIN rtext : rtext[n].kw = "provenance" /\ rtext[n].field = f

Unmet == {k \in 1 .. i - 1 : grades[k] # "PASS"}

GradesSoFar ==
  /\ \A k \in 1 .. i - 1 : grades[k] = Verdict(items[k])
  /\ failed = Cardinality(Unmet)

\* Which step comes with what.
StepsInOrder ==
  /\ step \notin {"grade", "done"} => i = 1
  /\ step \in {"report", "identify", "grade"} => items # <<>>
  /\ step = "grade" \/ i > 1 => provenance = Field
  /\ exit = 0 => i > 1 /\ i > Len(items) /\ failed = 0

ReportInv ==
  /\ TablesOK /\ GradesSoFar /\ StepsInOrder
  /\ Accepting => ItemsAreRequired /\ MetricsAreReported

-----------------------------------------------------------------------------
\* What appending does to a sequence, stated once.
LEMMA Appended ==
  ASSUME NEW S, NEW s \in Seq(S), NEW x \in S
  PROVE  /\ Append(s, x) \in Seq(S)
         /\ Len(Append(s, x)) = Len(s) + 1
         /\ DOMAIN Append(s, x) = 1 .. Len(s) + 1
         /\ \A k \in 1 .. Len(s) : Append(s, x)[k] = s[k]
         /\ Append(s, x)[Len(s) + 1] = x
         /\ DOMAIN s = 1 .. Len(s) /\ Len(s) \in Nat
OBVIOUS

\* The required criteria of a text are finitely many.
LEMMA RequiredFinite ==
  ASSUME ctext \in Seq(CriteriaLines)
  PROVE  /\ Required \subseteq 1 .. Len(ctext)
         /\ IsFiniteSet(Required) /\ Cardinality(Required) \in Nat
<1>1. Required \in SUBSET (1 .. Len(ctext))
  BY DEF Required
<1>2. IsFiniteSet(1 .. Len(ctext))
  BY FS_Interval
<1>. QED  BY <1>1, <1>2, FS_Subset, FS_CardinalityType

\* A line more is one requirement more or none, and those before keep their
\* places.
LEMMA RequiredAppend ==
  ASSUME ctext \in Seq(CriteriaLines), NEW l \in CriteriaLines, ctext' = Append(ctext, l)
  PROVE  LET new == Len(ctext) + 1 IN
         /\ Required' = IF l.kw = "require" THEN Required \cup {new} ELSE Required
         /\ new \notin Required
         /\ \A n \in Required' :
              /\ Rank'[n] = IF n = new THEN Cardinality(Required) + 1 ELSE Rank[n]
              /\ ctext'[n] = IF n = new THEN l ELSE ctext[n]
<1>. DEFINE new == Len(ctext) + 1
<1>1. /\ DOMAIN ctext' = 1 .. new /\ DOMAIN ctext = 1 .. Len(ctext) /\ Len(ctext) \in Nat
      /\ \A n \in 1 .. Len(ctext) : ctext'[n] = ctext[n]
      /\ ctext'[new] = l
  BY Appended
<1>2. Required' = IF l.kw = "require" THEN Required \cup {new} ELSE Required
  BY <1>1 DEF Required
<1>3. new \notin Required /\ \A n \in Required : n \in 1 .. Len(ctext)
  BY <1>1 DEF Required
<1>4. ASSUME NEW n \in Required PROVE n \in Required' /\ Rank'[n] = Rank[n]
  <2>1. {m \in Required' : m <= n} = {m \in Required : m <= n}
    BY <1>1, <1>2, <1>3
  <2>2. n \in Required'
    BY <1>2
  <2>. QED  BY <2>1, <2>2 DEF Rank
<1>5. ASSUME l.kw = "require", NEW n \in Required', n = new
      PROVE  Rank'[n] = Cardinality(Required) + 1
  <2>1. Required' = Required \cup {new} /\ \A m \in Required' : m <= n
    BY <1>1, <1>2, <1>3, <1>5
  <2>2. Cardinality(Required \cup {new}) = Cardinality(Required) + 1
    BY <1>3, RequiredFinite, FS_AddElement
  <2>. QED  BY <2>1, <2>2 DEF Rank
<1>6. \A n \in Required' : n = new \/ n \in Required
  BY <1>2
<1>7. new \in Required' => l.kw = "require"
  BY <1>2, <1>3
<1>. QED  BY <1>1, <1>2, <1>3, <1>4, <1>5, <1>6, <1>7

\* Only the values of the texts and tables count.
LEMMA SameTexts ==
  ASSUME UNCHANGED <<ctext, items>>, ItemsAreRequired
  PROVE  ItemsAreRequired'
<1>1. Required' = Required
  BY DEF Required
<1>2. Rank' = Rank
  BY <1>1 DEF Rank
<1>. QED  BY <1>1, <1>2 DEF ItemsAreRequired

\* Metrics stay what the report says while neither changes.
LEMMA SameMetrics ==
  ASSUME UNCHANGED <<rtext, metrics, provenance>>, MetricsAreReported
  PROVE  MetricsAreReported'
BY DEF MetricsAreReported

\* Grades stay right while nothing they are made from changes.
LEMMA SameGrades ==
  ASSUME UNCHANGED <<items, metrics, grades, i, failed>>, GradesSoFar
  PROVE  GradesSoFar'
<1>1. \A item : Verdict(item)' = Verdict(item)
  BY DEF Verdict, Found
<1>2. Unmet' = Unmet
  BY DEF Unmet
<1>. QED  BY <1>1, <1>2 DEF GradesSoFar

\* Before the first verdict there is nothing to say of the grades.
LEMMA NoGradeYet ==
  ASSUME i' = 1, failed' = 0
  PROVE  GradesSoFar'
<1>1. Unmet' = {}
  BY DEF Unmet
<1>2. \A k \in (1 .. i - 1)' : FALSE
  OBVIOUS
<1>. QED  BY <1>1, <1>2, FS_EmptySet DEF GradesSoFar

\* Before the first criterion none has failed.
LEMMA NothingFailedYet == ASSUME GradesSoFar, i = 1 PROVE failed = 0
<1>1. Unmet = {}
  BY DEF Unmet
<1>. QED  BY <1>1, FS_EmptySet DEF GradesSoFar

-----------------------------------------------------------------------------
\* The invariant holds before the first line.
LEMMA InitReport == ASSUME GInit PROVE ReportInv
<1>. USE DEF GInit
<1>1. TablesOK
  BY BoundsAssumption DEF TablesOK
<1>2. Required = {} /\ Cardinality(Required) = 0
  BY FS_EmptySet DEF Required
<1>3. ItemsAreRequired
  BY <1>2 DEF ItemsAreRequired
<1>4. MetricsAreReported
  BY DEF MetricsAreReported
<1>5. GradesSoFar
  BY FS_EmptySet DEF GradesSoFar, Unmet
<1>6. StepsInOrder
  BY DEF StepsInOrder, Running
<1>. QED  BY <1>1, <1>3, <1>4, <1>5, <1>6 DEF ReportInv

\* An item more.
LEMMA ItemsStep ==
  ASSUME TablesOK, ItemsAreRequired, NEW l \in CriteriaLines,
         ctext' = Append(ctext, l),
         items' = IF l.kw # "require" THEN items ELSE Append(items, CriterionOf(l))
  PROVE  ItemsAreRequired'
<1>. DEFINE new == Len(ctext) + 1
<1>1. /\ Required' = IF l.kw = "require" THEN Required \cup {new} ELSE Required
      /\ new \notin Required
      /\ \A n \in Required' :
           /\ Rank'[n] = IF n = new THEN Cardinality(Required) + 1 ELSE Rank[n]
           /\ ctext'[n] = IF n = new THEN l ELSE ctext[n]
  BY RequiredAppend DEF TablesOK
<1>. HIDE DEF new
<1>2. CASE l.kw # "require"
  <2>1. /\ Required' = Required /\ items' = items
        /\ \A n \in Required : Rank'[n] = Rank[n] /\ ctext'[n] = ctext[n]
    BY <1>1, <1>2
  <2>2. Len(items') = Cardinality(Required')
    BY <2>1 DEF ItemsAreRequired
  <2>3. \A n \in Required' :
          Rank'[n] \in 1 .. Len(items') /\ Asks(items'[Rank'[n]], ctext'[n])
    BY <2>1 DEF ItemsAreRequired
  <2>4. ASSUME NEW k \in 1 .. Len(items') PROVE \E n \in Required' : Rank'[n] = k
    <3>1. PICK n \in Required : Rank[n] = k
      BY <2>1 DEF ItemsAreRequired
    <3>2. n \in Required' /\ Rank'[n] = k
      BY <2>1, <3>1
    <3>. QED  BY <3>2
  <2>5. \A m, n \in Required' : Rank'[m] = Rank'[n] => m = n
    BY <2>1 DEF ItemsAreRequired
  <2>. QED  BY <2>2, <2>3, <2>4, <2>5 DEF ItemsAreRequired
<1>3. CASE l.kw = "require"
  <2>1. CriterionOf(l) \in Criteria
    BY DEF Criteria
  <2>2. /\ Len(items') = Len(items) + 1 /\ Len(items) \in Nat
        /\ \A k \in 1 .. Len(items) : items'[k] = items[k]
        /\ items'[Len(items) + 1] = CriterionOf(l)
    BY <1>3, <2>1, Appended DEF TablesOK
  <2>3. Asks(items'[Len(items) + 1], l)
    BY <2>2 DEF Asks, CriterionOf
  <2>4. Cardinality(Required') = Cardinality(Required) + 1
    BY <1>1, <1>3, RequiredFinite, FS_AddElement DEF TablesOK
  <2>5. /\ Required' = Required \cup {new}
        /\ \A n \in Required' : n = new => Rank'[n] = Len(items) + 1 /\ ctext'[n] = l
        /\ \A n \in Required : n # new /\ n \in Required' /\ Rank'[n] \in 1 .. Len(items)
    BY <1>1, <1>3 DEF ItemsAreRequired
  <2>6. Len(items') = Cardinality(Required')
    BY <2>2, <2>4 DEF ItemsAreRequired
  <2>7. ASSUME NEW n \in Required'
        PROVE  Rank'[n] \in 1 .. Len(items') /\ Asks(items'[Rank'[n]], ctext'[n])
    <3>1. CASE n = new
      <4>1. Rank'[n] = Len(items) + 1 /\ ctext'[n] = l
        BY <2>5, <3>1
      <4>2. Asks(items'[Rank'[n]], ctext'[n])
        BY <2>3, <4>1
      <4>. QED  BY <2>2, <4>1, <4>2
    <3>2. CASE n \in Required
      <4>1. Rank'[n] = Rank[n] /\ ctext'[n] = ctext[n] /\ Rank[n] \in 1 .. Len(items)
        BY <1>1, <3>2 DEF ItemsAreRequired
      <4>2. Asks(items[Rank[n]], ctext[n])
        BY <3>2 DEF ItemsAreRequired
      <4>3. items'[Rank[n]] = items[Rank[n]] /\ Rank[n] \in 1 .. Len(items')
        BY <2>2, <4>1
      <4>. QED  BY <4>1, <4>2, <4>3
    <3>. QED  BY <2>5, <3>1, <3>2
  <2>8. ASSUME NEW k \in 1 .. Len(items') PROVE \E n \in Required' : Rank'[n] = k
    <3>1. CASE k = Len(items) + 1
      <4>1. new \in Required' /\ Rank'[new] = k
        BY <2>5, <3>1
      <4>. QED  BY <4>1
    <3>2. CASE k # Len(items) + 1
      <4>1. k \in 1 .. Len(items)
        BY <2>2, <3>2
      <4>2. PICK n \in Required : Rank[n] = k
        BY <4>1 DEF ItemsAreRequired
      <4>. QED  BY <1>1, <2>5, <4>2
    <3>. QED  BY <3>1, <3>2
  <2>9. ASSUME NEW m \in Required', NEW n \in Required', Rank'[m] = Rank'[n] PROVE m = n
    <3>1. \A q \in Required : Rank'[q] # Len(items) + 1
      BY <2>2, <2>5
    <3>2. CASE m \in Required /\ n \in Required
      BY <1>1, <2>9, <3>2 DEF ItemsAreRequired
    <3>. QED  BY <2>5, <2>9, <3>1, <3>2
  <2>. QED  BY <2>6, <2>7, <2>8, <2>9 DEF ItemsAreRequired
<1>. QED  BY <1>2, <1>3

\* A line more of the report.
LEMMA MetricsStep ==
  ASSUME TablesOK, MetricsAreReported, NEW l \in ReportLines,
         rtext' = Append(rtext, l),
         l.kw = "metric" => Fresh(metrics, l.key),
         metrics' = IF l.kw # "metric" THEN metrics ELSE Append(metrics, MetricOf(l)),
         provenance' = IF l.kw # "provenance" THEN provenance ELSE provenance \cup {l.field}
  PROVE  MetricsAreReported'
<1>. DEFINE new == Len(rtext) + 1
<1>1. /\ DOMAIN rtext' = DOMAIN rtext \cup {new}
      /\ \A n \in DOMAIN rtext : rtext'[n] = rtext[n]
      /\ rtext'[new] = l
  BY Appended DEF TablesOK
<1>2. \A k \in DOMAIN metrics : k \in DOMAIN metrics' /\ metrics'[k] = metrics[k]
  <2>1. MetricOf(l) \in Measured
    BY DEF Measured
  <2>. QED  BY <2>1, Appended DEF TablesOK
<1>3. l.kw = "metric" =>
        \E k \in DOMAIN metrics' :
          /\ metrics'[k] = MetricOf(l) /\ k \notin DOMAIN metrics
          /\ DOMAIN metrics' = DOMAIN metrics \cup {k}
  <2>. SUFFICES ASSUME l.kw = "metric"
                PROVE  LET k == Len(metrics) + 1 IN
                       /\ k \in DOMAIN metrics' /\ metrics'[k] = MetricOf(l)
                       /\ k \notin DOMAIN metrics
                       /\ DOMAIN metrics' = DOMAIN metrics \cup {k}
    OBVIOUS
  <2>1. MetricOf(l) \in Measured
    BY DEF Measured
  <2>. QED  BY <2>1, Appended DEF TablesOK
<1>4. l.kw # "metric" => metrics' = metrics
  OBVIOUS
<1>5. l.kw = "metric" => Reports(MetricOf(l), l)
  BY DEF Reports, MetricOf
<1>. HIDE DEF new
<1>6. ASSUME NEW n \in DOMAIN rtext', rtext'[n].kw = "metric"
      PROVE  \E k \in DOMAIN metrics' : Reports(metrics'[k], rtext'[n])
  <2>1. CASE n \in DOMAIN rtext
    BY <1>1, <1>2, <1>6, <2>1 DEF MetricsAreReported
  <2>2. CASE n = new
    BY <1>1, <1>3, <1>5, <1>6, <2>2
  <2>. QED  BY <1>1, <2>1, <2>2
<1>7. ASSUME NEW k \in DOMAIN metrics'
      PROVE  \E n \in DOMAIN rtext' : Reports(metrics'[k], rtext'[n])
  <2>1. CASE k \in DOMAIN metrics
    <3>1. PICK n \in DOMAIN rtext : Reports(metrics[k], rtext[n])
      BY <2>1 DEF MetricsAreReported
    <3>. QED  BY <1>1, <1>2, <2>1, <3>1
  <2>2. CASE k \notin DOMAIN metrics
    BY <1>1, <1>3, <1>4, <1>5, <2>2
  <2>. QED  BY <2>1, <2>2
<1>8. ASSUME NEW j \in DOMAIN metrics', NEW k \in DOMAIN metrics',
             metrics'[j].key = metrics'[k].key
      PROVE  j = k
  <2>1. CASE j \in DOMAIN metrics /\ k \in DOMAIN metrics
    BY <1>2, <1>8, <2>1 DEF MetricsAreReported
  <2>2. CASE l.kw = "metric"
    <3>1. PICK q \in DOMAIN metrics' :
            /\ metrics'[q] = MetricOf(l) /\ q \notin DOMAIN metrics
            /\ DOMAIN metrics' = DOMAIN metrics \cup {q}
      BY <1>3, <2>2
    <3>2. \A p \in DOMAIN metrics : metrics'[p].key # metrics'[q].key
      BY <1>2, <2>2, <3>1 DEF Fresh, MetricOf
    <3>. QED  BY <1>8, <2>1, <3>1, <3>2
  <2>. QED  BY <1>4, <2>1, <2>2
<1>9. ASSUME NEW f \in provenance'
      PROVE  \E n \in DOMAIN rtext' : rtext'[n].kw = "provenance" /\ rtext'[n].field = f
  <2>1. CASE f \in provenance
    BY <1>1, <2>1 DEF MetricsAreReported
  <2>2. CASE l.kw = "provenance" /\ f = l.field
    BY <1>1, <2>2
  <2>. QED  BY <1>9, <2>1, <2>2
<1>. QED  BY <1>6, <1>7, <1>8, <1>9 DEF MetricsAreReported

-----------------------------------------------------------------------------
\* A step that leaves texts, tables and grades alone keeps what is said of them.
LEMMA QuietStep ==
  ASSUME ReportInv, step # "done",
         UNCHANGED <<ctext, rtext, items, metrics, provenance, grades, i, failed>>
  PROVE  /\ TablesOK' /\ GradesSoFar'
         /\ ItemsAreRequired' /\ MetricsAreReported'
<1>1. ItemsAreRequired' /\ MetricsAreReported'
  BY SameTexts, SameMetrics DEF ReportInv, Accepting
<1>2. TablesOK' /\ GradesSoFar'
  BY SameGrades DEF ReportInv, TablesOK
<1>. QED  BY <1>1, <1>2

\* A criterion read keeps it.
LEMMA CriterionStep ==
  ASSUME ReportInv, NEW l \in CriteriaLines, Criterion(l)
  PROVE  ReportInv'
<1>. USE DEF Criterion
<1>1. step = "criteria" /\ i = 1 /\ i' = 1
  BY DEF ReportInv, StepsInOrder
<1>2. failed' = 0
  BY <1>1, NothingFailedYet DEF ReportInv
<1>3. GradesSoFar'
  BY <1>1, <1>2, NoGradeYet
<1>4. ctext' \in Seq(CriteriaLines)
  BY Appended DEF ReportInv, TablesOK
<1>5. CASE CriterionMeans(l)
  <2>1. items' = IF l.kw # "require" THEN items ELSE Append(items, CriterionOf(l))
    BY <1>5 DEF CriterionOf
  <2>2. ItemsAreRequired'
    BY <1>1, <2>1, ItemsStep DEF ReportInv, Accepting
  <2>3. MetricsAreReported'
    BY <1>1, SameMetrics DEF ReportInv, Accepting
  <2>4. items' \in Seq(Criteria) /\ Len(items') <= MaxCriteria /\ Len(items') >= Len(items)
    <3>1. CASE l.kw # "require"
      BY <2>1, <3>1 DEF ReportInv, TablesOK
    <3>2. CASE l.kw = "require"
      <4>1. Len(items) < MaxCriteria
        BY <1>5, <3>2 DEF CriterionMeans
      <4>2. CriterionOf(l) \in Criteria
        BY DEF Criteria
      <4>. QED  BY <2>1, <3>2, <4>1, <4>2, Appended, BoundsAssumption DEF ReportInv, TablesOK
    <3>. QED  BY <3>1, <3>2
  <2>5. TablesOK'
    BY <1>1, <1>4, <2>4 DEF ReportInv, TablesOK
  <2>6. StepsInOrder'
    BY <1>1, <1>5 DEF ReportInv, StepsInOrder
  <2>. QED  BY <1>3, <2>2, <2>3, <2>5, <2>6 DEF ReportInv
<1>6. CASE ~CriterionMeans(l)
  <2>1. step' = "done" /\ exit' = 1 /\ items' = items
    BY <1>6 DEF Return
  <2>2. TablesOK'
    BY <1>4, <2>1 DEF ReportInv, TablesOK
  <2>3. StepsInOrder' /\ ~Accepting'
    BY <1>1, <2>1 DEF StepsInOrder, Accepting
  <2>. QED  BY <1>3, <2>2, <2>3 DEF ReportInv
<1>. QED  BY <1>5, <1>6

\* A metric read keeps it.
LEMMA MeasureStep ==
  ASSUME ReportInv, NEW l \in ReportLines, Measure(l)
  PROVE  ReportInv'
<1>. USE DEF Measure
<1>1. step = "report" /\ i = 1 /\ i' = 1 /\ items # <<>> /\ items' = items
  BY DEF ReportInv, StepsInOrder
<1>2. failed' = 0
  BY <1>1, NothingFailedYet DEF ReportInv
<1>3. GradesSoFar'
  BY <1>1, <1>2, NoGradeYet
<1>4. rtext' \in Seq(ReportLines)
  BY Appended DEF ReportInv, TablesOK
<1>5. CASE MeasureMeans(l)
  <2>1. /\ metrics' = IF l.kw # "metric" THEN metrics ELSE Append(metrics, MetricOf(l))
        /\ provenance' = IF l.kw # "provenance" THEN provenance ELSE provenance \cup {l.field}
    BY <1>5 DEF MetricOf
  <2>2. l.kw = "metric" => Fresh(metrics, l.key)
    BY <1>5 DEF MeasureMeans
  <2>3. MetricsAreReported'
    BY <1>1, <2>1, <2>2, MetricsStep DEF ReportInv, Accepting
  <2>4. ItemsAreRequired'
    BY <1>1, SameTexts DEF ReportInv, Accepting
  <2>5. metrics' \in Seq(Measured)
    <3>1. MetricOf(l) \in Measured
      BY DEF Measured
    <3>. QED  BY <2>1, <3>1, Appended DEF ReportInv, TablesOK
  <2>6. TablesOK'
    BY <1>1, <1>4, <2>5 DEF ReportInv, TablesOK
  <2>7. StepsInOrder'
    BY <1>1, <1>5 DEF ReportInv, StepsInOrder
  <2>. QED  BY <1>3, <2>3, <2>4, <2>6, <2>7 DEF ReportInv
<1>6. CASE ~MeasureMeans(l)
  <2>1. step' = "done" /\ exit' = 1 /\ UNCHANGED <<metrics, provenance>>
    BY <1>6 DEF Return
  <2>2. TablesOK'
    BY <1>4, <2>1 DEF ReportInv, TablesOK
  <2>3. StepsInOrder' /\ ~Accepting'
    BY <1>1, <2>1 DEF StepsInOrder, Accepting
  <2>. QED  BY <1>3, <2>2, <2>3 DEF ReportInv
<1>. QED  BY <1>5, <1>6

\* One verdict more.
LEMMA GradeStep == ASSUME ReportInv, Grade PROVE ReportInv'
<1>. USE DEF Grade, ReportInv
<1>1. /\ step = "grade" /\ step' = "grade" /\ i <= Len(items) /\ i' = i + 1
      /\ UNCHANGED <<ctext, rtext, items, metrics, provenance, exit>>
  OBVIOUS
<1>. DEFINE v == Verdict(items[i])
<1>2. v \in {"PASS", "FAIL", "NOT_MEASURED"}
  BY DEF Verdict
<1>3. /\ grades' = [grades EXCEPT ![i] = v]
      /\ failed' = IF v = "PASS" THEN failed ELSE failed + 1
  OBVIOUS
<1>. HIDE DEF v
<1>4. /\ i \in 1 .. MaxCriteria /\ i \in Nat /\ Len(items) \in Nat
      /\ grades' \in [1 .. MaxCriteria -> {"PASS", "FAIL", "NOT_MEASURED"}]
  BY <1>1, <1>2, <1>3, BoundsAssumption DEF TablesOK
<1>5. TablesOK'
  BY <1>1, <1>4 DEF TablesOK
<1>6. \A item : Verdict(item)' = Verdict(item)
  BY <1>1 DEF Verdict, Found
<1>7. grades'[i] = v /\ \A k \in 1 .. i - 1 : grades'[k] = grades[k]
  BY <1>3, <1>4, BoundsAssumption DEF TablesOK
<1>8. \A k \in 1 .. i : grades'[k] = Verdict(items[k])
  BY <1>4, <1>7 DEF GradesSoFar, v
<1>9. Unmet' = IF v = "PASS" THEN Unmet ELSE Unmet \cup {i}
  BY <1>1, <1>4, <1>7 DEF Unmet
<1>10. failed' = Cardinality(Unmet')
  <2>1. Unmet \in SUBSET (1 .. i - 1) /\ i \notin Unmet
    BY <1>4 DEF Unmet
  <2>2. IsFiniteSet(Unmet)
    <3>1. IsFiniteSet(1 .. i - 1)
      BY <1>4, FS_Interval
    <3>. QED  BY <2>1, <3>1, FS_Subset
  <2>3. Cardinality(Unmet \cup {i}) = Cardinality(Unmet) + 1
    BY <2>1, <2>2, FS_AddElement
  <2>. QED  BY <1>3, <1>9, <2>3 DEF GradesSoFar
<1>11. GradesSoFar'
  <2>1. (i - 1)' = i
    BY <1>1, <1>4
  <2>2. \A k \in 1 .. i : grades'[k] = Verdict(items[k])'
    BY <1>1, <1>8 DEF Verdict, Found
  <2>. QED  BY <1>1, <1>10, <2>1, <2>2 DEF GradesSoFar
<1>12. StepsInOrder'
  BY <1>1, <1>4 DEF StepsInOrder
<1>13. ItemsAreRequired' /\ MetricsAreReported'
  BY <1>1, SameTexts, SameMetrics DEF Accepting
<1>. QED  BY <1>5, <1>11, <1>12, <1>13

\* Every step keeps it.
LEMMA ReportStep == ASSUME ReportInv, GNext PROVE ReportInv'
<1>1. CASE Arguments \/ Unreadable \/ CriteriaEnd \/ ReportEnd \/ Identify \/ Graded
  <2>1. /\ step # "done"
        /\ UNCHANGED <<ctext, rtext, items, metrics, provenance, grades, i, failed>>
    BY <1>1 DEF Arguments, Unreadable, CriteriaEnd, ReportEnd, Identify, Graded
  <2>2. StepsInOrder'
    <3>1. CASE Arguments \/ Unreadable \/ CriteriaEnd \/ ReportEnd \/ Identify
      BY <2>1, <3>1 DEF Arguments, Unreadable, CriteriaEnd, ReportEnd, Identify, Return,
                        ReportInv, StepsInOrder
    <3>2. CASE Graded
      <4>1. items # <<>> /\ provenance = Field /\ i > Len(items)
        BY <3>2 DEF Graded, ReportInv, StepsInOrder
      <4>2. i > 1
        BY <4>1 DEF ReportInv, TablesOK
      <4>. QED  BY <2>1, <3>2, <4>1, <4>2 DEF Graded, Return, StepsInOrder
    <3>. QED  BY <1>1, <3>1, <3>2
  <2>. QED  BY <2>1, <2>2, QuietStep DEF ReportInv
<1>. QED  BY <1>1, CriterionStep, MeasureStep, GradeStep DEF GNext

\* What was read of criteria and report is what stands there, and the grades given
\* so far are those the two deserve.
LEMMA ReportInvariant == GSpec => []ReportInv
<1>1. GInit => ReportInv
  BY InitReport
<1>2. ReportInv /\ [GNext]_gvars => ReportInv'
  <2>1. ASSUME ReportInv, UNCHANGED gvars PROVE ReportInv'
    <3>1. UNCHANGED <<ctext, rtext, items, metrics, provenance, grades, i, failed, step, exit>>
      BY <2>1 DEF gvars
    <3>2. TablesOK' /\ GradesSoFar' /\ StepsInOrder'
      BY <2>1, <3>1, SameGrades DEF ReportInv, TablesOK, StepsInOrder
    <3>. QED
      BY <2>1, <3>1, <3>2, SameTexts, SameMetrics DEF ReportInv, Accepting
  <2>. QED  BY <2>1, ReportStep
<1>. QED  BY <1>1, <1>2, PTL DEF GSpec

-----------------------------------------------------------------------------
\* What a verdict says of the text of the report: there is one value of a
\* metric, that of every line that reports it.
LEMMA VerdictSays ==
  ASSUME TablesOK, MetricsAreReported, NEW item, NEW l, Asks(item, l)
  PROVE  LET lines == Reported(l.key) IN
         /\ Verdict(item) = "NOT_MEASURED" <=> lines = {}
         /\ Verdict(item) = "PASS" <=> \E m \in lines : Meets(rtext[m].value, l)
         /\ Verdict(item) = "PASS" => \A m \in lines : Meets(rtext[m].value, l)
<1>1. \A v : Meets(v, item) <=> Meets(v, l)
  BY DEF Meets, Asks
<1>2. item.key = l.key
  BY DEF Asks
<1>3. CASE Found(l.key) = {}
  <2>1. Verdict(item) = "NOT_MEASURED"
    BY <1>2, <1>3 DEF Verdict
  <2>2. Reported(l.key) = {}
    BY <1>3 DEF MetricsAreReported, Reports, Reported, Found
  <2>. QED  BY <2>1, <2>2
<1>4. CASE Found(l.key) # {}
  <2>1. PICK k \in DOMAIN metrics : metrics[k].key = l.key
    BY <1>4 DEF Found
  <2>2. Found(l.key) = {k}
    BY <2>1 DEF Found, MetricsAreReported
  <2>3. First({k}) = k
    <3>1. \A m \in {k} : k <= m
      BY <2>1, Appended DEF TablesOK
    <3>. QED  BY <3>1 DEF First
  <2>4. \A m \in Reported(l.key) : rtext[m].value = metrics[k].value
    BY <2>1 DEF MetricsAreReported, Reports, Reported
  <2>5. Reported(l.key) # {}
    BY <2>1 DEF MetricsAreReported, Reports, Reported
  <2>6. Verdict(item) = IF Meets(metrics[k].value, l) THEN "PASS" ELSE "FAIL"
    BY <1>1, <1>2, <2>2, <2>3 DEF Verdict
  <2>. QED  BY <2>4, <2>5, <2>6
<1>. QED  BY <1>3, <1>4

\* Each requirement of the text has the verdict on its own line.
LEMMA RequirementGraded ==
  ASSUME ReportInv, i > Len(items), NEW n \in Required, Accepting
  PROVE  /\ TablesOK /\ MetricsAreReported
         /\ Rank[n] \in 1 .. i - 1
         /\ Asks(items[Rank[n]], ctext[n])
         /\ grades[Rank[n]] = Verdict(items[Rank[n]])
<1>1. i = Len(items) + 1 /\ Len(items) \in Nat
  BY DEF ReportInv, TablesOK
<1>2. Rank[n] \in 1 .. i - 1 /\ Asks(items[Rank[n]], ctext[n])
  BY <1>1 DEF ReportInv, ItemsAreRequired
<1>. QED  BY <1>2 DEF ReportInv, GradesSoFar

\* The grades that are no pass are those of requirements, one each.
LEMMA FailedCounts ==
  ASSUME ReportInv, i > 1, i > Len(items)
  PROVE  failed = Cardinality({n \in Required : grades[Rank[n]] # "PASS"})
<1>. DEFINE missed == {n \in Required : grades[Rank[n]] # "PASS"}
            f == [n \in missed |-> Rank[n]]
<1>1. i = Len(items) + 1 /\ Len(items) \in Nat /\ Accepting
  BY DEF ReportInv, TablesOK, Accepting
<1>2. /\ \A n \in Required : Rank[n] \in 1 .. Len(items)
      /\ \A k \in 1 .. Len(items) : \E n \in Required : Rank[n] = k
      /\ \A m, n \in Required : Rank[m] = Rank[n] => m = n
  BY <1>1 DEF ReportInv, ItemsAreRequired
<1>3. Unmet = {k \in 1 .. Len(items) : grades[k] # "PASS"}
  BY <1>1 DEF Unmet
<1>4. f \in [missed -> Unmet]
  BY <1>2, <1>3
<1>5. \A m, n \in missed : f[m] = f[n] => m = n
  BY <1>2
<1>6. \A k \in Unmet : \E n \in missed : f[n] = k
  BY <1>2, <1>3
<1>. HIDE DEF missed, f
<1>7. f \in Bijection(missed, Unmet)
  BY <1>4, <1>5, <1>6 DEF Bijection, Injection, Surjection, IsInjective
<1>8. ExistsBijection(missed, Unmet)
  BY <1>7 DEF ExistsBijection
<1>9. IsFiniteSet(missed)
  <2>1. IsFiniteSet(Required)
    BY RequiredFinite DEF ReportInv, TablesOK
  <2>2. missed \in SUBSET Required
    BY DEF missed
  <2>. QED  BY <2>1, <2>2, FS_Subset
<1>10. failed = Cardinality(Unmet)
  BY DEF ReportInv, GradesSoFar
<1>11. Cardinality(Unmet) = Cardinality(missed)
  BY <1>8, <1>9, FS_Bijection
<1>. QED  BY <1>10, <1>11 DEF missed

\* gw_report.h:27: once graded, every requirement of the criteria text has its
\* own grade, which says what the text of the report says of its metric, and
\* each that is no pass is counted.
THEOREM NoCriterionUnanswered == GSpec => []EveryCriterionAnswered
<1>1. ReportInv => EveryCriterionAnswered
  <2>. SUFFICES ASSUME ReportInv, i > 1, i > Len(items)
                PROVE  EveryCriterionAnswered
    BY DEF EveryCriterionAnswered
  <2>1. Accepting
    BY DEF Accepting
  <2>2. Len(items) = Cardinality(Required)
    BY <2>1 DEF ReportInv, ItemsAreRequired
  <2>3. ASSUME NEW n \in Required
        PROVE  /\ grades[Rank[n]] = "NOT_MEASURED" <=> Reported(ctext[n].key) = {}
               /\ grades[Rank[n]] = "PASS" <=>
                    \E m \in Reported(ctext[n].key) : Meets(rtext[m].value, ctext[n])
    <3>1. /\ TablesOK /\ MetricsAreReported
          /\ Asks(items[Rank[n]], ctext[n])
          /\ grades[Rank[n]] = Verdict(items[Rank[n]])
      BY <2>1, RequirementGraded
    <3>. QED  BY <3>1, VerdictSays
  <2>. QED  BY <2>2, <2>3, FailedCounts DEF EveryCriterionAnswered
<1>. QED  BY <1>1, ReportInvariant, PTL

\* gw_report.h:22-26: report_check exits 0 only on evidence: every provenance
\* field is named, something is required, and whatever is required is met by
\* every line that reports it, of which there is one.
THEOREM ZeroIsEvidence == GSpec => []ZeroMeansDemonstrated
<1>1. ReportInv => ZeroMeansDemonstrated
  <2>. SUFFICES ASSUME ReportInv, exit = 0
                PROVE  ZeroMeansDemonstrated
    BY DEF ZeroMeansDemonstrated
  <2>1. i > 1 /\ i > Len(items) /\ failed = 0 /\ provenance = Field
    BY DEF ReportInv, StepsInOrder
  <2>2. Accepting /\ i = Len(items) + 1 /\ Len(items) \in Nat
    BY <2>1 DEF Accepting, ReportInv, TablesOK
  <2>3. Required # {}
    BY <2>1, <2>2 DEF ReportInv, ItemsAreRequired
  <2>4. \A f \in Field : \E n \in DOMAIN rtext : rtext[n].kw = "provenance" /\ rtext[n].field = f
    BY <2>1, <2>2 DEF ReportInv, MetricsAreReported
  <2>5. ASSUME NEW n \in Required
        PROVE  /\ Reported(ctext[n].key) # {}
               /\ \A m \in Reported(ctext[n].key) : Meets(rtext[m].value, ctext[n])
    <3>1. /\ TablesOK /\ MetricsAreReported
          /\ Rank[n] \in 1 .. i - 1
          /\ Asks(items[Rank[n]], ctext[n])
          /\ grades[Rank[n]] = Verdict(items[Rank[n]])
      BY <2>1, <2>2, RequirementGraded
    <3>2. Unmet = {}
      <4>1. Unmet \in SUBSET (1 .. i - 1) /\ i - 1 \in Int
        BY <2>2 DEF Unmet
      <4>2. IsFiniteSet(1 .. i - 1)
        BY <4>1, FS_Interval
      <4>3. IsFiniteSet(Unmet)
        BY <4>1, <4>2, FS_Subset
      <4>. QED  BY <2>1, <4>3, FS_EmptySet DEF ReportInv, GradesSoFar
    <3>3. grades[Rank[n]] = "PASS"
      BY <3>1, <3>2 DEF Unmet
    <3>. QED  BY <3>1, <3>3, VerdictSays
  <2>. QED  BY <2>3, <2>4, <2>5 DEF ZeroMeansDemonstrated
<1>. QED  BY <1>1, ReportInvariant, PTL
=============================================================================
