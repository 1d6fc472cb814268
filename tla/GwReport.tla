------------------------------ MODULE GwReport ------------------------------
(***************************************************************************)
(* The release gate: benchmarks/report_check.c reads a criteria file and a *)
(* benchmark report with the parsers of src/gw_report.c, grades the one    *)
(* against the other and exits 0 only if every criterion is demonstrated.  *)
(*                                                                         *)
(* A file is met line by line; ctext and rtext are what has been read of   *)
(* it.  A line is its keyword and its values, and `well' tells whether     *)
(* they are there, fit and are decimals.  Comments and blank lines are     *)
(* left out.  Decimals are integers: parse_number keeps their order.       *)
(*                                                                         *)
(* Definitions marked "Mutant:" are one-line bugs put in place of the      *)
(* operator that follows them, to show that a property notices.            *)
(***************************************************************************)
EXTENDS Integers, Sequences, FiniteSets

CONSTANTS
  CriteriaLines, ReportLines,   \* the lines a file may have
  MaxLines,                     \* bound: lines in a file
  Field,                        \* enum gw_provenance_field
  MaxCriteria, MaxMetrics       \* GW_REPORT_MAX_CRITERIA, GW_REPORT_MAX_METRICS

VARIABLES
  step, ctext, rtext, versioned,
  items,        \* gw_criteria.items and count
  metrics,      \* gw_report.metrics and metric_count
  provenance,   \* the fields f with has_provenance[f]
  grades,       \* out_grades, a static array
  i,            \* the loop over the criteria in gw_report_grade
  failed,
  exit          \* the exit status of the program

gvars == <<step, ctext, rtext, versioned, items, metrics, provenance, grades, i,
           failed, exit>>

Running == 3    \* no exit status yet

ASSUME CriteriaLinesAssumption ==
  \A l \in CriteriaLines :
    /\ l.kw \in {"version", "profile", "require", "other"}
    /\ l.kw = "require" => l.well \in BOOLEAN /\ l.cmp \in {"<=", ">="} /\ l.limit \in Int
ASSUME ReportLinesAssumption ==
  \A l \in ReportLines :
    /\ l.kw \in {"version", "metric", "provenance", "other"}
    /\ l.kw = "metric" => l.well \in BOOLEAN /\ l.value \in Int
    /\ l.kw = "provenance" => l.well \in BOOLEAN /\ l.field \in Field
ASSUME BoundsAssumption == {MaxLines, MaxCriteria, MaxMetrics} \subseteq Nat

\* GW_VERDICT_PASS is 0, so a grade nobody writes reads as a pass.
GInit ==
  /\ step = "arguments"
  /\ ctext = <<>> /\ rtext = <<>>
  /\ versioned = FALSE
  /\ items = <<>> /\ metrics = <<>> /\ provenance = {}
  /\ grades = [n \in 1 .. MaxCriteria |-> "PASS"]
  /\ i = 1 /\ failed = 0
  /\ exit = Running

Return(status) == step' = "done" /\ exit' = status

\* main reads its arguments: usage, or on to the criteria.
Arguments ==
  /\ step = "arguments"
  /\ \/ Return(2)
     \/ step' = "criteria" /\ UNCHANGED exit
  /\ UNCHANGED <<ctext, rtext, versioned, items, metrics, provenance, grades, i, failed>>

\* slurp cannot read the file.
Unreadable ==
  /\ \/ step = "criteria" /\ ctext = <<>>
     \/ step = "report" /\ rtext = <<>>
  /\ Return(1)
  /\ UNCHANGED <<ctext, rtext, versioned, items, metrics, provenance, grades, i, failed>>

-----------------------------------------------------------------------------
(***************************************************************************)
(* gw_criteria_parse.                                                      *)
(***************************************************************************)
Fresh(s, key) == \A n \in DOMAIN s : s[n].key # key

CriterionMeans(l) ==
  CASE l.kw = "version" -> l.one
    [] l.kw = "profile" -> versioned
    [] l.kw = "require" -> versioned /\ l.well /\ Fresh(items, l.key)
                             /\ Len(items) < MaxCriteria
    [] OTHER            -> FALSE

Criterion(l) ==
  /\ step = "criteria" /\ Len(ctext) < MaxLines
  /\ ctext' = Append(ctext, l)
  /\ IF CriterionMeans(l)
     THEN /\ versioned' = (versioned \/ l.kw = "version")
          /\ items' = IF l.kw # "require" THEN items
                      ELSE Append(items, [key |-> l.key, cmp |-> l.cmp, limit |-> l.limit])
          /\ UNCHANGED <<step, exit>>
     ELSE Return(1) /\ UNCHANGED <<versioned, items>>
  /\ UNCHANGED <<rtext, metrics, provenance, grades, i, failed>>

\* The end of the criteria; a gate that gates nothing is refused.
CriteriaEnd ==
  /\ step = "criteria"
  /\ IF versioned /\ items # <<>> THEN step' = "report" /\ UNCHANGED exit ELSE Return(1)
  /\ versioned' = FALSE
  /\ UNCHANGED <<ctext, rtext, items, metrics, provenance, grades, i, failed>>

-----------------------------------------------------------------------------
(***************************************************************************)
(* gw_report_parse.                                                        *)
(***************************************************************************)
\* Mutant: a metric reported twice is not refused.
MeasureMeansTwice(l) ==
  CASE l.kw = "version"    -> l.one
    [] l.kw = "metric"     -> versioned /\ l.well /\ Len(metrics) < MaxMetrics
    [] l.kw = "provenance" -> versioned /\ l.well /\ l.field \notin provenance
    [] OTHER               -> FALSE

MeasureMeans(l) ==
  CASE l.kw = "version"    -> l.one
    [] l.kw = "metric"     -> versioned /\ l.well /\ Fresh(metrics, l.key)
                                /\ Len(metrics) < MaxMetrics
    [] l.kw = "provenance" -> versioned /\ l.well /\ l.field \notin provenance
    [] OTHER               -> FALSE

Measure(l) ==
  /\ step = "report" /\ Len(rtext) < MaxLines
  /\ rtext' = Append(rtext, l)
  /\ IF MeasureMeans(l)
     THEN /\ versioned' = (versioned \/ l.kw = "version")
          /\ metrics' = IF l.kw # "metric" THEN metrics
                        ELSE Append(metrics, [key |-> l.key, value |-> l.value])
          /\ provenance' = IF l.kw # "provenance" THEN provenance
                           ELSE provenance \cup {l.field}
          /\ UNCHANGED <<step, exit>>
     ELSE Return(1) /\ UNCHANGED <<versioned, metrics, provenance>>
  /\ UNCHANGED <<ctext, items, grades, i, failed>>

ReportEnd ==
  /\ step = "report"
  /\ IF versioned THEN step' = "identify" /\ UNCHANGED exit ELSE Return(1)
  /\ UNCHANGED <<ctext, rtext, versioned, items, metrics, provenance, grades, i, failed>>

-----------------------------------------------------------------------------
(***************************************************************************)
(* gw_report_grade.                                                        *)
(***************************************************************************)
Identify ==
  /\ step = "identify"
  /\ IF provenance = Field THEN step' = "grade" /\ UNCHANGED exit ELSE Return(1)
  /\ UNCHANGED <<ctext, rtext, versioned, items, metrics, provenance, grades, i, failed>>

Meets(value, criterion) ==
  IF criterion.cmp = "<=" THEN value <= criterion.limit ELSE value >= criterion.limit

\* The first metric of that name, as the search finds it.
Found(key) == {n \in DOMAIN metrics : metrics[n].key = key}
First(s)   == CHOOSE n \in s : \A m \in s : n <= m

Verdict(criterion) ==
  IF Found(criterion.key) = {} THEN "NOT_MEASURED"
  ELSE IF Meets(metrics[First(Found(criterion.key))].value, criterion) THEN "PASS"
  ELSE "FAIL"

\* Mutant: a criterion nobody measured is passed over, its grade never written.
GradeMeasured ==
  /\ step = "grade" /\ i <= Len(items)
  /\ LET v == Verdict(items[i])
     IN  /\ grades' = IF v = "NOT_MEASURED" THEN grades ELSE [grades EXCEPT ![i] = v]
         /\ failed' = IF v = "PASS" THEN failed ELSE failed + 1
  /\ i' = i + 1
  /\ UNCHANGED <<step, ctext, rtext, versioned, items, metrics, provenance, exit>>

Grade ==
  /\ step = "grade" /\ i <= Len(items)
  /\ LET v == Verdict(items[i])
     IN  /\ grades' = [grades EXCEPT ![i] = v]
         /\ failed' = IF v = "PASS" THEN failed ELSE failed + 1
  /\ i' = i + 1
  /\ UNCHANGED <<step, ctext, rtext, versioned, items, metrics, provenance, exit>>

\* main prints every grade and leaves.
Graded ==
  /\ step = "grade" /\ i > Len(items)
  /\ Return(IF failed = 0 THEN 0 ELSE 1)
  /\ UNCHANGED <<ctext, rtext, versioned, items, metrics, provenance, grades, i, failed>>

GNext ==
  \/ Arguments \/ Unreadable
  \/ \E l \in CriteriaLines : Criterion(l)
  \/ CriteriaEnd
  \/ \E l \in ReportLines : Measure(l)
  \/ ReportEnd
  \/ Identify \/ Grade \/ Graded

GSpec == GInit /\ [][GNext]_gvars

-----------------------------------------------------------------------------
\* The lines of the criteria text that require something, and the place of one
\* among them.
Required == {n \in DOMAIN ctext : ctext[n].kw = "require"}
Rank     == [n \in Required |-> Cardinality({m \in Required : m <= n})]

Reported(key) == {n \in DOMAIN rtext : rtext[n].kw = "metric" /\ rtext[n].key = key}

\* gw_report.h:22-26: the gate opens only on evidence.  If report_check exits 0
\* the criteria text requires something, the report text names every provenance
\* field, and each requirement is met by the one line that reports its metric:
\* no other line contradicts it.
ZeroMeansDemonstrated ==
  exit = 0 =>
    /\ Required # {}
    /\ \A f \in Field : \E n \in DOMAIN rtext : rtext[n].kw = "provenance" /\ rtext[n].field = f
    /\ \A n \in Required :
         /\ Reported(ctext[n].key) # {}
         /\ \A m \in Reported(ctext[n].key) : Meets(rtext[m].value, ctext[n])

\* gw_report.h:27 "Every criterion is reported, met or not": once graded, the
\* n-th grade is that of the n-th requirement of the text; it says NOT_MEASURED
\* exactly when no line reports the metric and PASS exactly when a line that
\* does meets it, and `failed' counts every grade that is not a pass.
EveryCriterionAnswered ==
  i > 1 /\ i > Len(items) =>
    /\ Len(items) = Cardinality(Required)
    /\ \A n \in Required : LET grade == grades[Rank[n]] IN
         /\ grade = "NOT_MEASURED" <=> Reported(ctext[n].key) = {}
         /\ grade = "PASS" <=>
              \E m \in Reported(ctext[n].key) : Meets(rtext[m].value, ctext[n])
    /\ failed = Cardinality({n \in Required : grades[Rank[n]] # "PASS"})
=============================================================================
