----------------------------- MODULE MCGwReport -----------------------------
(* Criteria and reports of a few lines over two metrics and two fields. *)
EXTENDS GwReport

VersionLine(one) == [kw |-> "version", one |-> one]
OtherLine        == [kw |-> "other"]
Require(key, cmp, limit, well) ==
  [kw |-> "require", key |-> key, cmp |-> cmp, limit |-> limit, well |-> well]
Metric(key, value, well) == [kw |-> "metric", key |-> key, value |-> value, well |-> well]

MCField == {"model_id", "start"}

MCCriteriaLines ==
  { VersionLine(TRUE), VersionLine(FALSE), [kw |-> "profile"], OtherLine,
    Require("recall", ">=", 1, TRUE), Require("latency", "<=", 1, TRUE),
    Require("latency", "<=", 1, FALSE) }

MCReportLines ==
  { VersionLine(TRUE), VersionLine(FALSE), OtherLine, Metric("recall", 1, FALSE) }
    \cup { Metric("recall", v, TRUE) : v \in {0, 1} }
    \cup { Metric("latency", v, TRUE) : v \in {1, 2} }
    \cup { [kw |-> "provenance", field |-> f, well |-> TRUE] : f \in MCField }
    \cup { [kw |-> "provenance", field |-> "start", well |-> FALSE] }
=============================================================================
