---------------------------- MODULE MCGwManifest ----------------------------
(* Manifests over a few lines of every keyword, good and bad, in any order. *)
EXTENDS GwManifest

WordLine(kw, word)   == [kw |-> kw, well |-> TRUE, word |-> word]
RuleLine(id, kind, gap, sustain) ==
  [ kw |-> "rule", well |-> TRUE, id |-> id, kind |-> kind, target |-> "yes",
    count |-> 1, window |-> 0, gap |-> gap, sustain |-> sustain ]
TruthLine(id, at, after) ==
  [kw |-> "truth", well |-> TRUE, id |-> id, at |-> at, after |-> after]
SampleLine(t, labels) == [kw |-> "sample", well |-> TRUE, t |-> t, labels |-> labels]
Says(id, value) == [id |-> id, value |-> value]

MCRuleNames == {"a", "b", EmptyId}

MCLines ==
  { [kw |-> "version", well |-> TRUE, n |-> n] : n \in {1, 2} }
    \cup { WordLine("scene", "s"), WordLine("camera", "cam"), WordLine("split", "test"),
           [kw |-> "other", well |-> FALSE], [kw |-> "camera", well |-> FALSE] }
    \cup { [kw |-> "match_window", well |-> TRUE, after |-> 1, before |-> b] :
             b \in { <<>>, <<1>> } }
    \cup { [kw |-> "tick_ms", well |-> TRUE, ms |-> ms] : ms \in {0, 1, 3} }
    \cup { RuleLine("a", "appeared", 1, <<>>), RuleLine("b", "sustained", 2, <<2>>),
           RuleLine("b", "appeared", 2, <<2>>) }
    \cup { TruthLine("a", 0, <<>>), TruthLine("b", 1, <<>>), TruthLine("a", 1, <<2>>),
           TruthLine("a", 1, <<-1>>) }
    \cup { [kw |-> "restart", well |-> TRUE, at |-> at] : at \in {-1, 0, 1} }
    \cup { SampleLine(0, <<Says("a", "yes")>>),
           SampleLine(1, <<Says("b", "no"), Says("a", "unknown")>>),
           SampleLine(1, <<Says("a", "no"), Says("a", "no")>>) }
=============================================================================
