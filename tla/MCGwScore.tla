----------------------------- MODULE MCGwScore ------------------------------
(* Every short ground truth and every short list of detections of a rule,    *)
(* and of two rules side by side.                                            *)
EXTENDS GwScore

Instants == 0 .. 3
InOrder(S) == {s \in S : Ascending(s, LAMBDA x : x.at)}
Upto(S, n) == UNION { [1 .. k -> S] : k \in 0 .. n }

Events == [rule : {0}, at : Instants, before : {0, 2}, after : {1, 2}]
Others == [rule : {1}, at : Instants, before : {0}, after : {1}]

MCTruths ==
  InOrder(Upto(Events, 2) \cup [1 .. 3 -> [rule : {0}, at : Instants, before : {0, 1}, after : {1}]]
            \cup UNION { { <<a, b>>, <<b, a>> } : a \in Events, b \in Others })

MCDetections ==
  InOrder(Upto([rule : {0, 1}, at : 0 .. 4], 2) \cup [1 .. 3 -> [rule : {0}, at : 0 .. 4]])
=============================================================================
