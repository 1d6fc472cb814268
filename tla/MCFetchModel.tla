---------------------------- MODULE MCFetchModel ----------------------------
(* Two processes, run again and again, and a model of two files. *)
EXTENDS FetchModel, TLC

MCContents  == {"a", "b"}
Revision    == <<"a", "b">>
MCManifests == {Revision}
MCFound     == { Revision, <<"b", "b">> }   \* an install, and a tampered one

Symmetric == Permutations(Pids)

\* A run that has ended is told apart by nothing but what it left behind.
MCView ==
  << fs, pc, [p \in Pids |-> IF pc[p] = "idle" THEN <<>>
                             ELSE <<manifest[p], next[p], bad[p], alone[p]>>] >>
=============================================================================
