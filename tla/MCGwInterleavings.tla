------------------------- MODULE MCGwInterleavings --------------------------
(* The two parts whose difficulty is the order of steps: the five calls of   *)
(* the watch in any order, and installers that run at once.  They share no   *)
(* state; one of them runs, chosen at the start, and the other stays as it   *)
(* is.                                                                       *)
EXTENDS MCGwWatch, MCFetchModel

VARIABLE part

ivars == <<part, vars, fvars>>

IInit ==
  /\ part \in {"watch", "installers"}
  /\ Init
  /\ FInit
  /\ part = "watch" =>
       dest = Absent /\ \A p \in Pids : manifest[p] = Revision

INext ==
  \/ part = "watch"      /\ Next  /\ UNCHANGED <<part, fvars>>
  \/ part = "installers" /\ FNext /\ UNCHANGED <<part, vars>>

ISpec == IInit /\ [][INext]_ivars

IView == <<part, vars, MCView>>
=============================================================================
