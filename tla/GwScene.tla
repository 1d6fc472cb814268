------------------------------ MODULE GwScene -------------------------------
(***************************************************************************)
(* struct gw_scene of src/gw_bench.h, as the parser hands it to the replay *)
(* and the scoring: what each of them may assume of it.  The label of a    *)
(* sample is a function on the rules the sample mentions, which stands for *)
(* label[] and has_label[] together; rules are numbered from 0.            *)
(***************************************************************************)
EXTENDS Integers, Sequences

Ascending(s, Key(_)) == \A j, k \in DOMAIN s : j < k => Key(s[j]) <= Key(s[k])

\* What walk() relies on: samples and restarts in time order, labels of declared
\* rules, and a tick no coarser than any rule's max_gap.
Replayable(s, values) ==
  /\ s.rules # <<>>
  /\ s.samples # <<>>
  /\ Ascending(s.samples, LAMBDA sample : sample.t)
  /\ \A k \in DOMAIN s.samples :
       LET label == s.samples[k].label
       IN  \A i \in DOMAIN label : i \in 0 .. Len(s.rules) - 1 /\ label[i] \in values
  /\ Ascending(s.restarts, LAMBDA t : t)
  /\ s.tick > 0
  /\ \A i \in DOMAIN s.rules : s.tick <= s.rules[i].max_gap

\* What gw_score relies on: events in time order, each with a window.
Scorable(truth) ==
  /\ Ascending(truth, LAMBDA event : event.at)
  /\ \A k \in DOMAIN truth : truth[k].before >= 0 /\ truth[k].after > 0
=============================================================================
