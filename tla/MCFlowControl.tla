---------------------------- MODULE MCFlowControl ----------------------------
(* Instances of FlowControl for TLC: two streams that share a small window,  *)
(* or one of them in more depth.                                             *)
EXTENDS FlowControl, TLC

CONSTANTS s1, s2

MCStreams == {s1, s2}
MCSymmetry == Permutations(MCStreams)

\* One stream goes as far as the constants allow while the other is not touched;
\* or both go on, with one byte and one credit less, and without Content-Length.
Untouched(s) == app[s] = "new" /\ strCredit[s] \in StreamInits /\ rst[s] = {}
Shallow(s) == accepted[s] < MaxBytes /\ strCredit[s] < MaxCredit /\ declared[s] = None

Bound ==
  \/ \E s \in Streams : \A t \in Streams \ {s} : Untouched(t)
  \/ connCredit < MaxCredit /\ \A s \in Streams : Shallow(s)
=============================================================================
