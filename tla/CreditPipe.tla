------------------------------ MODULE CreditPipe ------------------------------
(***************************************************************************)
(* What the sender of a flow-controlled connection promises, as its peer   *)
(* sees it: the peer announces room, for every stream and for all streams  *)
(* together, and no DATA arrives that does not fit in both.  What arrives  *)
(* on a stream is what the application wrote, and END_STREAM comes after   *)
(* all of it, and after it nothing.                                        *)
(***************************************************************************)
EXTENDS Integers

CONSTANT Streams

VARIABLES
  backlog,      \* bytes the application wrote that have not arrived
  strRoom,      \* room the peer announced for each stream, less what arrived
  connRoom,     \* the same for the connection
  ended         \* END_STREAM arrived

pipe == <<backlog, strRoom, connRoom, ended>>

Init ==
  /\ backlog = [s \in Streams |-> 0]
  /\ strRoom \in [Streams -> Nat]
  /\ connRoom \in Nat
  /\ ended = [s \in Streams |-> FALSE]

\* The application hands over some bytes, or k of its bytes arrive, or both:
\* write() sends what the windows allow before it returns.
Transfer(s) ==
  /\ ~ended[s]
  /\ \E k \in 0 .. connRoom :
       /\ k <= strRoom[s]
       /\ backlog'[s] >= 0
       /\ backlog'[s] >= backlog[s] - k
       /\ backlog' = [backlog EXCEPT ![s] = backlog'[s]]
       /\ strRoom' = [strRoom EXCEPT ![s] = @ - k]
       /\ connRoom' = connRoom - k
  /\ UNCHANGED ended

End(s) ==
  /\ ~ended[s]
  /\ backlog[s] = 0
  /\ ended' = [ended EXCEPT ![s] = TRUE]
  /\ UNCHANGED <<backlog, strRoom, connRoom>>

Announce ==
  /\ connRoom' > connRoom
  /\ UNCHANGED <<backlog, strRoom, ended>>

AnnounceStream(s) ==
  /\ strRoom'[s] > strRoom[s]
  /\ strRoom' = [strRoom EXCEPT ![s] = strRoom'[s]]
  /\ UNCHANGED <<backlog, connRoom, ended>>

Next ==
  \/ Announce
  \/ \E s \in Streams : Transfer(s) \/ End(s) \/ AnnounceStream(s)

Spec == Init /\ [][Next]_pipe
=============================================================================
