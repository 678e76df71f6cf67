------------------------------ MODULE HeaderPipe ------------------------------
(***************************************************************************)
(* What header compression promises: the header lists one end encodes come *)
(* out at the other end, all of them, unchanged and in order.              *)
(***************************************************************************)
EXTENDS Sequences

CONSTANT Lists      \* header lists

VARIABLES
  underway,         \* lists that were encoded and not yet decoded
  delivered         \* the last list that was decoded

Init == underway = <<>> /\ delivered = <<>>

Send ==
  /\ \E list \in Lists : underway' = Append(underway, list)
  /\ UNCHANGED delivered

Deliver ==
  /\ underway # <<>>
  /\ delivered' = Head(underway)
  /\ underway' = Tail(underway)

Spec == Init /\ [][Send \/ Deliver]_<<underway, delivered>>
=============================================================================
