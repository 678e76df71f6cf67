------------------------------- MODULE CallPipe -------------------------------
(***************************************************************************)
(* What an HTTPConnection promises the application that writes its         *)
(* response: the calls arrive in the order in which they were made, each   *)
(* once, none before those made earlier, and all in one protocol.  It may  *)
(* hold them back as long as it likes.                                     *)
(***************************************************************************)
EXTENDS SequencesExt

VARIABLES
  made,         \* the calls of the application
  arrived       \* those that arrived, each with its protocol

Init == made = <<>> /\ arrived = <<>>

Call == IsPrefix(made, made') /\ Len(made') <= Len(made) + 1

Arrive ==
  /\ IsPrefix(arrived, arrived')
  /\ Len(arrived') <= Len(made')
  /\ \A i \in DOMAIN arrived' :
       arrived'[i].call = made'[i] /\ arrived'[i].via = arrived'[1].via

Next == Call /\ Arrive

Spec == Init /\ [][Next]_<<made, arrived>>
=============================================================================
