----------------------------- MODULE MCReceiver -----------------------------
(* Instances of Receiver for TLC.  One stream, of a server or a client, goes *)
(* as far as the constants allow; or a server's streams all go on, that of   *)
(* an upgrade among them, with one byte less and without Content-Length;     *)
(* after an upgrade only stream 1, when it is alone, gets data.              *)
EXTENDS Receiver

Shallow(s) == stream[s].body < MaxBody /\ stream[s].remaining = None

Bound ==
  \/ known \subseteq {1}
  \/ ~isClient /\ \A s \in Ids : Shallow(s) /\ (upgraded => stream[s].body = 0)
=============================================================================
