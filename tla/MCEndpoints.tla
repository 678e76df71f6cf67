----------------------------- MODULE MCEndpoints -----------------------------
(* Instances of Endpoints for TLC.  One stream, with an end that is a client *)
(* or a server, goes as far as the constants allow; or the streams of a      *)
(* server share the connection, and nobody hangs up.  Both bounds restrict   *)
(* the applications and who hangs up, of which nothing is assumed.           *)
EXTENDS Endpoints

Shared ==
  /\ Connected /\ ~isClient
  /\ \A s \in Streams : declared[s] = None
  /\ MapThenSumSet(LAMBDA s : accepted[s], Streams) <= MaxBytes

Bound ==
  \/ \A s \in Streams \ {1} : app[s] = "new" /\ s \notin known
  \/ Shared
=============================================================================
