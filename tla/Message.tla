------------------------------- MODULE Message -------------------------------
(***************************************************************************)
(* What the receiving side of a stream promises the HTTPMessageDelegate it *)
(* serves: headers, then a body no longer than the headers announced, then *)
(* finish() with exactly what they announced.  Nothing comes after         *)
(* finish(), and on_connection_close() does not either.                    *)
(***************************************************************************)
EXTENDS Integers

CONSTANTS
  Ids,          \* streams
  None          \* no length was announced

VARIABLES
  told,         \* the last call of the delegate: "nothing", "headers", "finish"
  declared,     \* the length the headers announced
  got,          \* bytes given to data_received()
  hung          \* on_connection_close() was called

message == <<told, declared, got, hung>>

Init ==
  /\ told = [s \in Ids |-> "nothing"]
  /\ declared = [s \in Ids |-> None]
  /\ got = [s \in Ids |-> 0]
  /\ hung = [s \in Ids |-> FALSE]

\* Several headers may precede the body: those of interim responses.
Headers(s) ==
  /\ told[s] # "finish"
  /\ got[s] = 0
  /\ told' = [told EXCEPT ![s] = "headers"]
  /\ declared' = [declared EXCEPT ![s] = declared'[s]]
  /\ UNCHANGED got

Data(s) ==
  /\ told[s] = "headers"
  /\ got'[s] > got[s]
  /\ declared[s] # None => got'[s] <= declared[s]
  /\ got' = [got EXCEPT ![s] = got'[s]]
  /\ UNCHANGED declared

\* The frame that ends the message may bring the headers or the last data.
Finish(s) ==
  /\ told[s] # "finish"
  /\ told' = [told EXCEPT ![s] = "finish"]
  /\ \/ declared' = declared
     \/ got[s] = 0 /\ declared' = [declared EXCEPT ![s] = declared'[s]]
  /\ \/ got' = got
     \/ told[s] = "headers" /\ got'[s] > got[s] /\ got' = [got EXCEPT ![s] = got'[s]]
  /\ declared'[s] \in {None, got'[s]}

\* A header block that is too large is answered while it still arrives, so that
\* the call may come together with those above.
HangUp(s) ==
  /\ told[s] # "finish"
  /\ hung' = [hung EXCEPT ![s] = TRUE]

Next ==
  \E s \in Ids :
    \/ (Headers(s) \/ Data(s) \/ Finish(s)) /\ (UNCHANGED hung \/ HangUp(s))
    \/ HangUp(s) /\ UNCHANGED <<told, declared, got>>

Spec == Init /\ [][Next]_message
=============================================================================
