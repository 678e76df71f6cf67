---------------------------- MODULE Upgrade_proofs ----------------------------
(***************************************************************************)
(* Theorems about Upgrade, for every number of calls: the server keeps     *)
(* track of its open connections, and the application's calls arrive in    *)
(* order, once, and in one protocol.                                       *)
(*                                                                         *)
(* The second needs to know what the _UpgradingConnection holds: until the *)
(* protocols are switched nothing has arrived and the calls held back are  *)
(* the calls made, in their order (Held).  They are kept in three places,  *)
(* written_headers, written_chunks and write_finished; what keeps them in  *)
(* order is that nothing follows finish() (MayFollow).                     *)
(***************************************************************************)
EXTENDS Upgrade, Sums

ACall == [op : Ops, n : 1 .. MaxCalls]
Arrival == [call : ACall, via : {"http1", "http2"}]

Types ==
  /\ TypeOK
  /\ made \in Seq(ACall)
  /\ arrived \in Seq(Arrival)

\* Where the two serving loops stand, and which connections the server knows.
Serving ==
  /\ detect # "done" => loop1 = "none" /\ loop2 = "none" /\ stream = "none" /\ conns = {}
  /\ loop1 \in {"headers", "body", "response"} => loop2 = "none"
  /\ loop1 = "detached" /\ open => "http2" \in conns
  /\ ConnectionsAreTracked

\* How far the switch is, and what the application knows of it.  The request is one of
\* HTTP/1 or of HTTP/2.
Stage ==
  /\ stream # "none" => loop1 = "none"
  /\ loop1 \in {"none", "headers"} /\ stream = "none" => told = "nothing"
  /\ loop1 \in {"none", "headers", "body", "response"} /\ stream # "complete" => switch = "no"
  /\ told = "nothing" => made = <<>> /\ ~upgrading /\ switch = "no"
  /\ switch \in {"waiting", "granted"} => upgrading /\ conn = "http2"

\* The first calls have arrived through via, in their order.
Faithful(via) ==
  /\ Len(arrived) <= Len(made)
  /\ \A i \in 1 .. Len(arrived) : arrived[i] = [call |-> made[i], via |-> via]

Held ==
  /\ ~upgrading => Faithful(conn) /\ Len(arrived) = Len(made)
  /\ ~upgrading /\ switch = "no" => headers = <<>> /\ chunks = <<>> /\ finished = <<>>
  /\ upgrading /\ switch # "failed" => arrived = <<>> /\ Buffered = made
  /\ upgrading /\ switch = "failed" => Faithful("http2")

IInv == Types /\ Serving /\ Stage /\ Held

Seen == <<made, arrived>>
-----------------------------------------------------------------------------
(* Sequences.                                                              *)

LEMMA PrefixIntro ==
  ASSUME NEW S, NEW s \in Seq(S), NEW t \in Seq(S), Len(s) <= Len(t),
         \A i \in 1 .. Len(s) : s[i] = t[i]
  PROVE  IsPrefix(s, t)
<1> DEFINE u == SubSeq(t, 1, Len(s))
<1>1. Len(s) \in Nat /\ Len(t) \in Nat /\ \A i \in 1 .. Len(s) : t[i] \in S
  OBVIOUS
<1>2. SubSeq(s, 1, Len(s)) = s
  BY SubSeqFull
<1>3. /\ u \in Seq(S) /\ Len(u) = Len(s)
      /\ \A i \in 1 .. Len(s) : u[i] = s[i]
  <2>1. /\ u \in Seq(S)
        /\ Len(u) = IF 1 <= Len(s) THEN Len(s) - 1 + 1 ELSE 0
        /\ \A i \in 1 .. Len(s) - 1 + 1 : u[i] = t[1 + i - 1]
    <3>1. 1 \in Int /\ Len(s) \in Int /\ \A i \in 1 .. Len(s) : t[i] \in S
      BY <1>1
    <3> QED
      BY <3>1, SubSeqProperties
  <2> HIDE DEF u
  <2>2. Len(u) = Len(s)
    BY <1>1, <2>1
  <2>3. ASSUME NEW i \in 1 .. Len(s) PROVE u[i] = s[i]
    <3>1. i \in 1 .. Len(s) - 1 + 1 /\ 1 + i - 1 = i
      BY <1>1
    <3> QED
      BY <2>1, <3>1
  <2> QED
    BY <2>1, <2>2, <2>3
<1>4. u = s
  <2> HIDE DEF u
  <2> QED
    BY <1>3, SeqEqual
<1> QED
  BY <1>2, <1>4 DEF IsPrefix

LEMMA OneElement ==
  ASSUME NEW E, NEW q \in Seq(E), Len(q) <= 1, q # <<>>
  PROVE  Len(q) = 1 /\ q[1] \in E
<1>1. Len(q) \in Nat /\ Len(q) # 0
  OBVIOUS
<1>2. Len(q) = 1
  BY <1>1
<1> QED
  BY <1>2, ElementOfSeq

\* A call handed over reaches the connection it is handed to.
LEMMA ArrivedIs ==
  ASSUME NEW q \in Seq(ACall), NEW via \in {"http1", "http2"}
  PROVE  /\ Arrived(q, via) \in Seq(Arrival)
         /\ Len(Arrived(q, via)) = Len(q)
         /\ \A i \in 1 .. Len(q) : Arrived(q, via)[i] = [call |-> q[i], via |-> via]
<1> DEFINE e(i) == [call |-> q[i], via |-> via]
<1>1. Len(q) \in Nat /\ DOMAIN q = 1 .. Len(q) /\ \A i \in 1 .. Len(q) : q[i] \in ACall
  BY LenProperties
<1>2. \A i \in 1 .. Len(q) : e(i) \in Arrival
  BY <1>1 DEF Arrival
<1>3. Arrived(q, via) = [i \in 1 .. Len(q) |-> e(i)]
  BY <1>1 DEF Arrived
<1> HIDE DEF e
<1>4. Arrived(q, via) \in Seq(Arrival)
  <2>1. [i \in 1 .. Len(q) |-> e(i)] \in Seq(Arrival)
    BY <1>1, <1>2, IsASeq
  <2> QED
    BY <1>3, <2>1
<1>5. Len(Arrived(q, via)) = Len(q)
  BY <1>1, <1>3
<1> QED
  BY <1>3, <1>4, <1>5 DEF e

\* The calls that are held back, in the order of the replay.
LEMMA BufferedType ==
  ASSUME Types
  PROVE  /\ Buffered \in Seq(ACall)
         /\ headers \in Seq(ACall) /\ chunks \in Seq(ACall) /\ finished \in Seq(ACall)
         /\ Len(Buffered) = Len(headers) + Len(chunks) + Len(finished)
<1>1. headers \in Seq(ACall) /\ chunks \in Seq(ACall) /\ finished \in Seq(ACall)
  <2>1. \A ops \in SUBSET Ops : [op : ops, n : 1 .. MaxCalls] \subseteq ACall
    BY DEF ACall
  <2>2. /\ [op : {"headers"}, n : 1 .. MaxCalls] \subseteq ACall
        /\ [op : {"chunk", "excess"}, n : 1 .. MaxCalls] \subseteq ACall
        /\ [op : {"finish", "short"}, n : 1 .. MaxCalls] \subseteq ACall
    BY <2>1 DEF Ops
  <2> QED
    BY <2>2, SeqMonotonic DEF Types, TypeOK, CallsOf
<1>2. headers \o chunks \in Seq(ACall) /\ Len(headers \o chunks) = Len(headers) + Len(chunks)
  BY <1>1
<1> QED
  BY <1>1, <1>2 DEF Buffered

LEMMA FirstRaisedIs ==
  ASSUME Types
  PROVE  FirstRaised \in 0 .. Len(Buffered)
<1> DEFINE n == Len(Buffered)
           I == {i \in 1 .. n : Raises(Buffered[i])}
<1>1. n \in Nat
  BY BufferedType
<1>2. FirstRaised = IF I # {} THEN Min(I) ELSE 0
  BY DEF FirstRaised, SelectInSeq
<1>3. I # {} => Min(I) \in I
  <2>1. I \in SUBSET (1 .. n)
    OBVIOUS
  <2> HIDE DEF I, n
  <2>2. I # {} => \E k \in I : \A j \in I : k <= j
    BY <1>1, <2>1, LeastNumber
  <2> QED
    BY <2>2 DEF Min
<1> HIDE DEF n
<1> QED
  BY <1>1, <1>2, <1>3 DEF n
-----------------------------------------------------------------------------
(* The switch and the calls.                                               *)

\* A step that touches neither the calls nor the switch keeps what is held back.
CallsAlone == UNCHANGED <<upgrading, conn, headers, chunks, finished, made, arrived>>

LEMMA HeldKept ==
  ASSUME Held, CallsAlone, switch' = switch \/ (switch = "waiting" /\ switch' = "granted")
  PROVE  Held'
<1>1. UNCHANGED <<upgrading, conn, headers, chunks, finished, made, arrived>> /\ Buffered' = Buffered
  BY DEF CallsAlone, Buffered
<1>2. (switch' = "failed" <=> switch = "failed") /\ (switch' = "no" <=> switch = "no")
  OBVIOUS
<1>3. \A via : Faithful(via)' = Faithful(via)
  BY <1>1 DEF Faithful
<1> QED
  BY <1>1, <1>2, <1>3 DEF Held

\* When the protocols are switched the first calls, or all of them, arrive at once.
LEMMA ReplayStep ==
  ASSUME Types, Held, upgrading, switch # "failed", conn' = "http2", made' = made,
         UNCHANGED buffer, Replay
  PROVE  /\ Held'
         /\ arrived = <<>>
         /\ arrived' \in Seq(Arrival)
         /\ Faithful("http2")'
         /\ switch' \in {"done", "failed"}
         /\ upgrading' \in BOOLEAN
         /\ told' \in {told, "finish"}
<1> DEFINE n == FirstRaised
           q == Buffered
<1>1. /\ arrived = <<>> /\ q = made /\ q \in Seq(ACall) /\ n \in 0 .. Len(q)
      /\ Len(q) \in Nat /\ upgrading \in BOOLEAN
  BY BufferedType, FirstRaisedIs DEF Held, Types, TypeOK
<1>2. ASSUME NEW calls \in Seq(ACall), Len(calls) <= Len(made),
             \A i \in 1 .. Len(calls) : calls[i] = made[i],
             arrived' = arrived \o Arrived(calls, "http2")
      PROVE  /\ arrived' \in Seq(Arrival) /\ Faithful("http2")'
             /\ Len(arrived') = Len(calls)
  <2> DEFINE r == Arrived(calls, "http2")
  <2>1. /\ r \in Seq(Arrival) /\ Len(r) = Len(calls)
        /\ \A i \in 1 .. Len(calls) : r[i] = [call |-> calls[i], via |-> "http2"]
    BY <1>2, ArrivedIs
  <2> HIDE DEF r
  <2>2. arrived' = r
    BY <1>1, <1>2, <2>1, ConcatEmptySeq DEF r
  <2> QED
    BY <1>2, <2>1, <2>2 DEF Faithful
<1>3. CASE /\ arrived' = arrived \o Arrived(Buffered, "http2")
           /\ upgrading' = FALSE /\ switch' = "done" /\ told' = "finish"
  <2>1. /\ arrived' \in Seq(Arrival) /\ Faithful("http2")' /\ Len(arrived') = Len(made)
    BY <1>1, <1>2, <1>3
  <2>2. Held'
    BY <1>3, <2>1 DEF Held
  <2> QED
    BY <1>1, <1>3, <2>1, <2>2
<1>4. CASE /\ arrived' = arrived \o
                Arrived(IF FirstRaised = 0 THEN Buffered ELSE SubSeq(Buffered, 1, FirstRaised),
                        "http2")
           /\ switch' = "failed" /\ UNCHANGED <<upgrading, told>>
  <2> DEFINE calls == IF n = 0 THEN q ELSE SubSeq(q, 1, n)
  <2>1. /\ calls \in Seq(ACall) /\ Len(calls) <= Len(made)
        /\ \A i \in 1 .. Len(calls) : calls[i] = made[i]
    <3>1. CASE n = 0
      BY <1>1, <3>1
    <3>2. CASE n # 0
      <4> DEFINE u == SubSeq(q, 1, n)
      <4> HIDE DEF q, n
      <4>1. n \in Int /\ 1 <= n /\ n <= Len(q) /\ \A i \in 1 .. n : q[i] \in ACall
        BY <1>1, <3>2
      <4>2. /\ u \in Seq(ACall)
            /\ Len(u) = IF 1 <= n THEN n - 1 + 1 ELSE 0
            /\ \A i \in 1 .. n - 1 + 1 : u[i] = q[1 + i - 1]
        BY <4>1, SubSeqProperties
      <4> HIDE DEF u
      <4>3. Len(u) = n /\ Len(u) <= Len(made)
        BY <1>1, <4>1, <4>2
      <4>4. ASSUME NEW i \in 1 .. Len(u) PROVE u[i] = made[i]
        <5>1. i \in 1 .. n - 1 + 1 /\ 1 + i - 1 = i
          BY <4>1, <4>3
        <5> QED
          BY <1>1, <4>2, <5>1
      <4> QED
        BY <3>2, <4>2, <4>3, <4>4 DEF u
    <3> QED
      BY <3>1, <3>2
  <2>2. arrived' = arrived \o Arrived(calls, "http2")
    BY <1>4
  <2> HIDE DEF calls, n, q
  <2>3. arrived' \in Seq(Arrival) /\ Faithful("http2")'
    BY <1>2, <2>1, <2>2
  <2>4. Held'
    BY <1>1, <1>4, <2>3 DEF Held
  <2> QED
    BY <1>1, <1>4, <2>3, <2>4
<1> QED
  BY <1>3, <1>4 DEF Replay

\* A call made now follows those made before, whether it is passed on or held back.
LEMMA AppCallStep ==
  ASSUME IInv, NEW op \in Ops, AppCall(op)
  PROVE  /\ Held'
         /\ made' \in Seq(ACall) /\ arrived' \in Seq(Arrival)
         /\ headers' \in CallsOf({"headers"}) /\ Len(headers') <= 1
         /\ chunks' \in CallsOf({"chunk", "excess"})
         /\ finished' \in CallsOf({"finish", "short"}) /\ Len(finished') <= 1
         /\ IsPrefix(made, made') /\ Len(made') <= Len(made) + 1
         /\ IsPrefix(arrived, arrived')
<1> DEFINE call == [op |-> op, n |-> Len(made) + 1]
<1>1. /\ Types /\ Held /\ made \in Seq(ACall) /\ arrived \in Seq(Arrival)
      /\ Len(made) \in Nat /\ Len(arrived) \in Nat /\ conn \in {"http1", "http2"}
      /\ headers \in CallsOf({"headers"}) /\ Len(headers) <= 1
      /\ chunks \in CallsOf({"chunk", "excess"})
      /\ finished \in CallsOf({"finish", "short"}) /\ Len(finished) <= 1
  BY DEF IInv, Types, TypeOK
<1>2. /\ Len(made) + 1 \in 1 .. MaxCalls /\ MayFollow(op) /\ made' = Append(made, call)
      /\ switch' = switch /\ conn' = conn /\ upgrading' = upgrading
  BY <1>1, ConstantsAssumption DEF AppCall
<1>3. call \in ACall
  BY <1>2 DEF ACall
<1>4. /\ made' \in Seq(ACall) /\ Len(made') = Len(made) + 1
      /\ \A i \in 1 .. Len(made) : made'[i] = made[i]
      /\ made'[Len(made) + 1] = call
  <2> HIDE DEF call
  <2> QED
    BY <1>1, <1>2, <1>3, AppendProperties
<1>5. IsPrefix(made, made') /\ Len(made') <= Len(made) + 1
  BY <1>1, <1>4, PrefixIntro
<1>6. CASE /\ ~upgrading
           /\ arrived' = arrived \o Arrived(<<call>>, conn)
           /\ UNCHANGED <<headers, chunks, finished>>
  <2> DEFINE r == Arrived(<<call>>, conn)
  <2>1. /\ r \in Seq(Arrival) /\ Len(r) = 1
        /\ r[1] = [call |-> call, via |-> conn]
    <3> HIDE DEF call
    <3> DEFINE one == <<call>>
    <3>1. one \in Seq(ACall) /\ Len(one) = 1 /\ one[1] = call
      BY <1>3
    <3> HIDE DEF one
    <3>2. /\ Arrived(one, conn) \in Seq(Arrival) /\ Len(Arrived(one, conn)) = Len(one)
          /\ \A i \in 1 .. Len(one) : Arrived(one, conn)[i] = [call |-> one[i], via |-> conn]
      BY <1>1, <3>1, ArrivedIs
    <3> QED
      BY <3>1, <3>2 DEF one
  <2>2. Faithful(conn) /\ Len(arrived) = Len(made)
    BY <1>1, <1>6 DEF Held
  <2> HIDE DEF r, call
  <2>3. arrived' = arrived \o r
    BY <1>6 DEF r
  <2>4. /\ arrived' \in Seq(Arrival) /\ Len(arrived') = Len(arrived) + 1
        /\ \A i \in 1 .. Len(arrived) : arrived'[i] = arrived[i]
        /\ arrived'[Len(arrived) + 1] = r[1]
    <3>1. /\ arrived \o r \in Seq(Arrival)
          /\ Len(arrived \o r) = Len(arrived) + Len(r)
          /\ \A i \in 1 .. Len(arrived) + Len(r) : (arrived \o r)[i] =
               IF i <= Len(arrived) THEN arrived[i] ELSE r[i - Len(arrived)]
      BY <1>1, <2>1, ConcatProperties
    <3>2. Len(arrived') = Len(arrived) + 1
      BY <2>1, <2>3, <3>1
    <3>3. \A i \in 1 .. Len(arrived) : arrived'[i] = arrived[i]
      BY <1>1, <2>1, <2>3, <3>1
    <3>4. arrived'[Len(arrived) + 1] = r[1]
      BY <1>1, <2>1, <2>3, <3>1
    <3> QED
      BY <2>3, <3>1, <3>2, <3>3, <3>4
  <2>5. IsPrefix(arrived, arrived')
    BY <1>1, <2>4, PrefixIntro
  <2>6. Faithful(conn)' /\ Len(arrived') = Len(made')
    <3>1. Len(arrived') = Len(made')
      BY <1>4, <2>2, <2>4
    <3>2. ASSUME NEW i \in 1 .. Len(arrived')
          PROVE  arrived'[i] = [call |-> made'[i], via |-> conn]
      <4>1. CASE i \in 1 .. Len(arrived)
        BY <1>4, <2>2, <2>4, <4>1 DEF Faithful
      <4>2. CASE i = Len(arrived) + 1
        BY <1>4, <2>1, <2>2, <2>4, <4>2
      <4> QED
        BY <1>1, <2>4, <4>1, <4>2
    <3> QED
      BY <1>1, <1>2, <1>4, <3>1, <3>2 DEF Faithful
  <2>7. Held'
    BY <1>1, <1>2, <1>6, <2>6 DEF Held
  <2> QED
    BY <1>1, <1>4, <1>5, <1>6, <2>4, <2>5, <2>7
<1>7. CASE /\ upgrading
           /\ headers' = IF op = "headers" THEN <<call>> ELSE headers
           /\ chunks' = IF op \in {"chunk", "excess"} THEN Append(chunks, call) ELSE chunks
           /\ finished' = IF op \in {"finish", "short"} THEN <<call>> ELSE finished
           /\ UNCHANGED arrived
  <2>1. call.op = op /\ call \in [op : {op}, n : 1 .. MaxCalls]
    BY <1>2
  <2>2. /\ headers' \in CallsOf({"headers"}) /\ Len(headers') <= 1
        /\ chunks' \in CallsOf({"chunk", "excess"})
        /\ finished' \in CallsOf({"finish", "short"}) /\ Len(finished') <= 1
    <3>1. /\ op = "headers" => call \in [op : {"headers"}, n : 1 .. MaxCalls]
          /\ op \in {"chunk", "excess"} => call \in [op : {"chunk", "excess"}, n : 1 .. MaxCalls]
          /\ op \in {"finish", "short"} => call \in [op : {"finish", "short"}, n : 1 .. MaxCalls]
      BY <1>2
    <3> DEFINE one == <<call>>
               A == [op : {"headers"}, n : 1 .. MaxCalls]
               B == [op : {"chunk", "excess"}, n : 1 .. MaxCalls]
               C == [op : {"finish", "short"}, n : 1 .. MaxCalls]
    <3>2. headers \in Seq(A) /\ chunks \in Seq(B) /\ finished \in Seq(C)
      BY <1>1 DEF CallsOf
    <3>3. /\ headers' = IF op = "headers" THEN one ELSE headers
          /\ chunks' = IF op \in {"chunk", "excess"} THEN Append(chunks, call) ELSE chunks
          /\ finished' = IF op \in {"finish", "short"} THEN one ELSE finished
      BY <1>7
    <3> HIDE DEF call, A, B, C
    <3>4. /\ op = "headers" => one \in Seq(A)
          /\ op \in {"finish", "short"} => one \in Seq(C)
          /\ Len(one) = 1
          /\ op \in {"chunk", "excess"} => Append(chunks, call) \in Seq(B)
      BY <3>1, <3>2 DEF A, B, C
    <3> HIDE DEF one
    <3>5. headers' \in Seq(A) /\ chunks' \in Seq(B) /\ finished' \in Seq(C)
      BY <3>2, <3>3, <3>4
    <3>6. Len(headers') <= 1 /\ Len(finished') <= 1
      <4>1. headers' \in {one, headers} /\ finished' \in {one, finished}
        BY <3>3
      <4>2. Len(one) <= 1 /\ Len(headers) <= 1 /\ Len(finished) <= 1
        BY <1>1, <3>4
      <4> QED
        BY <4>1, <4>2, Zenon
    <3> QED
      BY <3>5, <3>6 DEF CallsOf, A, B, C
  <2>3. IsPrefix(arrived, arrived') /\ arrived' \in Seq(Arrival)
    <3>1. IsPrefix(arrived, arrived)
      BY <1>1, PrefixIntro
    <3> QED
      BY <1>1, <1>7, <3>1
  <2>4. CASE switch = "failed"
    <3>1. Faithful("http2")
      BY <1>1, <1>7, <2>4 DEF Held
    <3>2. Faithful("http2")'
      <4>1. Len(arrived') <= Len(made')
        BY <1>1, <1>4, <1>7, <3>1 DEF Faithful
      <4>2. ASSUME NEW i \in 1 .. Len(arrived')
            PROVE  arrived'[i] = [call |-> made'[i], via |-> "http2"]
        <5>1. i \in 1 .. Len(made) /\ i \in 1 .. Len(arrived)
          BY <1>1, <1>7, <3>1 DEF Faithful
        <5>2. made'[i] = made[i] /\ arrived'[i] = arrived[i]
          BY <1>4, <1>7, <5>1
        <5> QED
          BY <3>1, <5>1, <5>2 DEF Faithful
      <4> QED
        BY <4>1, <4>2 DEF Faithful
    <3>3. Held'
      BY <1>2, <1>7, <2>4, <3>2 DEF Held
    <3> QED
      BY <1>4, <1>5, <2>2, <2>3, <3>3
  <2>5. CASE switch # "failed"
    <3>1. arrived = <<>> /\ Buffered = made
      BY <1>1, <1>7, <2>5 DEF Held
    <3>2. /\ headers \in Seq(ACall) /\ chunks \in Seq(ACall) /\ finished \in Seq(ACall)
          /\ Len(made) = Len(headers) + Len(chunks) + Len(finished)
      BY <1>1, <3>1, BufferedType
    <3>3. Len(headers) \in Nat /\ Len(chunks) \in Nat /\ Len(finished) \in Nat
          /\ headers \o chunks \in Seq(ACall)
      BY <3>2
    <3> HIDE DEF call
    <3>4. Buffered' = made'
      <4>1. CASE made = <<>>
        <5>1. op = "headers"
          BY <1>2, <4>1 DEF MayFollow
        <5>2. Len(made) = 0
          BY <4>1
        <5>3. headers = <<>> /\ chunks = <<>> /\ finished = <<>>
          <6> DEFINE a == Len(headers)
                     b == Len(chunks)
                     c == Len(finished)
          <6>1. a = 0 /\ b = 0 /\ c = 0
            <7>1. a \in Nat /\ b \in Nat /\ c \in Nat /\ a + b + c = 0
              BY <3>2, <3>3, <5>2
            <7> HIDE DEF a, b, c
            <7> QED
              BY <7>1
          <6> QED
            BY <3>2, <6>1
        <5>4. headers' = <<call>> /\ chunks' = <<>> /\ finished' = <<>>
          BY <1>7, <5>1, <5>3
        <5>5. made' = <<call>>
          BY <1>2, <4>1
        <5> QED
          BY <1>3, <5>4, <5>5 DEF Buffered
      <4>2. CASE made # <<>>
        <5>1. op # "headers" /\ made[Len(made)].op \notin {"finish", "short"}
          BY <1>2, <4>2 DEF MayFollow, Last
        <5>2. finished = <<>>
          <6>1. ASSUME finished # <<>> PROVE FALSE
            <7>1. Len(finished) = 1 /\ finished[1].op \in {"finish", "short"}
              <8>1. finished \in Seq([op : {"finish", "short"}, n : 1 .. MaxCalls])
                    /\ Len(finished) <= 1
                BY <1>1 DEF CallsOf
              <8>2. Len(finished) = 1
                    /\ finished[1] \in [op : {"finish", "short"}, n : 1 .. MaxCalls]
                BY <6>1, <8>1, OneElement
              <8> QED
                BY <8>2
            <7>2. Len(made) = Len(headers \o chunks) + 1
              BY <3>2, <3>3, <7>1
            <7>3. made[Len(made)] = finished[1]
              BY <3>1, <3>2, <3>3, <7>1, <7>2, ConcatProperties DEF Buffered
            <7> QED
              BY <5>1, <7>1, <7>3
          <6> QED
            BY <6>1
        <5>3. made = headers \o chunks /\ headers' = headers
          BY <1>7, <3>1, <3>3, <5>1, <5>2, ConcatEmptySeq DEF Buffered
        <5>4. CASE op \in {"chunk", "excess"}
          <6>1. chunks' = Append(chunks, call) /\ finished' = <<>>
            BY <1>7, <5>2, <5>4
          <6>2. headers \o Append(chunks, call) = Append(headers \o chunks, call)
            BY <1>3, <3>2
          <6>3. headers \o Append(chunks, call) \in Seq(ACall)
            BY <1>3, <3>2
          <6> QED
            BY <1>2, <5>3, <6>1, <6>2, <6>3, ConcatEmptySeq DEF Buffered
        <5>5. CASE op \in {"finish", "short"}
          <6>1. chunks' = chunks /\ finished' = <<call>>
            BY <1>7, <5>5
          <6>2. (headers \o chunks) \o <<call>> = Append(headers \o chunks, call)
            BY <1>3, <3>3, AppendIsConcat
          <6> QED
            BY <1>2, <5>3, <6>1, <6>2 DEF Buffered
        <5> QED
          BY <5>1, <5>4, <5>5 DEF Ops
      <4> QED
        BY <4>1, <4>2
    <3>5. Held'
      BY <1>2, <1>7, <2>5, <3>1, <3>4 DEF Held
    <3> QED
      BY <1>4, <1>5, <2>2, <2>3, <3>5
  <2> QED
    BY <2>4, <2>5
<1> QED
  BY <1>6, <1>7 DEF AppCall
-----------------------------------------------------------------------------
(* The invariant.  Every step shows on the histories as a step of CallPipe. *)

StepResult == IInv' /\ [Application!Next]_Seen

\* All steps but the application's and the replay leave the calls alone.
LEMMA QuietStep ==
  ASSUME IInv, CallsAlone, limits' \in BOOLEAN,
         switch' = switch \/ (switch = "waiting" /\ switch' = "granted"),
         detect' \in {"handshake", "firstLine", "done"}, open' \in BOOLEAN,
         loop1' \in {"none", "headers", "body", "response", "detached", "ended"},
         loop2' \in {"none", "preface", "reading", "goaway", "ended"},
         conns' \subseteq {"http1", "http2"},
         stream' = stream \/ (stream = "body" /\ stream' = "complete"),
         told' \in {"nothing", "headers", "finish", "closed"},
         told' = "nothing" => told = "nothing",
         stream # "none" => loop1' = loop1,
         loop1' \in {"none", "headers"} =>
           loop1 \in {"none", "headers"} /\ (stream # "none" \/ told' = told),
         loop1' \in {"body", "response"} => loop1 \in {"body", "response"},
         Serving'
  PROVE  StepResult
<1>1. Held'
  BY HeldKept DEF IInv
<1>2. Stage'
  BY DEF IInv, Stage, CallsAlone
<1>3. Types'
  BY DEF IInv, Types, TypeOK, CallsAlone
<1>4. UNCHANGED Seen
  BY DEF CallsAlone, Seen
<1> QED
  BY <1>1, <1>2, <1>3, <1>4 DEF StepResult, IInv

LEMMA HeadersReceivedStep ==
  ASSUME IInv, HeadersReceived
  PROVE  StepResult
<1>1. /\ told' = "headers" /\ upgrading' \in BOOLEAN
      /\ UNCHANGED <<detect, open, loop2, conns, switch, headers, chunks, finished, limits,
                     made, arrived>>
      /\ \/ loop1 = "headers" /\ loop1' = "body" /\ UNCHANGED <<stream, conn>>
         \/ /\ loop1 = "none" /\ loop1' = "none" /\ loop2 = "reading"
            /\ stream = "none" /\ stream' = "body" /\ conn' = "http2"
  BY DEF HeadersReceived, buffer
<1>2. made = <<>> /\ ~upgrading /\ switch = "no"
  BY <1>1 DEF IInv, Stage
<1>3. arrived = <<>> /\ Buffered = <<>>
  <2>1. arrived \in Seq(Arrival) /\ Len(arrived) = Len(made)
    BY <1>2 DEF IInv, Types, Held
  <2>2. arrived = <<>>
    BY <1>2, <2>1
  <2>3. headers = <<>> /\ chunks = <<>> /\ finished = <<>>
    BY <1>2 DEF IInv, Held
  <2> QED
    BY <2>2, <2>3 DEF Buffered
<1>4. Held'
  <2>1. Buffered' = Buffered
    BY <1>1 DEF Buffered
  <2>2. \A via : Faithful(via)'
    BY <1>1, <1>2, <1>3 DEF Faithful
  <2> QED
    BY <1>1, <1>2, <1>3, <2>1, <2>2 DEF IInv, Held
<1>5. Types'
  BY <1>1 DEF IInv, Types, TypeOK
<1>6. Serving' /\ Stage'
  BY <1>1, <1>2 DEF IInv, Serving, ConnectionsAreTracked, Stage
<1> QED
  BY <1>1, <1>4, <1>5, <1>6 DEF StepResult, IInv, Seen

\* What arrives at once, when nothing had, is a prefix of what was made.
LEMMA ReplayIsPipe ==
  ASSUME Types, Types', arrived = <<>>, made' = made, Faithful("http2")'
  PROVE  Application!Next
<1>1. /\ made \in Seq(ACall) /\ arrived \in Seq(Arrival) /\ arrived' \in Seq(Arrival)
      /\ Len(arrived) = 0 /\ Len(arrived') \in Nat /\ Len(made) \in Nat
      /\ DOMAIN arrived' = 1 .. Len(arrived')
  BY DEF Types
<1>2. IsPrefix(made, made') /\ Len(made') <= Len(made) + 1
  BY <1>1, PrefixIntro
<1>3. IsPrefix(arrived, arrived')
  <2>1. Len(arrived) <= Len(arrived') /\ \A i \in 1 .. Len(arrived) : arrived[i] = arrived'[i]
    BY <1>1
  <2> QED
    BY <1>1, <2>1, PrefixIntro
<1>4. /\ Len(arrived') <= Len(made')
      /\ \A i \in DOMAIN arrived' :
           arrived'[i].call = made'[i] /\ arrived'[i].via = arrived'[1].via
  BY <1>1 DEF Faithful
<1> QED
  BY <1>2, <1>3, <1>4
  DEF Application!Next, Application!Call, Application!Arrive, Application!IsPrefix, IsPrefix

LEMMA SwitchStep ==
  ASSUME IInv, upgrading, loop1 = "body", SwitchProtocols,
         UNCHANGED <<detect, stream, buffer, made>>
  PROVE  StepResult
<1>1. /\ Types /\ Serving /\ Stage /\ Held /\ switch = "no" /\ loop2 = "none"
      /\ "http2" \notin conns /\ loop1' = "detached" /\ detect = "done"
      /\ told # "nothing" /\ stream = "none"
  BY DEF IInv, Serving, ConnectionsAreTracked, Stage, SwitchProtocols
<1>2. UNCHANGED <<detect, stream, headers, chunks, finished, limits, made>>
  BY DEF buffer
<1>3. ASSUME ~open, switch' = "failed",
             UNCHANGED <<open, loop2, conns, upgrading, conn, told, arrived>>
      PROVE  StepResult
  <2>1. arrived = <<>>
    BY <1>1 DEF Held
  <2>2. Faithful("http2")'
    BY <1>1, <1>2, <1>3, <2>1 DEF Faithful, Types
  <2>3. Held' /\ Types'
    BY <1>1, <1>2, <1>3, <2>2 DEF Held, Types, TypeOK
  <2>4. Serving' /\ Stage'
    BY <1>1, <1>2, <1>3 DEF Serving, ConnectionsAreTracked, Stage
  <2> QED
    BY <1>2, <1>3, <2>3, <2>4 DEF StepResult, IInv, Seen
<1>4. ASSUME NEW outcome \in {"preface", "reading", "goaway", "ended"}, Started(outcome)
      PROVE  /\ Serving' /\ loop2' = outcome /\ open' \in BOOLEAN
             /\ conns' \subseteq {"http1", "http2"}
  <2>1. /\ loop2' = outcome /\ (open' <=> outcome # "ended") /\ open' \in BOOLEAN
        /\ conns' = IF outcome = "ended" THEN conns ELSE conns \cup {"http2"}
    BY <1>4 DEF Started
  <2>2. conns' \subseteq {"http1", "http2"}
    BY <1>1, <2>1 DEF Types, TypeOK
  <2> QED
    BY <1>1, <1>2, <2>1, <2>2 DEF Serving, ConnectionsAreTracked
<1>5. ASSUME conn' = "http2", Started("preface") \/ Started("ended"), switch' = "waiting",
             UNCHANGED <<upgrading, told, arrived>>
      PROVE  StepResult
  <2>1. /\ Serving' /\ open' \in BOOLEAN /\ conns' \subseteq {"http1", "http2"}
        /\ loop2' \in {"preface", "ended"}
    BY <1>4, <1>5
  <2>2. Buffered' = Buffered
    BY <1>2 DEF Buffered
  <2>3. Held' /\ Types'
    BY <1>1, <1>2, <1>5, <2>1, <2>2 DEF Held, Types, TypeOK
  <2>4. Stage'
    BY <1>1, <1>2, <1>5 DEF Stage
  <2> QED
    BY <1>2, <1>5, <2>1, <2>3, <2>4 DEF StepResult, IInv, Seen
<1>6. ASSUME conn' = "http2", Started("reading") \/ Started("goaway") \/ Started("ended"), Replay
      PROVE  StepResult
  <2>1. /\ Serving' /\ open' \in BOOLEAN /\ conns' \subseteq {"http1", "http2"}
        /\ loop2' \in {"reading", "goaway", "ended"}
    BY <1>4, <1>6
  <2>2. /\ Held' /\ arrived = <<>> /\ arrived' \in Seq(Arrival) /\ Faithful("http2")'
        /\ switch' \in {"done", "failed"} /\ upgrading' \in BOOLEAN /\ told' \in {told, "finish"}
    BY <1>1, <1>2, <1>6, ReplayStep
  <2>3. Types'
    BY <1>1, <1>2, <1>6, <2>1, <2>2 DEF Types, TypeOK
  <2>4. Stage'
    BY <1>1, <1>2, <2>2 DEF Stage
  <2>5. Application!Next
    BY <1>1, <1>2, <2>2, <2>3, ReplayIsPipe
  <2> QED
    BY <2>1, <2>2, <2>3, <2>4, <2>5 DEF StepResult, IInv
<1> QED
  BY <1>3, <1>5, <1>6 DEF SwitchProtocols

LEMMA RequestCompleteStep ==
  ASSUME IInv, RequestComplete
  PROVE  StepResult
<1>1. UNCHANGED <<detect, headers, chunks, finished, limits, made>>
  BY DEF RequestComplete, buffer
<1>2. CASE loop1 = "body" /\ upgrading /\ SwitchProtocols /\ UNCHANGED stream
  BY <1>2, SwitchStep DEF RequestComplete
<1>3. CASE /\ loop1 = "body" /\ ~upgrading /\ loop1' = "response" /\ told' = "finish"
           /\ UNCHANGED <<open, loop2, stream, conns, switch, upgrading, conn, arrived>>
  <2>1. CallsAlone
    BY <1>1, <1>3 DEF CallsAlone
  <2>2. Serving'
    BY <1>1, <1>3 DEF IInv, Serving, ConnectionsAreTracked
  <2>3. stream = "none"
    BY <1>3 DEF IInv, Stage
  <2> QED
    BY <1>1, <1>3, <2>1, <2>2, <2>3, QuietStep DEF IInv, Types, TypeOK
<1>4. CASE /\ loop2 = "reading" /\ stream = "body" /\ stream' = "complete"
           /\ ~upgrading /\ told' = "finish" /\ UNCHANGED switch
           /\ UNCHANGED <<open, loop1, loop2, conns, upgrading, conn, arrived>>
  <2>1. CallsAlone
    BY <1>1, <1>4 DEF CallsAlone
  <2>2. Serving'
    BY <1>1, <1>4 DEF IInv, Serving, ConnectionsAreTracked
  <2> QED
    BY <1>1, <1>4, <2>1, <2>2, QuietStep DEF IInv, Types, TypeOK
\* The switch fails before anything has arrived.
<1>5. CASE /\ loop2 = "reading" /\ stream = "body" /\ stream' = "complete"
           /\ upgrading /\ switch' = "failed" /\ UNCHANGED told
           /\ UNCHANGED <<open, loop1, loop2, conns, upgrading, conn, arrived>>
  <2>1. switch = "no" /\ told # "nothing"
    BY <1>5 DEF IInv, Stage
  <2>2. Types' /\ Serving' /\ Stage'
    BY <1>1, <1>5, <2>1
    DEF IInv, Types, TypeOK, Serving, ConnectionsAreTracked, Stage
  <2>3. Held'
    <3>1. arrived = <<>>
      BY <1>5, <2>1 DEF IInv, Held
    <3>2. Faithful("http2")'
      BY <1>1, <1>5, <3>1 DEF IInv, Types, Faithful
    <3> QED
      BY <1>5, <3>2 DEF Held
  <2> QED
    BY <1>1, <1>5, <2>2, <2>3 DEF StepResult, IInv, Seen
<1> QED
  BY <1>2, <1>3, <1>4, <1>5 DEF RequestComplete

LEMMA StreamResetStep ==
  ASSUME IInv, StreamReset
  PROVE  StepResult
<1>1. CallsAlone /\ UNCHANGED <<detect, open, loop1, loop2, stream, conns, switch, limits>>
      /\ stream = "body" /\ told' = "closed"
  BY DEF StreamReset, CallsAlone, serving, buffer
<1>2. Serving'
  BY <1>1 DEF IInv, Serving, ConnectionsAreTracked
<1> QED
  BY <1>1, <1>2, QuietStep DEF IInv, Types, TypeOK

LEMMA SwitchResumesStep ==
  ASSUME IInv, SwitchResumes
  PROVE  StepResult
<1>1. /\ Types /\ Serving /\ Stage /\ Held /\ upgrading /\ conn = "http2"
      /\ switch = "granted" /\ told # "nothing"
      /\ loop1 \notin {"none", "headers", "body", "response"} \/ stream = "complete"
  BY DEF IInv, Stage, SwitchResumes
<1>2. UNCHANGED <<detect, open, loop1, loop2, stream, conns, conn, headers, chunks, finished,
                  limits, made>> /\ UNCHANGED buffer
  BY DEF SwitchResumes, serving, buffer
<1>3. /\ Held' /\ arrived = <<>> /\ arrived' \in Seq(Arrival) /\ Faithful("http2")'
      /\ switch' \in {"done", "failed"} /\ upgrading' \in BOOLEAN /\ told' \in {told, "finish"}
  BY <1>1, <1>2, ReplayStep DEF SwitchResumes
<1>4. Types'
  BY <1>1, <1>2, <1>3 DEF Types, TypeOK
<1>5. Serving' /\ Stage'
  BY <1>1, <1>2, <1>3 DEF Serving, ConnectionsAreTracked, Stage
<1>6. Application!Next
  BY <1>1, <1>2, <1>3, <1>4, ReplayIsPipe
<1> QED
  BY <1>3, <1>4, <1>5, <1>6 DEF StepResult, IInv

LEMMA CallStep ==
  ASSUME IInv, NEW op \in Ops, AppCall(op)
  PROVE  StepResult
<1>1. /\ Types /\ Serving /\ Stage /\ Held /\ told # "nothing"
  BY DEF IInv, AppCall
<1>2. UNCHANGED <<detect, open, loop1, loop2, stream, conns, switch, upgrading, conn, limits,
                  told>>
  BY DEF AppCall, serving
<1>3. /\ Held' /\ made' \in Seq(ACall) /\ arrived' \in Seq(Arrival)
      /\ headers' \in CallsOf({"headers"}) /\ Len(headers') <= 1
      /\ chunks' \in CallsOf({"chunk", "excess"})
      /\ finished' \in CallsOf({"finish", "short"}) /\ Len(finished') <= 1
      /\ IsPrefix(made, made') /\ Len(made') <= Len(made) + 1
      /\ IsPrefix(arrived, arrived')
  BY AppCallStep
<1>4. Types'
  BY <1>1, <1>2, <1>3 DEF Types, TypeOK
<1>5. Serving' /\ Stage'
  BY <1>1, <1>2 DEF Serving, ConnectionsAreTracked, Stage
<1>6. /\ Len(arrived') <= Len(made')
      /\ \A i \in DOMAIN arrived' :
           arrived'[i].call = made'[i] /\ arrived'[i].via = arrived'[1].via
  <2>1. /\ DOMAIN arrived' = 1 .. Len(arrived') /\ Len(arrived') \in Nat
        /\ Len(made') \in Nat /\ upgrading' \in BOOLEAN
    BY <1>3, <1>4, LenProperties DEF Types, TypeOK
  <2>2. CASE \E via : Faithful(via)'
    BY <2>1, <2>2 DEF Faithful
  <2>3. CASE arrived' = <<>>
    BY <2>1, <2>3
  <2> QED
    BY <1>3, <2>1, <2>2, <2>3 DEF Held
<1>7. Application!Next
  BY <1>3, <1>6
  DEF Application!Next, Application!Call, Application!Arrive, Application!IsPrefix, IsPrefix
<1> QED
  BY <1>3, <1>4, <1>5, <1>7 DEF StepResult, IInv

LEMMA InitInv == Init => IInv /\ Application!Init
<1> SUFFICES ASSUME Init PROVE IInv /\ Application!Init
  OBVIOUS
<1>1. /\ <<>> \in Seq(ACall) /\ <<>> \in Seq(Arrival) /\ Len(<<>>) = 0
      /\ <<>> \in CallsOf({"headers"}) /\ <<>> \in CallsOf({"chunk", "excess"})
      /\ <<>> \in CallsOf({"finish", "short"})
  BY EmptySeq DEF CallsOf
<1>2. Types
  <2>1. /\ headers \in CallsOf({"headers"}) /\ Len(headers) <= 1
        /\ chunks \in CallsOf({"chunk", "excess"})
        /\ finished \in CallsOf({"finish", "short"}) /\ Len(finished) <= 1
        /\ made \in Seq(ACall) /\ arrived \in Seq(Arrival)
    <3>1. headers = <<>> /\ chunks = <<>> /\ finished = <<>> /\ made = <<>> /\ arrived = <<>>
      BY DEF Init
    <3> QED
      BY <1>1, <3>1
  <2>2. /\ detect \in {"handshake", "firstLine", "done"} /\ open \in BOOLEAN
        /\ loop1 = "none" /\ loop2 = "none" /\ stream = "none" /\ conns = {} /\ switch = "no"
        /\ upgrading \in BOOLEAN /\ conn = "http1" /\ limits \in BOOLEAN /\ told = "nothing"
    BY DEF Init
  <2> QED
    BY <2>1, <2>2 DEF Types, TypeOK
<1>3. Serving /\ Stage
  BY DEF Init, Serving, ConnectionsAreTracked, Stage
<1>4. Held
  BY <1>1 DEF Init, Held, Faithful
<1> QED
  BY <1>2, <1>3, <1>4 DEF IInv, Init, Application!Init

LEMMA NextInv == IInv /\ [Next]_vars => StepResult
<1> SUFFICES ASSUME IInv, [Next]_vars PROVE StepResult
  OBVIOUS
<1>1. CASE Handshake
  <2>1. CallsAlone /\ UNCHANGED <<open, stream, switch, limits, told>> /\ detect = "handshake"
    BY <1>1 DEF Handshake, CallsAlone, buffer
  <2>2. \/ detect' = "done" /\ loop2' = "preface" /\ conns' = conns \cup {"http2"} /\ loop1' = loop1
        \/ detect' = "firstLine" /\ UNCHANGED <<loop1, loop2, conns>>
    BY <1>1 DEF Handshake, StartHttp2
  <2>3. Serving'
    BY <2>1, <2>2 DEF IInv, Serving, ConnectionsAreTracked
  <2> QED
    BY <2>1, <2>2, <2>3, QuietStep DEF IInv, Types, TypeOK
<1>2. CASE FirstLine
  <2>1. CallsAlone /\ UNCHANGED <<open, stream, switch, limits, told>> /\ detect = "firstLine"
    BY <1>2 DEF FirstLine, CallsAlone, buffer
  <2>2. /\ detect' = "done"
        /\ \/ loop2' = "preface" /\ conns' = conns \cup {"http2"} /\ loop1' = loop1
           \/ loop1' = "headers" /\ conns' = conns \cup {"http1"} /\ loop2' = loop2
    BY <1>2 DEF FirstLine, StartHttp1, StartHttp2
  <2>3. Serving' /\ loop1 = "none" /\ stream = "none"
    BY <2>1, <2>2 DEF IInv, Serving, ConnectionsAreTracked
  <2> QED
    BY <2>1, <2>2, <2>3, QuietStep DEF IInv, Types, TypeOK
<1>3. CASE FirstLineFails
  <2>1. CallsAlone /\ UNCHANGED <<stream, switch, limits, told, loop1, loop2, conns>>
        /\ detect # "done" /\ detect' = "done" /\ open' = FALSE
    BY <1>3 DEF FirstLineFails, CallsAlone, buffer
  <2>2. Serving'
    BY <2>1 DEF IInv, Serving, ConnectionsAreTracked
  <2> QED
    BY <2>1, <2>2, QuietStep DEF IInv, Types, TypeOK
<1>4. CASE HeadersReceived
  BY <1>4, HeadersReceivedStep
<1>5. CASE RequestComplete
  BY <1>5, RequestCompleteStep
<1>6. CASE StreamReset
  BY <1>6, StreamResetStep
<1>7. CASE Http1Ends
  <2>1. CallsAlone /\ UNCHANGED <<detect, open, loop2, stream, switch, limits>>
        /\ loop1' = "ended" /\ conns' = conns \ {"http1"} /\ told' \in {told, "closed"}
        /\ loop1 \in {"detached", "headers", "body", "response"}
        /\ (loop1 # "detached" => ~open) /\ stream = "none"
    BY <1>7 DEF Http1Ends, CallsAlone, buffer, IInv, Stage
  <2>2. Serving'
    BY <2>1 DEF IInv, Serving, ConnectionsAreTracked
  <2> QED
    BY <2>1, <2>2, QuietStep DEF IInv, Types, TypeOK
<1>8. CASE Preface
  <2>1. CallsAlone /\ UNCHANGED <<detect, open, loop1, stream, conns, limits, told>>
        /\ loop2 = "preface" /\ loop2' = "reading"
        /\ switch' = IF switch = "waiting" THEN "granted" ELSE switch
    BY <1>8 DEF Preface, CallsAlone, buffer
  <2>2. Serving'
    BY <2>1 DEF IInv, Serving, ConnectionsAreTracked
  <2> QED
    BY <2>1, <2>2, QuietStep DEF IInv, Types, TypeOK
<1>9. CASE SwitchResumes
  BY <1>9, SwitchResumesStep
<1>10. CASE Http2Ends
  <2>1. CallsAlone /\ UNCHANGED <<detect, loop1, stream, switch, limits, told>>
        /\ loop2 \in {"preface", "reading", "goaway"} /\ loop2' = "ended"
        /\ open' = FALSE /\ conns' = conns \ {"http2"}
    BY <1>10 DEF Http2Ends, CallsAlone, buffer
  <2>2. Serving'
    BY <2>1 DEF IInv, Serving, ConnectionsAreTracked
  <2> QED
    BY <2>1, <2>2, QuietStep DEF IInv, Types, TypeOK
<1>11. CASE Close
  <2>1. CallsAlone /\ UNCHANGED <<detect, loop1, loop2, stream, conns, switch, limits, told>>
        /\ open' = FALSE
    BY <1>11 DEF Close, CallsAlone, buffer
  <2>2. Serving'
    BY <2>1 DEF IInv, Serving, ConnectionsAreTracked
  <2> QED
    BY <2>1, <2>2, QuietStep DEF IInv, Types, TypeOK
<1>12. ASSUME NEW op \in Ops, AppCall(op) PROVE StepResult
  BY <1>12, CallStep
<1>13. CASE SetLimits
  <2>1. CallsAlone /\ UNCHANGED <<detect, open, loop1, loop2, stream, conns, switch, told>>
        /\ limits' = upgrading
    BY <1>13 DEF SetLimits, CallsAlone, serving
  <2>2. Serving'
    BY <2>1 DEF IInv, Serving, ConnectionsAreTracked
  <2> QED
    BY <2>1, <2>2, QuietStep DEF IInv, Types, TypeOK
<1>14. CASE UNCHANGED vars
  <2>1. CallsAlone
        /\ UNCHANGED <<detect, open, loop1, loop2, stream, conns, switch, limits, told>>
    BY <1>14 DEF vars, CallsAlone, serving, buffer
  <2>2. Serving'
    BY <2>1 DEF IInv, Serving, ConnectionsAreTracked
  <2> QED
    BY <2>1, <2>2, QuietStep DEF IInv, Types, TypeOK
<1> QED
  BY <1>1, <1>2, <1>3, <1>4, <1>5, <1>6, <1>7, <1>8, <1>9, <1>10, <1>11, <1>12, <1>13,
     <1>14 DEF Next

LEMMA Invariance == Spec => []IInv
<1>1. Init => IInv
  BY InitInv
<1>2. IInv /\ [Next]_vars => IInv'
  BY NextInv DEF StepResult
<1> QED
  BY <1>1, <1>2, PTL DEF Spec
-----------------------------------------------------------------------------
(* What it implies.                                                        *)

\* Every variable keeps its type.
THEOREM TypeCorrect == Spec => []TypeOK
<1>1. IInv => TypeOK
  BY DEF IInv, Types
<1> QED
  BY <1>1, Invariance, PTL

\* An open connection whose protocol is known is among those the server closes with
\* all its connections, also while it passes from one serving loop to the other, and
\* none is whose loop has ended.
THEOREM Tracking == Spec => []ConnectionsAreTracked
<1>1. IInv => ConnectionsAreTracked
  BY DEF IInv, Serving
<1> QED
  BY <1>1, Invariance, PTL

\* Upgrade implements CallPipe: however many calls the application makes, at whatever
\* moments of the switch, they arrive in order, once, and in one protocol.
THEOREM Implementation == Spec => ImplementsCallPipe
<1>1. Init => Application!Init
  BY InitInv
<1>2. IInv /\ [Next]_vars => [Application!Next]_Seen
  BY NextInv DEF StepResult
<1>3. IInv /\ [Next]_vars => [Application!Next]_<<made, arrived>>
  BY <1>2 DEF Seen
<1> QED
  BY <1>1, <1>3, Invariance, PTL DEF Spec, ImplementsCallPipe, Application!Spec
=============================================================================
