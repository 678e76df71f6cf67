------------------------------- MODULE Upgrade -------------------------------
(***************************************************************************)
(* A connection of a CleartextHTTP2Server (server.py), from accept() until *)
(* its protocol is settled: by ALPN, by the preface of HTTP/2, or by a     *)
(* request of HTTP/1 that asks for an upgrade.  The application's calls    *)
(* are held back while the protocols are switched.                         *)
(*                                                                         *)
(* HTTP/1 is served by tornado: a request's delegate is told of its        *)
(* headers, and at its end, or that the connection closed.  A stream of    *)
(* HTTP/2 does the same.  One request is modelled, of either protocol:     *)
(* each has an _UpgradingConnection of its own.                            *)
(***************************************************************************)
EXTENDS Integers, SequencesExt

CONSTANT MaxCalls       \* bound: calls of the application

ASSUME ConstantsAssumption == MaxCalls \in Nat

VARIABLES
  detect,       \* what is waited for: the TLS handshake, the first lines, nothing
  open,         \* the IOStream is not closed
  loop1,        \* tornado's serving loop reads the headers or the body of a
                \* request, waits for the response, was detached, or has ended
  loop2,        \* Connection._conn_loop, see Receiver
  stream,       \* of a request of HTTP/2 nothing was read, its headers, or all
  conns,        \* server._connections
  switch,       \* switch_protocols was not called, waits for the initial SETTINGS,
                \* can go on, is done, or has raised (its future is read by nobody)
  \* of the _UpgradingConnection
  upgrading,
  conn,         \* the connection behind it: of HTTP/1, or stream 1
  headers,      \* written_headers, <<>> or a call
  chunks,       \* written_chunks
  finished,     \* write_finished, <<>> or a call
  limits,       \* max_body_size or body_timeout was set
  told,         \* what the application was told last
  \* history
  made,         \* its calls
  arrived       \* those that reached an HTTP connection, and in which protocol

serving == <<detect, open, loop1, loop2, stream, conns>>
buffer == <<headers, chunks, finished, limits>>
vars == <<serving, switch, upgrading, conn, buffer, told, made, arrived>>

\* An "excess" chunk goes beyond Content-Length, a "short" finish() comes before it
\* is reached: the Stream raises HTTPOutputError.
Ops == {"headers", "chunk", "excess", "finish", "short"}
CallsOf(ops) == Seq([op : ops, n : 1 .. MaxCalls])

TypeOK ==
  /\ detect \in {"handshake", "firstLine", "done"}
  /\ open \in BOOLEAN
  /\ loop1 \in {"none", "headers", "body", "response", "detached", "ended"}
  /\ loop2 \in {"none", "preface", "reading", "goaway", "ended"}
  /\ stream \in {"none", "body", "complete"}
  /\ conns \subseteq {"http1", "http2"}
  /\ switch \in {"no", "waiting", "granted", "done", "failed"}
  /\ upgrading \in BOOLEAN
  /\ conn \in {"http1", "http2"}
  /\ headers \in CallsOf({"headers"})
  /\ chunks \in CallsOf({"chunk", "excess"})
  /\ finished \in CallsOf({"finish", "short"})
  /\ Len(headers) <= 1 /\ Len(finished) <= 1
  /\ limits \in BOOLEAN
  /\ told \in {"nothing", "headers", "finish", "closed"}

Init ==
  /\ detect \in {"handshake", "firstLine"}
  /\ open = TRUE
  /\ loop1 = "none" /\ loop2 = "none" /\ stream = "none" /\ conns = {}
  /\ switch = "no" /\ upgrading = FALSE /\ conn = "http1"
  /\ headers = <<>> /\ chunks = <<>> /\ finished = <<>> /\ limits = FALSE
  /\ told = "nothing"
  /\ made = <<>> /\ arrived = <<>>
-----------------------------------------------------------------------------
(* Which protocol it is.                                                   *)

\* _start_http1 (of HTTPServer) and _start_http2.
StartHttp1 == loop1' = "headers" /\ conns' = conns \cup {"http1"} /\ UNCHANGED loop2
StartHttp2 == loop2' = "preface" /\ conns' = conns \cup {"http2"} /\ UNCHANGED loop1

\* The handshake is done: ALPN has chosen HTTP/2 or nothing.
Handshake ==
  /\ detect = "handshake"
  /\ open
  /\ \/ detect' = "done" /\ StartHttp2
     \/ detect' = "firstLine" /\ UNCHANGED <<loop1, loop2, conns>>
  /\ UNCHANGED <<open, stream, switch, upgrading, conn, buffer, told, made, arrived>>

\* _read_first_line has the first lines, which may have come before the connection
\* closed.  They are put back and read once more.
FirstLine ==
  /\ detect = "firstLine"
  /\ detect' = "done"
  /\ StartHttp1 \/ StartHttp2
  /\ UNCHANGED <<open, stream, switch, upgrading, conn, buffer, told, made, arrived>>

\* It takes too long, they are too long, or the connection has closed.
FirstLineFails ==
  /\ detect # "done"
  /\ detect' = "done"
  /\ open' = FALSE
  /\ UNCHANGED <<loop1, loop2, stream, conns, switch, upgrading, conn, buffer, told, made,
                 arrived>>
-----------------------------------------------------------------------------
(* A request.                                                              *)

\* _UpgradingRequestAdapter.headers_received.  That a request asks for an upgrade is
\* read off its headers, whatever its protocol: start_request() wraps both, and a
\* Stream refuses a Connection header but not Upgrade.
HeadersReceived ==
  /\ \/ /\ loop1 = "headers"
        /\ loop1' = "body"
        /\ UNCHANGED <<stream, conn>>
     \/ /\ loop1 = "none" /\ loop2 = "reading" /\ stream = "none"
        /\ stream' = "body"
        /\ conn' = "http2"
        /\ UNCHANGED loop1
  /\ told' = "headers"
  /\ upgrading' \in BOOLEAN
  /\ UNCHANGED <<detect, open, loop2, conns, switch, buffer, made, arrived>>

\* Mutant: what was written last is replayed first.
MutantBuffered == headers \o finished \o chunks

\* The calls in the order in which switch_protocols makes them.
Buffered == headers \o chunks \o finished

\* The first that raises, or none.  On a connection that start() or the loop has closed
\* write_headers() does; the errors of write() and finish() go to futures.
Raises(call) == call.op \in {"excess", "short"} \/ (call.op = "headers" /\ ~open')
FirstRaised == SelectInSeq(Buffered, Raises)

Arrived(calls, via) == [i \in DOMAIN calls |-> [call |-> calls[i], via |-> via]]

\* Mutant: nothing to replay, nothing to do.
MutantReplay ==
  /\ arrived' = arrived \o Arrived(Buffered, "http2")
  /\ upgrading' = FALSE
  /\ switch' = "done"
  /\ told' = IF Buffered = <<>> THEN told ELSE "finish"

\* switch_protocols from its yield on: to the end, where the application learns that
\* its request is complete, or until a call raises.  A Stream has no
\* set_max_body_size() nor set_body_timeout(), so limits raise as well.
Replay ==
  \/ /\ FirstRaised = 0
     /\ ~limits
     /\ arrived' = arrived \o Arrived(Buffered, "http2")
     /\ upgrading' = FALSE
     /\ switch' = "done"
     /\ told' = "finish"
  \/ /\ FirstRaised # 0 \/ limits
     /\ arrived' = arrived \o
          Arrived(IF FirstRaised = 0 THEN Buffered ELSE SubSeq(Buffered, 1, FirstRaised),
                  "http2")
     /\ switch' = "failed"
     /\ UNCHANGED <<upgrading, told>>

\* Mutant: the connection is added after start().
MutantStarted(outcome) ==
  /\ loop2' = outcome
  /\ conns' = conns \cup {"http2"}
  /\ open' = (outcome # "ended")

\* Connection.start() runs the loop as far as the client's bytes go: none of them has
\* arrived, its preface, a wrong one, or even a frame for stream 1, which is not in
\* h2_conn.streams yet, so that the loop writes GOAWAY and, once that is flushed, closes.
\* on_close() finds the connection among the server's.
Started(outcome) ==
  /\ loop2' = outcome
  /\ conns' = IF outcome = "ended" THEN conns ELSE conns \cup {"http2"}
  /\ open' = (outcome # "ended")

\* switch_protocols up to its yield; when the SETTINGS are already written there is
\* nothing to wait for.  If the 101 response cannot be written nothing else happens.
SwitchProtocols ==
  /\ loop1' = "detached"
  /\ \/ /\ ~open
        /\ switch' = "failed"
        /\ UNCHANGED <<open, loop2, conns, upgrading, conn, told, arrived>>
     \/ /\ open
        /\ conn' = "http2"
        /\ \/ /\ Started("preface") \/ Started("ended")
              /\ switch' = "waiting"
              /\ UNCHANGED <<upgrading, told, arrived>>
           \/ /\ Started("reading") \/ Started("goaway") \/ Started("ended")
              /\ Replay

\* _UpgradingRequestAdapter.finish: the request is complete.  switch_protocols cannot
\* begin on a request of HTTP/2, since a Stream has no detach().
RequestComplete ==
  /\ \/ /\ loop1 = "body"
        /\ upgrading
        /\ SwitchProtocols
        /\ UNCHANGED stream
     \/ /\ loop1 = "body"
        /\ ~upgrading
        /\ loop1' = "response"
        /\ told' = "finish"
        /\ UNCHANGED <<open, loop2, stream, conns, switch, upgrading, conn, arrived>>
     \/ /\ loop2 = "reading" /\ stream = "body"
        /\ stream' = "complete"
        /\ \/ upgrading /\ switch' = "failed" /\ UNCHANGED told
           \/ ~upgrading /\ told' = "finish" /\ UNCHANGED switch
        /\ UNCHANGED <<open, loop1, loop2, conns, upgrading, conn, arrived>>
  /\ UNCHANGED <<detect, buffer, made>>

\* on_connection_close(), when the client resets the stream of a request.  The stream
\* itself goes on.
StreamReset ==
  /\ loop2 = "reading" /\ stream = "body"
  /\ told' = "closed"
  /\ UNCHANGED <<serving, switch, upgrading, conn, buffer, made, arrived>>

\* The serving loop ends when its connection was detached or has closed; then it is
\* no longer among the server's.  on_connection_close() is for a request that is not
\* complete.
Http1Ends ==
  /\ \/ loop1 = "detached" /\ UNCHANGED told
     \/ /\ loop1 \in {"headers", "body", "response"}
        /\ ~open
        /\ told' = IF loop1 = "body" THEN "closed" ELSE told
  /\ loop1' = "ended"
  /\ conns' = conns \ {"http1"}
  /\ UNCHANGED <<detect, open, loop2, stream, switch, upgrading, conn, buffer, made, arrived>>
-----------------------------------------------------------------------------
(* The connection of HTTP/2.                                               *)

\* The client's preface: the loop writes SETTINGS and lets switch_protocols go on.
Preface ==
  /\ loop2 = "preface"
  /\ open
  /\ loop2' = "reading"
  /\ switch' = IF switch = "waiting" THEN "granted" ELSE switch
  /\ UNCHANGED <<detect, open, loop1, stream, conns, upgrading, conn, buffer, told, made,
                 arrived>>

SwitchResumes ==
  /\ switch = "granted"
  /\ UNCHANGED <<serving, conn, buffer, made>>
  /\ Replay

\* A wrong preface, an error, GOAWAY, or the end of the connection: the loop closes
\* it, and on_close() removes it from the server's.
Http2Ends ==
  /\ loop2 \in {"preface", "reading", "goaway"}
  /\ loop2' = "ended"
  /\ open' = FALSE
  /\ conns' = conns \ {"http2"}
  /\ UNCHANGED <<detect, loop1, stream, switch, upgrading, conn, buffer, told, made, arrived>>

\* The client hangs up.
Close ==
  /\ open
  /\ open' = FALSE
  /\ UNCHANGED <<detect, loop1, loop2, stream, conns, switch, upgrading, conn, buffer, told,
                 made, arrived>>
-----------------------------------------------------------------------------
(* The application, from headers_received() on: write_headers(), then some  *)
(* write(), at last finish().                                              *)

MayFollow(op) ==
  IF made = <<>> THEN op = "headers"
  ELSE op # "headers" /\ Last(made).op \notin {"finish", "short"}

\* Mutant: finish() is held back as a last chunk.
MutantAppCall(op) ==
  LET call == [op |-> op, n |-> Len(made) + 1]
  IN  /\ told # "nothing" /\ Len(made) < MaxCalls /\ MayFollow(op)
      /\ made' = Append(made, call)
      /\ arrived' = IF upgrading THEN arrived ELSE arrived \o Arrived(<<call>>, conn)
      /\ headers' = IF upgrading /\ op = "headers" THEN <<call>> ELSE headers
      /\ chunks' = IF upgrading /\ op # "headers" THEN Append(chunks, call) ELSE chunks
      /\ UNCHANGED <<serving, switch, upgrading, conn, finished, limits, told>>

\* A call is held back while `upgrading`, and passed on otherwise.
AppCall(op) ==
  LET call == [op |-> op, n |-> Len(made) + 1]
  IN  /\ told # "nothing"
      /\ Len(made) < MaxCalls
      /\ MayFollow(op)
      /\ made' = Append(made, call)
      /\ \/ /\ ~upgrading
            /\ arrived' = arrived \o Arrived(<<call>>, conn)
            /\ UNCHANGED <<headers, chunks, finished>>
         \/ /\ upgrading
            /\ headers' = IF op = "headers" THEN <<call>> ELSE headers
            /\ chunks' = IF op \in {"chunk", "excess"} THEN Append(chunks, call) ELSE chunks
            /\ finished' = IF op \in {"finish", "short"} THEN <<call>> ELSE finished
            /\ UNCHANGED arrived
      /\ UNCHANGED <<serving, switch, upgrading, conn, limits, told>>

\* set_max_body_size() or set_body_timeout(), as an application does that reads a
\* large body in parts.
SetLimits ==
  /\ told = "headers"
  /\ limits' = upgrading
  /\ UNCHANGED <<serving, switch, upgrading, conn, headers, chunks, finished, told, made,
                 arrived>>
-----------------------------------------------------------------------------
Next ==
  \/ Handshake
  \/ FirstLine
  \/ FirstLineFails
  \/ HeadersReceived
  \/ RequestComplete
  \/ StreamReset
  \/ Http1Ends
  \/ Preface
  \/ SwitchResumes
  \/ Http2Ends
  \/ Close
  \/ \E op \in Ops : AppCall(op)
  \/ SetLimits

\* The IOLoop runs its callbacks: a loop whose connection has closed ends, and what
\* waits for SETTINGS goes on when they are written.  Nothing is assumed of clients, which
\* no timeout makes send a preface or the rest of a request.
Spec ==
  /\ Init /\ [][Next]_vars
  /\ WF_vars(Http1Ends)
  /\ WF_vars(~open /\ Http2Ends)
  /\ WF_vars(SwitchResumes)
-----------------------------------------------------------------------------
(* Properties.                                                             *)

\* The application's calls arrive in order, once, and in one protocol, at whatever
\* moment of the switch they are made: see CallPipe.
Application == INSTANCE CallPipe
ImplementsCallPipe == Application!Spec

\* From the moment its protocol is known an open connection is among those that the
\* server would close with all its connections, also while it passes from one serving
\* loop to another; and none is whose loop has ended.
ConnectionsAreTracked ==
  /\ open /\ detect = "done" => conns # {}
  /\ "http1" \in conns => loop1 \in {"headers", "body", "response", "detached"}
  /\ "http2" \in conns => loop2 \in {"preface", "reading", "goaway"}

\* A request of HTTP/1 that asks for an upgrade is completed, if its client sends the
\* rest of it and then the preface: the application is told of its end, or of that
\* of the connection, unless the connection closes during the switch, or the application
\* itself stops it with what a Stream refuses.
UpgradeCompletes ==
  LET refused == limits \/ \E i \in DOMAIN made : made[i].op \in {"excess", "short"}
  IN  []<>(loop1 # "body") /\ []<>(loop2 # "preface") =>
        (upgrading /\ loop1 = "body" ~> told \in {"finish", "closed"} \/ ~open \/ refused)
=============================================================================
