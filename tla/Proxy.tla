------------------------------- MODULE Proxy --------------------------------
(***************************************************************************)
(* internal/proxy/proxy.go: one proxied RPC.                               *)
(*                                                                         *)
(* HandleRequest picks a worker, takes one of its connections, opens the   *)
(* downstream stream and starts two goroutines: the request pump copies    *)
(* the client's messages to the worker, the response pump the worker's to  *)
(* the client.  Each reports one error on a channel and ends; the handler  *)
(* selects on the two channels.  The client, the worker, the timer and the *)
(* two gRPC streams between them are the environment.                      *)
(*                                                                         *)
(* Of gRPC, the code relies on this: a stream carries messages in order    *)
(* over a window; the downstream stream is closed once, with the worker's  *)
(* status, with the error of a lost connection or with that of its         *)
(* context, and then SendMsg returns io.EOF, CloseSend does nothing and    *)
(* RecvMsg gives what had arrived and then the status (io.EOF for OK);     *)
(* upstream calls fail once the client is gone or the handler returned.    *)
(***************************************************************************)
EXTENDS Naturals, Sequences

CONSTANTS
  MaxRequests,   \* bound: messages of the client
  MaxResponses,  \* bound: messages of the worker
  Window         \* messages a stream holds before a send on it blocks

ASSUME ProxyAssumption ==
  MaxRequests \in Nat /\ MaxResponses \in Nat /\ Window \in Nat \ {0}

VARIABLES
  sent,      \* messages the client sent, numbered 1, 2, ...
  up,        \* those the request pump has not received
  half,      \* the client has half-closed the stream
  gone,      \* the client cancelled, or its connection was cut at its maximum age
  hpc,       \* HandleRequest: "next", "fetch", "open", "select", "returned"
  watch,     \* upstreamErrChan is not nil
  slot,      \* the handler holds a pooled connection
  result,    \* what HandleRequest returned
  expired,   \* the proxy timeout has passed
  u, uchan,  \* the request pump, and its error channel
  d, dchan,  \* the response pump, and its error channel
  req,       \* messages on their way to the worker
  closeSend, \* the half-close is on its way behind them
  wgot,      \* messages the worker received
  wsaw,      \* the worker saw the half-close
  wend,      \* "running", or the status with which the worker ended the RPC
  answered,  \* messages the worker sent, numbered 1, 2, ...
  resp,      \* those the response pump has not received
  status,    \* how the downstream stream was closed at the proxy, "none" before
  header,    \* the worker's header was sent to the client
  down,      \* messages on their way to the client
  got        \* messages the client received

clientVars  == <<sent, up, half, gone>>
handlerVars == <<hpc, watch, slot, result, expired>>
pumpVars    == <<u, uchan, d, dchan>>
requestVars == <<req, closeSend, wgot, wsaw>>
answerVars  == <<wend, answered, resp, status>>
outVars     == <<header, down, got>>
vars == <<clientVars, handlerVars, pumpVars, requestVars, answerVars, outVars>>

Opened   == u.pc # "off"
Returned == hpc = "returned"

\* The messages 1..n in the order in which they were sent.
Numbered(n) == [i \in 1..n |-> i]

Prefixes(q) == {SubSeq(q, 1, n) : n \in 0..Len(q)}

-----------------------------------------------------------------------------
\* A request reaches HandleRequest; no stream to a worker yet.
Init ==
  /\ sent = 0 /\ up = <<>> /\ half = FALSE /\ gone = FALSE
  /\ hpc = "next" /\ watch = TRUE /\ slot = FALSE /\ result = "none" /\ expired = FALSE
  /\ u = [pc |-> "off", msg |-> 0, err |-> "none"] /\ uchan = <<>>
  /\ d = [pc |-> "off", msg |-> 0, err |-> "none"] /\ dchan = <<>>
  /\ req = <<>> /\ closeSend = FALSE /\ wgot = <<>> /\ wsaw = FALSE
  /\ wend = "running" /\ answered = 0 /\ resp = <<>> /\ status = "none"
  /\ header = FALSE /\ down = <<>> /\ got = <<>>

-----------------------------------------------------------------------------
(* The client and the server's side of its stream.                         *)

ClientSend ==
  /\ ~half /\ ~gone /\ ~Returned
  /\ sent < MaxRequests
  /\ Len(up) < Window
  /\ sent' = sent + 1
  /\ up' = Append(up, sent')
  /\ UNCHANGED <<half, gone, handlerVars, pumpVars, requestVars, answerVars, outVars>>

ClientHalfClose ==
  /\ ~half /\ ~gone /\ ~Returned
  /\ half' = TRUE
  /\ UNCHANGED <<sent, up, gone, handlerVars, pumpVars, requestVars, answerVars, outVars>>

\* ctx, the context of the upstream stream, is cancelled.
ClientGone ==
  /\ ~gone /\ ~Returned
  /\ gone' = TRUE
  /\ UNCHANGED <<sent, up, half, handlerVars, pumpVars, requestVars, answerVars, outVars>>

ClientRead ==
  /\ down # <<>>
  /\ got' = Append(got, Head(down))
  /\ down' = Tail(down)
  /\ UNCHANGED <<clientVars, handlerVars, pumpVars, requestVars, answerVars, header>>

-----------------------------------------------------------------------------
(* The worker and the downstream stream.                                   *)

WorkerRecv ==
  /\ wend = "running"
  /\ req # <<>>
  /\ wgot' = Append(wgot, Head(req))
  /\ req' = Tail(req)
  /\ UNCHANGED <<clientVars, handlerVars, pumpVars, closeSend, wsaw, answerVars, outVars>>

WorkerSeesHalfClose ==
  /\ wend = "running"
  /\ closeSend /\ req = <<>> /\ ~wsaw
  /\ wsaw' = TRUE
  /\ UNCHANGED <<clientVars, handlerVars, pumpVars, req, closeSend, wgot, answerVars, outVars>>

WorkerSend ==
  /\ Opened /\ wend = "running" /\ status = "none"
  /\ answered < MaxResponses
  /\ Len(resp) < Window
  /\ answered' = answered + 1
  /\ resp' = Append(resp, answered')
  /\ UNCHANGED <<clientVars, handlerVars, pumpVars, requestVars, wend, status, outVars>>

\* The worker may end the RPC at any time, with messages of the client unread.
WorkerEnd ==
  /\ Opened /\ wend = "running"
  /\ wend' \in {"ok", "failed"}
  /\ UNCHANGED <<clientVars, handlerVars, pumpVars, requestVars, answered, resp, status, outVars>>

\* The trailers of the worker arrive, behind its messages.
StreamEnd ==
  /\ wend # "running" /\ status = "none"
  /\ status' = wend
  /\ UNCHANGED <<clientVars, handlerVars, pumpVars, requestVars, wend, answered, resp, outVars>>

\* gRPC closes the downstream stream with error e; what has not arrived is lost.
StreamReset(e) ==
  /\ Opened /\ status = "none"
  /\ status' = e
  /\ resp' \in Prefixes(resp)
  /\ UNCHANGED <<clientVars, handlerVars, pumpVars, requestVars, wend, answered, outVars>>

\* The connection breaks: the worker was killed, or its pool closed it.
StreamLost == StreamReset("lost")

(* Mutants of StreamCancel. *)

\* The downstream context has no deadline.
StreamCancelUntimed == (gone \/ Returned) /\ StreamReset("cancelled")

\* The downstream context has a deadline and is not derived from the client's.
StreamCancelDetached ==
  \/ expired /\ StreamReset("deadline")
  \/ Returned /\ StreamReset("cancelled")

\* downstreamCtx is done: by timeoutCtx, by the client or by the deferred cancels.
StreamCancel ==
  \/ expired /\ StreamReset("deadline")
  \/ (gone \/ Returned) /\ StreamReset("cancelled")

-----------------------------------------------------------------------------
(* proxyRequest: the request pump.                                         *)

PumpGoto(p, next, m, e) == [p EXCEPT !.pc = next, !.msg = m, !.err = e]

\* src.RecvMsg(&msg)
RequestRecv ==
  /\ u.pc = "recv"
  /\ \/ /\ up # <<>>
        /\ u' = PumpGoto(u, "send", Head(up), "none")
        /\ up' = Tail(up)
     \/ /\ up = <<>> /\ half
        /\ u' = PumpGoto(u, "report", 0, "eof")
        /\ UNCHANGED up
     \/ /\ gone \/ Returned
        /\ u' = PumpGoto(u, "report", 0, "cancelled")
        /\ UNCHANGED up
  /\ UNCHANGED <<sent, half, gone, handlerVars, uchan, d, dchan, requestVars, answerVars, outVars>>

\* dst.SendMsg(&msg): blocks while the stream is open and its window full.
RequestSend ==
  /\ u.pc = "send"
  /\ IF status = "none"
       THEN /\ Len(req) < Window
            /\ req' = Append(req, u.msg)
            /\ u' = PumpGoto(u, "recv", 0, "none")
       ELSE /\ u' = PumpGoto(u, "report", 0, "eof")
            /\ UNCHANGED req
  /\ UNCHANGED <<clientVars, handlerVars, uchan, d, dchan, closeSend, wgot, wsaw, answerVars, outVars>>

\* errChan is unbuffered: the send waits for the handler's select.
RequestReportUnbuffered ==
  /\ u.pc = "report"
  /\ uchan = <<>> /\ hpc = "select"
  /\ uchan' = <<u.err>>
  /\ u' = PumpGoto(u, "close", 0, "none")
  /\ UNCHANGED <<clientVars, handlerVars, d, dchan, requestVars, answerVars, outVars>>

\* errChan <- err, on a channel of one slot
RequestReport ==
  /\ u.pc = "report"
  /\ uchan = <<>>
  /\ uchan' = <<u.err>>
  /\ u' = PumpGoto(u, "close", 0, "none")
  /\ UNCHANGED <<clientVars, handlerVars, d, dchan, requestVars, answerVars, outVars>>

\* defer close(errChan)
RequestClose ==
  /\ u.pc = "close"
  /\ u' = [u EXCEPT !.pc = "done"]
  /\ UNCHANGED <<clientVars, handlerVars, uchan, d, dchan, requestVars, answerVars, outVars>>

RequestPump == RequestRecv \/ RequestSend \/ RequestReport \/ RequestClose

-----------------------------------------------------------------------------
(* proxyResponse: the response pump.                                       *)

\* src.RecvMsg(&msg); the first one is taken before the header is read.
ResponseRecv ==
  /\ d.pc \in {"first", "recv"}
  /\ \/ /\ resp # <<>>
        /\ d' = PumpGoto(d, IF d.pc = "first" THEN "header" ELSE "send", Head(resp), "none")
        /\ resp' = Tail(resp)
     \/ /\ resp = <<>> /\ status # "none"
        /\ d' = PumpGoto(d, "report", 0, IF status = "ok" THEN "eof" ELSE status)
        /\ UNCHANGED resp
  /\ UNCHANGED <<clientVars, handlerVars, u, uchan, dchan, requestVars, wend, answered, status, outVars>>

\* After the header the loop starts, and the message in msg is overwritten.
ResponseHeaderLosesFirst ==
  /\ d.pc = "header"
  /\ header' = TRUE
  /\ d' = PumpGoto(d, "recv", 0, "none")
  /\ UNCHANGED <<clientVars, handlerVars, u, uchan, dchan, requestVars, answerVars, down, got>>

\* header, err := src.Header(), there since a message was; dst.SendHeader(header)
ResponseHeader ==
  /\ d.pc = "header"
  /\ \/ /\ header' = TRUE
        /\ d' = [d EXCEPT !.pc = "send"]
     \/ /\ gone \/ Returned
        /\ d' = PumpGoto(d, "report", 0, "closed")
        /\ UNCHANGED header
  /\ UNCHANGED <<clientVars, handlerVars, u, uchan, dchan, requestVars, answerVars, down, got>>

\* A SendMsg that would block drops the message.
ResponseSendDrops ==
  /\ d.pc = "send"
  /\ down' = IF Len(down) < Window THEN Append(down, d.msg) ELSE down
  /\ d' = PumpGoto(d, "recv", 0, "none")
  /\ UNCHANGED <<clientVars, handlerVars, u, uchan, dchan, requestVars, answerVars, header, got>>

\* dst.SendMsg(&msg): blocks while the client does not read, whatever timeoutCtx says.
ResponseSend ==
  /\ d.pc = "send"
  /\ \/ /\ Len(down) < Window
        /\ down' = Append(down, d.msg)
        /\ d' = PumpGoto(d, "recv", 0, "none")
     \/ /\ gone \/ Returned
        /\ d' = PumpGoto(d, "report", 0, "closed")
        /\ UNCHANGED down
  /\ UNCHANGED <<clientVars, handlerVars, u, uchan, dchan, requestVars, answerVars, header, got>>

ResponseReport ==
  /\ d.pc = "report"
  /\ dchan = <<>>
  /\ dchan' = <<d.err>>
  /\ d' = PumpGoto(d, "close", 0, "none")
  /\ UNCHANGED <<clientVars, handlerVars, u, uchan, requestVars, answerVars, outVars>>

ResponseClose ==
  /\ d.pc = "close"
  /\ d' = [d EXCEPT !.pc = "done"]
  /\ UNCHANGED <<clientVars, handlerVars, u, uchan, dchan, requestVars, answerVars, outVars>>

ResponsePump == ResponseRecv \/ ResponseHeader \/ ResponseSend \/ ResponseReport \/ ResponseClose

-----------------------------------------------------------------------------
(* HandleRequest.                                                          *)

\* return, with the deferred cancels and client.Return()
HandlerReturn(r) ==
  /\ hpc' = "returned"
  /\ result' = r
  /\ slot' = FALSE
  /\ UNCHANGED <<watch, expired>>

\* p.Balancer.Next(): there may be no worker in rotation.
HandlerNext ==
  /\ hpc = "next"
  /\ \/ HandlerReturn("unavailable")
     \/ hpc' = "fetch" /\ UNCHANGED <<watch, slot, result, expired>>
  /\ UNCHANGED <<clientVars, pumpVars, requestVars, answerVars, outVars>>

\* worker.FetchClientConn(ctx) succeeds, or fails: it gives up after five seconds.
HandlerFetch ==
  /\ hpc = "fetch"
  /\ \/ HandlerReturn("unavailable")
     \/ hpc' = "open" /\ slot' = TRUE /\ UNCHANGED <<watch, result, expired>>
  /\ UNCHANGED <<clientVars, pumpVars, requestVars, answerVars, outVars>>

\* p.requestTimeout has passed since timeoutCtx was made.
Deadline ==
  /\ hpc \in {"open", "select"}
  /\ ~expired
  /\ expired' = TRUE
  /\ UNCHANGED <<clientVars, hpc, watch, slot, result, pumpVars, requestVars, answerVars, outVars>>

\* grpc.NewClientStream, then both pumps start
HandlerOpen ==
  /\ hpc = "open"
  /\ \/ HandlerReturn("unavailable") /\ UNCHANGED <<u, d>>
     \/ /\ hpc' = "select"
        /\ u' = [u EXCEPT !.pc = "recv"]
        /\ d' = [d EXCEPT !.pc = "first"]
        /\ UNCHANGED <<watch, slot, result, expired>>
  /\ UNCHANGED <<clientVars, uchan, dchan, requestVars, answerVars, outVars>>

\* CloseSend on a stream that is already closed does nothing.
HalfClose == closeSend' = (closeSend \/ status = "none")

(* Mutants of HandlerRequestErr. *)

\* Every error of the request pump half-closes the downstream.
HandlerRequestErrCloses ==
  /\ hpc = "select" /\ watch /\ uchan # <<>>
  /\ uchan' = <<>>
  /\ HalfClose
  /\ UNCHANGED <<handlerVars, clientVars, u, d, dchan, req, wgot, wsaw, answerVars, outVars>>

\* io.EOF of SendMsg is taken for a failure.
HandlerRequestErrFails ==
  /\ hpc = "select" /\ watch /\ uchan # <<>>
  /\ uchan' = <<>>
  /\ IF Head(uchan) = "eof" /\ status = "none"
       THEN HalfClose /\ UNCHANGED handlerVars
       ELSE HandlerReturn("internal") /\ UNCHANGED closeSend
  /\ UNCHANGED <<clientVars, u, d, dchan, req, wgot, wsaw, answerVars, outVars>>

\* case err, ok := <-upstreamErrChan: io.EOF, of RecvMsg or of SendMsg, half-closes
HandlerRequestErr ==
  /\ hpc = "select" /\ watch /\ uchan # <<>>
  /\ uchan' = <<>>
  /\ IF Head(uchan) = "eof"
       THEN HalfClose /\ UNCHANGED handlerVars
       ELSE HandlerReturn("internal") /\ UNCHANGED closeSend
  /\ UNCHANGED <<clientVars, u, d, dchan, req, wgot, wsaw, answerVars, outVars>>

\* upstreamErrChan is closed and empty: upstreamErrChan = nil
HandlerRequestDone ==
  /\ hpc = "select" /\ watch /\ uchan = <<>> /\ u.pc = "done"
  /\ watch' = FALSE
  /\ UNCHANGED <<clientVars, hpc, slot, result, expired, pumpVars, requestVars, answerVars, outVars>>

\* case err, ok := <-downstreamErrChan: the request ends, with nil for io.EOF
HandlerResponseErr ==
  /\ hpc = "select" /\ dchan # <<>>
  /\ dchan' = <<>>
  /\ HandlerReturn(IF Head(dchan) = "eof" THEN "ok" ELSE Head(dchan))
  /\ UNCHANGED <<clientVars, u, uchan, d, requestVars, answerVars, outVars>>

Handler ==
  \/ HandlerNext \/ HandlerFetch \/ HandlerOpen
  \/ HandlerRequestErr \/ HandlerRequestDone \/ HandlerResponseErr

-----------------------------------------------------------------------------
\* The request is over and nothing of it is left in the proxy.
Over ==
  /\ Returned
  /\ u.pc \in {"off", "done"} /\ d.pc \in {"off", "done"}
  /\ UNCHANGED vars

Client == ClientSend \/ ClientHalfClose \/ ClientGone \/ ClientRead
Worker == WorkerRecv \/ WorkerSeesHalfClose \/ WorkerSend \/ WorkerEnd
Stream == StreamEnd \/ StreamLost \/ StreamCancel

Next ==
  Client \/ Worker \/ Stream \/ Deadline \/ RequestPump \/ ResponsePump \/ Handler \/ Over

\* Goroutines that can run do, and gRPC closes a stream whose context is done.  The
\* client and the worker need not move, and the timer may be as long as it likes.
Fairness ==
  /\ WF_vars(Handler)
  /\ WF_vars(RequestPump)
  /\ WF_vars(ResponsePump)
  /\ WF_vars(StreamCancel)

Spec == Init /\ [][Next]_vars /\ Fairness

-----------------------------------------------------------------------------
(* Properties.                                                             *)

PumpType(errs) ==
  [pc : {"off", "first", "recv", "header", "send", "report", "close", "done"},
   msg : Nat, err : errs \cup {"none"}]

RequestErrs  == {"eof", "cancelled"}
ResponseErrs == {"eof", "failed", "lost", "deadline", "cancelled", "closed"}
Results      == (ResponseErrs \ {"eof"}) \cup {"ok", "internal", "unavailable"}

ControlOK ==
  /\ half \in BOOLEAN /\ gone \in BOOLEAN
  /\ hpc \in {"next", "fetch", "open", "select", "returned"}
  /\ watch \in BOOLEAN /\ slot \in BOOLEAN /\ expired \in BOOLEAN
  /\ result \in Results \cup {"none"}
  /\ closeSend \in BOOLEAN /\ wsaw \in BOOLEAN /\ header \in BOOLEAN
  /\ wend \in {"running", "ok", "failed"}
  /\ status \in {"none", "ok", "failed", "lost", "deadline", "cancelled"}

PumpsOK ==
  /\ u \in PumpType(RequestErrs) /\ d \in PumpType(ResponseErrs)
  /\ uchan = <<>> \/ \E e \in RequestErrs : uchan = <<e>>
  /\ dchan = <<>> \/ \E e \in ResponseErrs : dchan = <<e>>

IsQueue(q) == q \in Seq(Nat) /\ Len(q) <= Window

QueuesOK ==
  /\ sent \in Nat /\ answered \in Nat
  /\ IsQueue(up) /\ IsQueue(req) /\ IsQueue(resp) /\ IsQueue(down)
  /\ wgot \in Seq(Nat) /\ got \in Seq(Nat)

\* The state is of the expected types and no window or error channel overflows.
TypeOK == ControlOK /\ PumpsOK /\ QueuesOK

\* Through two pumps and two windows, each side receives the other's messages in order,
\* none twice and none left out, and the client has the worker's header before the first.
InOrder ==
  /\ wgot = Numbered(Len(wgot))
  /\ got \o down = Numbered(Len(got \o down))
  /\ got \o down # <<>> => header

\* proxyResponse forwards every message before the handler can return the worker's
\* status: with that status the client has the complete answer, the window included.
AnswerComplete ==
  result \in {"ok", "failed"} => wend = result /\ got \o down = Numbered(answered)

\* A client that is still there is told how the downstream stream ended, though the worker
\* may end it while the request pump is sending and the handler sees io.EOF twice; or the
\* proxy answers Unavailable itself and no message of the request has left it.
StatusFaithful ==
  Returned /\ ~gone =>
    \/ result = status /\ (status = "deadline" => expired)
    \/ result = "unavailable" /\ ~Opened /\ wgot \o req = <<>>

\* The handler half-closes on io.EOF only: a worker that sees the end of the requests has
\* all of them, and the client did end them.  A client that left, a deadline or a pump
\* that gave up never looks like a finished request.
NotMisled == wsaw => half /\ wgot = Numbered(sent)

\* The response pump holds a message for a client that does not read.
WaitsForClient == d.pc = "send" /\ Len(down) = Window /\ ~gone /\ ~Returned

\* Nothing of the request is left: the handler has returned, the connection is back in its
\* pool and both goroutines have ended.
NothingLeft ==
  Returned /\ ~slot /\ u.pc \in {"off", "done"} /\ d.pc \in {"off", "done"}

\* A request comes to its end once timeoutCtx is done, which reaches the handler only through
\* the pumps, once its client cancels or is cut off, wherever the pumps are blocked and even
\* if the worker hangs, and once the handler returns, whose pumps must do without it.  The
\* timeout does not free a pump that waits for a client who does not read.
RequestEnds == [](expired \/ gone \/ Returned => <>[](NothingLeft \/ WaitsForClient))
=============================================================================
