---------------------------- MODULE ProxyProofs -----------------------------
(***************************************************************************)
(* Theorems about Proxy, for any number of messages and any window.        *)
(***************************************************************************)
EXTENDS Proxy, SequenceTheorems, TLAPS

\* Messages of the client that have left the request pump, and those of the worker that
\* have left the response pump.
Asked == Len(wgot) + Len(req)
Told  == Len(got) + Len(down)

\* 1 while a pump has received a message that it has not sent.
RequestHeld  == IF u.pc = "send" THEN 1 ELSE 0
ResponseHeld == IF d.pc \in {"header", "send"} THEN 1 ELSE 0

\* A pump that has not failed yet.
RequestRuns  == u.pc \in {"off", "recv", "send"}
ResponseRuns == d.pc \in {"off", "first", "header", "send", "recv"}

\* The error e is in the hand of a pump or in its channel.
RequestErr(e)  == (u.pc = "report" /\ u.err = e) \/ uchan = <<e>>
ResponseErr(e) == (d.pc = "report" /\ d.err = e) \/ dchan = <<e>>

\* The client has ended its messages and all of them are on their way or there.
AllAsked == half /\ up = <<>> /\ Asked = sent

\* Messages first + 1, first + 2, ... in order.
Follows(q, first) == \A i \in 1..Len(q) : q[i] = first + i

\* The requests are one sequence, cut into what the worker has, the downstream stream, the
\* pump's hand and the upstream stream.  io.EOF on an open stream means that it is complete.
RequestInv ==
  /\ Follows(wgot, 0) /\ Follows(req, Len(wgot))
  /\ u.pc = "send" => u.msg = Asked + 1
  /\ RequestRuns => Follows(up, Asked + RequestHeld) /\ Asked + RequestHeld + Len(up) = sent
  /\ RequestErr("eof") /\ status = "none" => AllAsked
  /\ closeSend => AllAsked /\ ~RequestRuns
  /\ wsaw => closeSend /\ req = <<>>
  /\ uchan # <<>> => u.pc \in {"close", "done"}
  /\ u.pc = "off" => req = <<>> /\ wgot = <<>>

\* So are the responses, complete unless the stream was cut, and behind the header.
ResponseInv ==
  /\ Follows(got, 0) /\ Follows(down, Len(got))
  /\ d.pc \in {"header", "send"} => d.msg = Told + 1
  /\ ResponseRuns => Follows(resp, Told + ResponseHeld)
  /\ ResponseRuns /\ status \in {"none", "ok", "failed"} => Told + ResponseHeld + Len(resp) = answered
  /\ Told > 0 \/ d.pc \in {"recv", "send"} => header
  /\ ResponseErr("eof") => status = "ok" /\ Told = answered
  /\ ResponseErr("failed") => status = "failed" /\ Told = answered
  /\ result \in {"ok", "failed"} => status = result /\ Told = answered /\ d.pc \in {"close", "done"}
  /\ dchan # <<>> => d.pc \in {"close", "done"}
  /\ status \in {"ok", "failed"} => wend = status

\* Every status has its reason: errors of the pumps, of the stream and of the handler.
StatusInv ==
  /\ hpc \in {"next", "fetch", "open"} => u.pc = "off" /\ d.pc = "off"
  /\ u.pc = "off" => d.pc = "off" /\ status = "none" /\ wend = "running"
  /\ RequestErr("cancelled") => gone \/ Returned
  /\ ResponseErr("closed") => gone \/ Returned
  /\ \A e \in {"lost", "deadline", "cancelled"} : ResponseErr(e) => status = e
  /\ status = "deadline" => expired
  /\ Returned => \/ result = "internal" /\ gone
                 \/ result = "closed" /\ gone
                 \/ result = status /\ result # "none"
                 \/ result = "unavailable" /\ u.pc = "off"

\* A pump that reports has an error.
ErrsInv ==
  /\ u.pc = "report" => u.err \in RequestErrs
  /\ d.pc = "report" => d.err \in ResponseErrs

\* The inductive invariant: what the program counters of handler and pumps say of the
\* messages and of each other.
ProxyInv == TypeOK /\ ErrsInv /\ RequestInv /\ ResponseInv /\ StatusInv

-----------------------------------------------------------------------------
(* Queues.                                                                 *)

\* A message at the end of a sequence in order.
LEMMA AppendFollows ==
  ASSUME NEW q \in Seq(Nat), NEW m \in Nat
  PROVE  /\ Append(q, m) \in Seq(Nat) /\ Len(Append(q, m)) = Len(q) + 1 /\ Append(q, m) # <<>>
         /\ \A f \in Nat : Follows(q, f) /\ m = f + Len(q) + 1 => Follows(Append(q, m), f)
<1>1. /\ Append(q, m) \in Seq(Nat) /\ Len(Append(q, m)) = Len(q) + 1 /\ Append(q, m) # <<>>
      /\ \A i \in 1..Len(q) : Append(q, m)[i] = q[i]
      /\ Append(q, m)[Len(q) + 1] = m
  BY AppendProperties, LenProperties
<1>2. Len(q) \in Nat
  BY LenProperties
<1>3. ASSUME NEW f \in Nat, Follows(q, f), m = f + Len(q) + 1 PROVE Follows(Append(q, m), f)
  <2> SUFFICES ASSUME NEW i \in 1..Len(Append(q, m)) PROVE Append(q, m)[i] = f + i
    BY DEF Follows
  <2>1. CASE i = Len(q) + 1
    BY <1>1, <1>2, <1>3, <2>1
  <2>2. CASE i # Len(q) + 1
    <3>1. i \in 1..Len(q)
      BY <1>1, <1>2, <2>2
    <3> QED
      BY <1>1, <1>3, <3>1 DEF Follows
  <2> QED
    BY <2>1, <2>2
<1> QED
  BY <1>1, <1>3

\* The first message is taken from a sequence in order.
LEMMA TailFollows ==
  ASSUME NEW q \in Seq(Nat), q # <<>>
  PROVE  /\ Head(q) \in Nat /\ Tail(q) \in Seq(Nat)
         /\ Len(q) > 0 /\ Len(Tail(q)) = Len(q) - 1
         /\ \A f \in Nat : Follows(q, f) => Head(q) = f + 1 /\ Follows(Tail(q), f + 1)
  BY HeadTailProperties, EmptySeq, LenProperties DEF Follows

\* A stream that is cut keeps the first messages of what it held.
LEMMA PrefixFollows ==
  ASSUME NEW q \in Seq(Nat), NEW p \in Prefixes(q)
  PROVE  /\ p \in Seq(Nat) /\ Len(p) <= Len(q)
         /\ \A f \in Nat : Follows(q, f) => Follows(p, f)
<1>1. PICK n \in 0..Len(q) : p = SubSeq(q, 1, n)
  BY DEF Prefixes
<1>2. n \in Nat /\ n <= Len(q) /\ n \in Int
  BY <1>1, LenProperties
<1>3. \A i \in 1..n : q[i] \in Nat
  BY <1>2, ElementOfSeq, LenProperties
<1>4. p \in Seq(Nat) /\ Len(p) = n /\ \A i \in 1..n : p[i] = q[i]
  <2>1. /\ SubSeq(q, 1, n) \in Seq(Nat)
        /\ Len(SubSeq(q, 1, n)) = IF 1 <= n THEN n - 1 + 1 ELSE 0
        /\ \A i \in 1..(n - 1 + 1) : SubSeq(q, 1, n)[i] = q[1 + i - 1]
    BY <1>2, <1>3, SubSeqProperties, 1 \in Int
  <2>2. n - 1 + 1 = n /\ (~(1 <= n) => n = 0) /\ \A i \in 1..n : 1 + i - 1 = i
    BY <1>2
  <2>3. QED BY <1>1, <2>1, <2>2
<1>5. \A f \in Nat : Follows(q, f) => Follows(p, f)
  <2>1. Len(p) = n /\ \A i \in 1..n : p[i] = q[i] /\ i \in 1..Len(q)
    BY <1>2, <1>4, LenProperties
  <2>2. QED BY <2>1 DEF Follows
<1>6. QED BY <1>2, <1>4, <1>5

\* A queue in order from the first message on is the sequence of the numbers.
LEMMA FollowsNumbered ==
  ASSUME NEW q \in Seq(Nat), Follows(q, 0)
  PROVE  q = Numbered(Len(q))
<1>1. Len(q) \in Nat /\ q \in [1..Len(q) -> Nat]
  BY LenProperties
<1>2. \A i \in 1..Len(q) : q[i] = i
  BY <1>1 DEF Follows
<1>3. QED BY <1>1, <1>2 DEF Numbered

\* Two queues, one in order behind the other.
LEMMA ConcatFollows ==
  ASSUME NEW q \in Seq(Nat), NEW r \in Seq(Nat), Follows(q, 0), Follows(r, Len(q))
  PROVE  q \o r \in Seq(Nat) /\ Len(q \o r) = Len(q) + Len(r) /\ Follows(q \o r, 0)
<1>1. Len(q) \in Nat /\ Len(r) \in Nat
  BY LenProperties
<1>2. q \o r \in Seq(Nat) /\ Len(q \o r) = Len(q) + Len(r)
      /\ \A i \in 1..Len(q) + Len(r) : (q \o r)[i] = IF i <= Len(q) THEN q[i] ELSE r[i - Len(q)]
  BY ConcatProperties
<1>3. ASSUME NEW i \in 1..Len(q) + Len(r) PROVE (q \o r)[i] = i
  <2>1. CASE i <= Len(q)
    BY <1>1, <1>2, <2>1 DEF Follows
  <2>2. CASE i > Len(q)
    <3>1. i - Len(q) \in 1..Len(r)
      BY <1>1, <2>2
    <3>2. r[i - Len(q)] = Len(q) + (i - Len(q))
      BY <3>1 DEF Follows
    <3>3. QED BY <1>1, <1>2, <2>2, <3>2
  <2>3. QED BY <1>1, <2>1, <2>2
<1>4. QED BY <1>1, <1>2, <1>3 DEF Follows

PumpPcs == {"off", "first", "recv", "header", "send", "report", "close", "done"}

\* A pump's step keeps the type of its record and sets what it says.
LEMMA PumpStep ==
  ASSUME NEW errs, NEW p \in PumpType(errs), NEW next \in PumpPcs, NEW m \in Nat,
         NEW e, e \in errs \/ e = "none"
  PROVE  /\ PumpGoto(p, next, m, e) \in PumpType(errs)
         /\ PumpGoto(p, next, m, e).pc = next /\ PumpGoto(p, next, m, e).msg = m
         /\ PumpGoto(p, next, m, e).err = e
  BY DEF PumpType, PumpGoto, PumpPcs

\* So does a step that only moves on.
LEMMA PumpMove ==
  ASSUME NEW errs, NEW p \in PumpType(errs), NEW next \in PumpPcs
  PROVE  /\ [p EXCEPT !.pc = next] \in PumpType(errs)
         /\ [p EXCEPT !.pc = next].pc = next /\ [p EXCEPT !.pc = next].msg = p.msg
         /\ [p EXCEPT !.pc = next].err = p.err
  BY DEF PumpType, PumpPcs

\* What a step of a pump sets.
LEMMA PumpFields ==
  ASSUME NEW errs, NEW p \in PumpType(errs), NEW next, NEW m, NEW e
  PROVE  /\ PumpGoto(p, next, m, e).pc = next /\ PumpGoto(p, next, m, e).msg = m
         /\ PumpGoto(p, next, m, e).err = e
  BY DEF PumpType, PumpGoto

-----------------------------------------------------------------------------
(* Types.                                                                  *)

controlVars ==
  <<half, gone, hpc, watch, slot, result, expired, closeSend, wsaw, header, wend, status>>
queueVars == <<sent, answered, up, req, resp, down, wgot, got>>

Resets == {"lost", "deadline", "cancelled"}

\* gRPC closes the downstream stream with an error; a deadline has passed.
Reset(e) == StreamReset(e) /\ (e = "deadline" => expired)

\* The two actions that reset the stream are one.
LEMMA StreamResets == StreamLost \/ StreamCancel => \E e \in Resets : Reset(e)
  BY DEF StreamLost, StreamCancel, Resets, Reset

\* The initial state has the types.
LEMMA InitTypes == Init => TypeOK /\ ErrsInv
<1>1. Init => ControlOK
  BY DEF Init, ControlOK, Results
<1>2. Init => PumpsOK
  BY DEF Init, PumpsOK, PumpType
<1>3. Init => QueuesOK
  BY EmptySeq, ProxyAssumption DEF Init, QueuesOK, IsQueue
<1>4. QED BY <1>1, <1>2, <1>3 DEF TypeOK, ErrsInv, Init

\* The control state keeps its types.
LEMMA ControlKept == ASSUME TypeOK, Next PROVE ControlOK'
<1>0. ControlOK
  BY DEF TypeOK
<1>1. CASE UNCHANGED controlVars
  BY <1>0, <1>1 DEF controlVars, ControlOK
<1>2. CASE ClientHalfClose
  BY <1>0, <1>2 DEF ClientHalfClose, ControlOK, handlerVars, requestVars, answerVars, outVars
<1>3. CASE ClientGone
  BY <1>0, <1>3 DEF ClientGone, ControlOK, handlerVars, requestVars, answerVars, outVars
<1>4. CASE WorkerSeesHalfClose
  BY <1>0, <1>4 DEF WorkerSeesHalfClose, ControlOK, clientVars, handlerVars, answerVars, outVars
<1>5. CASE WorkerEnd
  BY <1>0, <1>5 DEF WorkerEnd, ControlOK, clientVars, handlerVars, requestVars, outVars
<1>6. CASE StreamEnd
  BY <1>0, <1>6 DEF StreamEnd, ControlOK, clientVars, handlerVars, requestVars, outVars
<1>7. ASSUME NEW e \in Resets, Reset(e) PROVE ControlOK'
  BY <1>0, <1>7 DEF Resets, Reset, StreamReset, ControlOK, clientVars, handlerVars,
    requestVars, outVars
<1>8. CASE ResponseHeader
  <2>1. header' \in BOOLEAN
    BY <1>0, <1>8 DEF ResponseHeader, ControlOK
  <2>2. QED BY <1>0, <1>8, <2>1 DEF ResponseHeader, ControlOK, clientVars, handlerVars,
    requestVars, answerVars
<1>9. ASSUME hpc' \in {"fetch", "open", "select", "returned"}, result' \in Results \cup {"none"},
             watch' \in BOOLEAN, slot' \in BOOLEAN, expired' \in BOOLEAN, closeSend' \in BOOLEAN,
             UNCHANGED <<half, gone, wsaw, header, wend, status>>
      PROVE  ControlOK'
  BY <1>0, <1>9 DEF ControlOK
<1>10. /\ result \in Results \cup {"none"} /\ slot \in BOOLEAN /\ watch \in BOOLEAN
       /\ expired \in BOOLEAN /\ closeSend \in BOOLEAN
       /\ "unavailable" \in Results /\ "internal" \in Results
  BY <1>0 DEF ControlOK, Results
<1>11. CASE Deadline
  <2>1. UNCHANGED <<hpc, watch, slot, result, closeSend, half, gone, wsaw, header, wend, status>>
        /\ expired' = TRUE /\ hpc \in {"open", "select"}
    BY <1>11 DEF Deadline, clientVars, requestVars, answerVars, outVars
  <2>2. QED BY <1>9, <1>10, <2>1
<1>12. CASE HandlerNext \/ HandlerFetch \/ HandlerOpen
  <2>1. UNCHANGED <<watch, expired, closeSend, half, gone, wsaw, header, wend, status>>
    BY <1>12 DEF HandlerNext, HandlerFetch, HandlerOpen, HandlerReturn, clientVars, requestVars,
      answerVars, outVars
  <2>2. /\ hpc' \in {"fetch", "open", "select", "returned"}
        /\ slot' \in {slot, TRUE, FALSE} /\ result' \in {result, "unavailable"}
    BY <1>12 DEF HandlerNext, HandlerFetch, HandlerOpen, HandlerReturn
  <2>3. QED BY <1>9, <1>10, <2>1, <2>2
<1>13. CASE HandlerRequestErr
  <2>1. closeSend' \in BOOLEAN
    BY <1>10, <1>13 DEF HandlerRequestErr, HalfClose
  <2>2. /\ UNCHANGED <<half, gone, wsaw, header, wend, status>>
        /\ hpc' \in {"select", "returned"}
        /\ slot' \in {slot, FALSE} /\ result' \in {result, "internal"}
    BY <1>13 DEF HandlerRequestErr, HandlerReturn, clientVars, handlerVars, answerVars, outVars
  <2>3. UNCHANGED <<watch, expired>>
    BY <1>13 DEF HandlerRequestErr, HandlerReturn, handlerVars
  <2>4. QED BY <1>9, <1>10, <2>1, <2>2, <2>3
<1>14. CASE HandlerRequestDone
  <2>1. UNCHANGED <<hpc, slot, result, expired, closeSend, half, gone, wsaw, header, wend, status>>
        /\ watch' = FALSE /\ hpc = "select"
    BY <1>14 DEF HandlerRequestDone, clientVars, requestVars, answerVars, outVars
  <2>2. QED BY <1>9, <1>10, <2>1
<1>15. CASE HandlerResponseErr
  <2>1. PICK e \in ResponseErrs : dchan = <<e>>
    BY <1>15 DEF HandlerResponseErr, TypeOK, PumpsOK
  <2>2. result' \in Results
    BY <1>15, <2>1 DEF HandlerResponseErr, HandlerReturn, Results, ResponseErrs
  <2>3. UNCHANGED <<watch, expired, closeSend, half, gone, wsaw, header, wend, status>>
        /\ hpc' = "returned" /\ slot' = FALSE
    BY <1>15 DEF HandlerResponseErr, HandlerReturn, clientVars, requestVars, answerVars, outVars
  <2>4. QED BY <1>9, <1>10, <2>2, <2>3
<1>16. CASE Client
  BY <1>1, <1>2, <1>3, <1>16 DEF Client, ClientSend, ClientRead, controlVars, clientVars,
    handlerVars, requestVars, answerVars, outVars
<1>17. CASE Worker
  BY <1>1, <1>4, <1>5, <1>17 DEF Worker, WorkerRecv, WorkerSend, controlVars, clientVars,
    handlerVars, requestVars, answerVars, outVars
<1>18. CASE RequestPump \/ Over
  BY <1>1, <1>18 DEF RequestPump, RequestRecv, RequestSend, RequestReport, RequestClose, Over,
    vars, controlVars, clientVars, handlerVars, requestVars, answerVars, outVars
<1>19. CASE ResponsePump
  BY <1>1, <1>8, <1>19 DEF ResponsePump, ResponseRecv, ResponseSend, ResponseReport,
    ResponseClose, controlVars, clientVars, handlerVars, requestVars, answerVars, outVars
<1>20. QED BY <1>6, <1>7, <1>11, <1>12, <1>13, <1>14, <1>15, <1>16, <1>17, <1>18, <1>19,
    StreamResets DEF Next, Handler, Stream

\* The pumps and their channels keep their types.
LEMMA PumpsKept == ASSUME TypeOK, ErrsInv, Next PROVE PumpsOK' /\ ErrsInv'
<1>0. PumpsOK /\ ErrsInv /\ u \in PumpType(RequestErrs) /\ d \in PumpType(ResponseErrs)
  BY DEF TypeOK, PumpsOK
<1>1. {"recv", "header", "send", "report", "close", "done"} \subseteq PumpPcs /\ 0 \in Nat
  BY DEF PumpPcs
<1>2. /\ "eof" \in RequestErrs /\ "cancelled" \in RequestErrs
      /\ "closed" \in ResponseErrs
  BY DEF RequestErrs, ResponseErrs
<1>3. CASE UNCHANGED pumpVars
  BY <1>0, <1>3 DEF pumpVars, PumpsOK, ErrsInv
<1>4. CASE RequestRecv
  <2>1. up # <<>> => Head(up) \in Nat
    BY TailFollows DEF TypeOK, QueuesOK, IsQueue
  <2>2. PICK next \in PumpPcs, m \in Nat, e \in RequestErrs \cup {"none"} :
          u' = PumpGoto(u, next, m, e) /\ (next = "report" => e \in RequestErrs)
    BY <1>4, <2>1, <1>1, <1>2 DEF RequestRecv
  <2>3. u' \in PumpType(RequestErrs) /\ (u'.pc = "report" => u'.err \in RequestErrs)
    BY <1>0, <2>2, PumpStep
  <2>4. QED BY <1>0, <1>4, <2>3 DEF RequestRecv, PumpsOK, ErrsInv
<1>5. CASE RequestSend
  <2>1. PICK next \in PumpPcs, m \in Nat, e \in RequestErrs \cup {"none"} :
          u' = PumpGoto(u, next, m, e) /\ (next = "report" => e \in RequestErrs)
    BY <1>5, <1>1, <1>2 DEF RequestSend
  <2>2. u' \in PumpType(RequestErrs) /\ (u'.pc = "report" => u'.err \in RequestErrs)
    BY <1>0, <2>1, PumpStep
  <2>3. QED BY <1>0, <1>5, <2>2 DEF RequestSend, PumpsOK, ErrsInv
<1>6. CASE RequestReport
  <2>1. u' \in PumpType(RequestErrs) /\ u'.pc = "close"
    BY <1>0, <1>6, PumpStep DEF RequestReport, RequestErrs, PumpPcs
  <2>2. \E e \in RequestErrs : uchan' = <<e>>
    BY <1>0, <1>6 DEF RequestReport, ErrsInv
  <2>3. QED BY <1>0, <1>6, <2>1, <2>2 DEF RequestReport, PumpsOK, ErrsInv
<1>7. CASE RequestClose
  <2>1. u' \in PumpType(RequestErrs) /\ u'.pc = "done"
    BY <1>0, <1>7, PumpMove DEF RequestClose, PumpPcs
  <2>2. QED BY <1>0, <1>7, <2>1 DEF RequestClose, PumpsOK, ErrsInv
<1>8. CASE ResponseRecv
  <2>1. resp # <<>> => Head(resp) \in Nat
    BY TailFollows DEF TypeOK, QueuesOK, IsQueue
  <2>2. status # "none" => (IF status = "ok" THEN "eof" ELSE status) \in ResponseErrs
    BY DEF TypeOK, ControlOK, ResponseErrs
  <2>3. PICK next \in PumpPcs, m \in Nat, e \in ResponseErrs \cup {"none"} :
          d' = PumpGoto(d, next, m, e) /\ (next = "report" => e \in ResponseErrs)
    BY <1>8, <2>1, <2>2, <1>1 DEF ResponseRecv
  <2>4. d' \in PumpType(ResponseErrs) /\ (d'.pc = "report" => d'.err \in ResponseErrs)
    BY <1>0, <2>3, PumpStep
  <2>5. QED BY <1>0, <1>8, <2>4 DEF ResponseRecv, PumpsOK, ErrsInv
<1>9. CASE ResponseHeader
  <2>1. d' = [d EXCEPT !.pc = "send"] \/ d' = PumpGoto(d, "report", 0, "closed")
    BY <1>9 DEF ResponseHeader
  <2>2. d' = [d EXCEPT !.pc = "send"] => d' \in PumpType(ResponseErrs) /\ d'.pc = "send"
    BY <1>0, PumpMove, <1>1
  <2>3. d' = PumpGoto(d, "report", 0, "closed") => d' \in PumpType(ResponseErrs) /\ d'.err = "closed"
    BY <1>0, PumpStep, <1>1, <1>2
  <2>4. QED BY <1>0, <1>9, <1>2, <2>1, <2>2, <2>3 DEF ResponseHeader, PumpsOK, ErrsInv
<1>10. CASE ResponseSend
  <2>1. PICK next \in PumpPcs, m \in Nat, e \in ResponseErrs \cup {"none"} :
          d' = PumpGoto(d, next, m, e) /\ (next = "report" => e \in ResponseErrs)
    BY <1>10, <1>1, <1>2 DEF ResponseSend
  <2>2. d' \in PumpType(ResponseErrs) /\ (d'.pc = "report" => d'.err \in ResponseErrs)
    BY <1>0, <2>1, PumpStep
  <2>3. QED BY <1>0, <1>10, <2>2 DEF ResponseSend, PumpsOK, ErrsInv
<1>11. CASE ResponseReport
  <2>1. d' \in PumpType(ResponseErrs) /\ d'.pc = "close"
    BY <1>0, <1>11, PumpStep DEF ResponseReport, ResponseErrs, PumpPcs
  <2>2. \E e \in ResponseErrs : dchan' = <<e>>
    BY <1>0, <1>11 DEF ResponseReport, ErrsInv
  <2>3. QED BY <1>0, <1>11, <2>1, <2>2 DEF ResponseReport, PumpsOK, ErrsInv
<1>12. CASE ResponseClose
  <2>1. d' \in PumpType(ResponseErrs) /\ d'.pc = "done"
    BY <1>0, <1>12, PumpMove DEF ResponseClose, PumpPcs
  <2>2. QED BY <1>0, <1>12, <2>1 DEF ResponseClose, PumpsOK, ErrsInv
<1>13. CASE HandlerOpen
  <2>1. CASE UNCHANGED <<u, d>>
    BY <1>0, <1>13, <2>1 DEF HandlerOpen, PumpsOK, ErrsInv
  <2>2. CASE u' = [u EXCEPT !.pc = "recv"] /\ d' = [d EXCEPT !.pc = "first"]
    <3>1. u' \in PumpType(RequestErrs) /\ u'.pc = "recv"
      BY <1>0, <2>2, PumpMove DEF PumpPcs
    <3>2. d' \in PumpType(ResponseErrs) /\ d'.pc = "first"
      BY <1>0, <2>2, PumpMove DEF PumpPcs
    <3>3. QED BY <1>0, <1>13, <3>1, <3>2 DEF HandlerOpen, PumpsOK, ErrsInv
  <2>3. QED BY <1>13, <2>1, <2>2 DEF HandlerOpen
<1>14. CASE HandlerRequestErr
  BY <1>0, <1>14 DEF HandlerRequestErr, PumpsOK, ErrsInv
<1>15. CASE HandlerResponseErr
  BY <1>0, <1>15 DEF HandlerResponseErr, PumpsOK, ErrsInv
<1>16. CASE Client \/ Worker
  BY <1>3, <1>16 DEF Client, ClientSend, ClientHalfClose, ClientGone, ClientRead, Worker,
    WorkerRecv, WorkerSeesHalfClose, WorkerSend, WorkerEnd
<1>17. CASE Stream
  BY <1>3, <1>17 DEF Stream, StreamEnd, StreamLost, StreamCancel, StreamReset
<1>18. CASE Deadline \/ HandlerNext \/ HandlerFetch \/ HandlerRequestDone \/ Over
  BY <1>3, <1>18 DEF Deadline, HandlerNext, HandlerFetch, HandlerRequestDone, Over, vars
<1>19. QED
  BY <1>4, <1>5, <1>6, <1>7, <1>8, <1>9, <1>10, <1>11, <1>12, <1>13, <1>14, <1>15, <1>16, <1>17,
    <1>18 DEF Next, RequestPump, ResponsePump, Handler

\* The queues keep their types and their bound.
LEMMA QueuesKept == ASSUME TypeOK, Next PROVE QueuesOK'
<1>0. QueuesOK
  BY DEF TypeOK
<1>1. CASE UNCHANGED queueVars
  BY <1>0, <1>1 DEF queueVars, QueuesOK, IsQueue
<1>2. Window \in Nat /\ \A q, m : IsQueue(q) /\ Len(q) < Window /\ m \in Nat => IsQueue(Append(q, m))
  BY ProxyAssumption, AppendFollows, LenProperties DEF IsQueue
<1>3. \A q : IsQueue(q) /\ q # <<>> => IsQueue(Tail(q)) /\ Head(q) \in Nat
  BY <1>2, TailFollows, LenProperties DEF IsQueue
<1>4. CASE ClientSend
  <2>0. sent' \in Nat /\ up' = Append(up, sent') /\ IsQueue(up) /\ Len(up) < Window
    BY <1>0, <1>4 DEF ClientSend, QueuesOK
  <2>1. sent' \in Nat /\ IsQueue(up')
    BY <1>2, <2>0
  <2>2. QED BY <1>0, <1>4, <2>1 DEF ClientSend, QueuesOK, requestVars, answerVars, outVars
<1>5. CASE ClientRead
  BY <1>0, <1>3, <1>5, AppendFollows DEF ClientRead, QueuesOK, clientVars, requestVars, answerVars
<1>6. CASE WorkerRecv
  BY <1>0, <1>3, <1>6, AppendFollows DEF WorkerRecv, QueuesOK, clientVars, answerVars, outVars
<1>7. CASE WorkerSend
  <2>0. answered' \in Nat /\ resp' = Append(resp, answered') /\ IsQueue(resp) /\ Len(resp) < Window
    BY <1>0, <1>7 DEF WorkerSend, QueuesOK
  <2>1. answered' \in Nat /\ IsQueue(resp')
    BY <1>2, <2>0
  <2>2. QED BY <1>0, <1>7, <2>1 DEF WorkerSend, QueuesOK, clientVars, requestVars, outVars
<1>8. ASSUME NEW e \in Resets, Reset(e) PROVE QueuesOK'
  <2>1. IsQueue(resp')
    BY <1>0, <1>2, <1>8, PrefixFollows, LenProperties DEF Reset, StreamReset, QueuesOK, IsQueue
  <2>2. QED BY <1>0, <1>8, <2>1 DEF Reset, StreamReset, QueuesOK, clientVars, requestVars, outVars
<1>9. CASE RequestRecv
  BY <1>0, <1>3, <1>9 DEF RequestRecv, QueuesOK, requestVars, answerVars, outVars
<1>10. CASE RequestSend
  <2>1. u.msg \in Nat
    BY DEF TypeOK, PumpsOK, PumpType
  <2>2. QED BY <1>0, <1>2, <1>10, <2>1 DEF RequestSend, QueuesOK, clientVars, answerVars, outVars
<1>11. CASE ResponseRecv
  BY <1>0, <1>3, <1>11 DEF ResponseRecv, QueuesOK, clientVars, requestVars, outVars
<1>12. CASE ResponseSend
  <2>1. d.msg \in Nat
    BY DEF TypeOK, PumpsOK, PumpType
  <2>2. QED BY <1>0, <1>2, <1>12, <2>1 DEF ResponseSend, QueuesOK, clientVars, requestVars, answerVars
<1>13. CASE ClientHalfClose \/ ClientGone \/ WorkerSeesHalfClose \/ WorkerEnd
  BY <1>1, <1>13 DEF ClientHalfClose, ClientGone, WorkerSeesHalfClose, WorkerEnd, queueVars,
    clientVars, requestVars, answerVars, outVars
<1>14. CASE StreamEnd \/ Deadline \/ Over \/ RequestReport \/ RequestClose
  BY <1>1, <1>14 DEF StreamEnd, Deadline, Over, RequestReport, RequestClose, queueVars, vars,
    clientVars, requestVars, answerVars, outVars
<1>15. CASE ResponseHeader \/ ResponseReport \/ ResponseClose
  BY <1>1, <1>15 DEF ResponseHeader, ResponseReport, ResponseClose, queueVars, clientVars,
    requestVars, answerVars, outVars
<1>16. CASE Handler
  BY <1>1, <1>16 DEF Handler, HandlerNext, HandlerFetch, HandlerOpen, HandlerRequestErr,
    HandlerRequestDone, HandlerResponseErr, queueVars, clientVars, requestVars, answerVars, outVars
<1>17. QED
  BY <1>4, <1>5, <1>6, <1>7, <1>8, <1>9, <1>10, <1>11, <1>12, <1>13, <1>14, <1>15, <1>16,
    StreamResets DEF Next, Client, Worker, Stream, RequestPump, ResponsePump

\* Types are kept.
LEMMA TypesKept == ASSUME TypeOK, ErrsInv, [Next]_vars PROVE TypeOK' /\ ErrsInv'
<1>1. CASE Next
  BY <1>1, ControlKept, PumpsKept, QueuesKept DEF TypeOK
<1>2. CASE UNCHANGED vars
  BY <1>2 DEF vars, clientVars, handlerVars, pumpVars, requestVars, answerVars, outVars, TypeOK,
    ControlOK, PumpsOK, QueuesOK, IsQueue, ErrsInv
<1>3. QED BY <1>1, <1>2

-----------------------------------------------------------------------------
(* The requests.                                                           *)

requestPart == <<sent, up, half, u, uchan, status, req, closeSend, wgot, wsaw>>

\* Nothing has been sent.
LEMMA InitRequest == Init => RequestInv
  BY EmptySeq DEF Init, RequestInv, Asked, RequestHeld, RequestRuns, RequestErr, AllAsked, Follows

\* The client's sends and the worker's receives keep the requests in order.
LEMMA RequestSides ==
  ASSUME ProxyInv, ClientSend \/ ClientHalfClose \/ WorkerRecv \/ WorkerSeesHalfClose
  PROVE  RequestInv'
<1>0. /\ up \in Seq(Nat) /\ req \in Seq(Nat) /\ wgot \in Seq(Nat) /\ sent \in Nat
      /\ Len(up) \in Nat /\ Len(req) \in Nat /\ Len(wgot) \in Nat
      /\ RequestInv
  BY LenProperties DEF ProxyInv, TypeOK, QueuesOK, IsQueue
<1>1. CASE ClientSend
  <2>1. up' = Append(up, sent + 1) /\ sent' = sent + 1 /\ ~half
        /\ UNCHANGED <<half, pumpVars, requestVars, status>>
    BY <1>1 DEF ClientSend, answerVars
  <2>2. Len(up') = Len(up) + 1
    BY <1>0, <2>1, AppendFollows
  <2>3. Asked + RequestHeld \in Nat
    BY <1>0 DEF Asked, RequestHeld
  <2>4. RequestRuns => Follows(up', Asked + RequestHeld) /\ Asked + RequestHeld + Len(up') = sent'
    <3>1. SUFFICES ASSUME RequestRuns
                   PROVE  Follows(up', Asked + RequestHeld) /\ Asked + RequestHeld + Len(up') = sent'
      OBVIOUS
    <3>2. PICK f \in Nat : f = Asked + RequestHeld
      BY <2>3
    <3>3. Follows(up, f) /\ sent + 1 = f + Len(up) + 1 /\ sent + 1 \in Nat
      BY <1>0, <3>1, <3>2 DEF RequestInv
    <3>4. Follows(Append(up, sent + 1), f)
      BY <1>0, <3>3, AppendFollows
    <3>5. QED BY <1>0, <2>1, <2>2, <3>2, <3>3, <3>4
  <2>5. ~closeSend /\ ~wsaw /\ ~(RequestErr("eof") /\ status = "none")
    BY <1>0, <2>1 DEF RequestInv, AllAsked
  <2>6. UNCHANGED <<Asked, RequestHeld>> /\ (RequestRuns' => RequestRuns)
        /\ (RequestErr("eof")' => RequestErr("eof"))
    BY <2>1 DEF RequestRuns, Asked, RequestHeld, RequestErr, pumpVars, requestVars
  <2>7. UNCHANGED <<u, uchan, status, req, closeSend, wgot, wsaw>>
    BY <2>1 DEF pumpVars, requestVars
  <2>8. QED
    BY <1>0, <2>4, <2>5, <2>6, <2>7 DEF RequestInv
<1>2. CASE ClientHalfClose
  BY <1>0, <1>2 DEF ClientHalfClose, RequestInv, RequestErr, RequestRuns, RequestHeld, AllAsked,
    Asked, pumpVars, requestVars, answerVars
<1>3. CASE WorkerRecv
  <2>1. req # <<>> /\ wgot' = Append(wgot, Head(req)) /\ req' = Tail(req)
        /\ UNCHANGED <<sent, up, half, u, uchan, status, closeSend, wsaw>>
    BY <1>3 DEF WorkerRecv, clientVars, pumpVars, answerVars
  <2>2. Head(req) = Len(wgot) + 1 /\ Head(req) \in Nat /\ Follows(req', Len(wgot) + 1)
        /\ Len(req') = Len(req) - 1
    BY <1>0, <2>1, TailFollows DEF RequestInv
  <2>3. Len(wgot') = Len(wgot) + 1 /\ Follows(wgot', 0)
    BY <1>0, <2>1, <2>2, AppendFollows DEF RequestInv
  <2>4. UNCHANGED <<Asked, RequestHeld>>
    BY <1>0, <2>1, <2>2, <2>3 DEF Asked, RequestHeld
  <2>5. RequestErr("eof")' = RequestErr("eof")
    BY <2>1 DEF RequestErr
  <2>6. (AllAsked => AllAsked') /\ (RequestRuns' => RequestRuns) /\ ~wsaw' /\ u.pc # "off"
        /\ (closeSend' => closeSend /\ ~RequestRuns')
    BY <1>0, <2>1, <2>4 DEF AllAsked, RequestRuns, RequestInv
  <2>7. QED
    BY <1>0, <2>1, <2>2, <2>3, <2>4, <2>5, <2>6 DEF RequestInv
<1>4. CASE WorkerSeesHalfClose
  BY <1>0, <1>4 DEF WorkerSeesHalfClose, RequestInv, RequestErr, RequestRuns, RequestHeld,
    AllAsked, Asked, clientVars, pumpVars, answerVars
<1>5. QED BY <1>1, <1>2, <1>3, <1>4

\* The request pump keeps the requests in order.
LEMMA RequestPumped ==
  ASSUME ProxyInv, RequestPump
  PROVE  RequestInv'
<1>0. /\ up \in Seq(Nat) /\ req \in Seq(Nat) /\ wgot \in Seq(Nat) /\ sent \in Nat
      /\ Len(up) \in Nat /\ Len(req) \in Nat /\ Len(wgot) \in Nat
      /\ u \in PumpType(RequestErrs) /\ RequestInv
  BY LenProperties DEF ProxyInv, TypeOK, QueuesOK, IsQueue, PumpsOK
<1>1. CASE RequestRecv
  <2>0. /\ u.pc = "recv" /\ RequestRuns /\ RequestHeld = 0 /\ uchan = <<>> /\ ~closeSend /\ ~wsaw
        /\ Follows(up, Asked) /\ Asked + Len(up) = sent /\ Asked \in Nat
        /\ UNCHANGED <<sent, half, uchan, status, req, closeSend, wgot, wsaw, Asked>>
    <3>1. u.pc = "recv" /\ UNCHANGED <<sent, half, uchan, status, req, closeSend, wgot, wsaw>>
      BY <1>1 DEF RequestRecv, requestVars, answerVars
    <3>2. RequestRuns /\ RequestHeld = 0 /\ Asked \in Nat /\ UNCHANGED Asked
      BY <1>0, <3>1 DEF RequestRuns, RequestHeld, Asked
    <3>3. uchan = <<>> /\ ~closeSend /\ ~wsaw
      BY <1>0, <3>1, <3>2 DEF RequestInv
    <3>4. Asked + RequestHeld = Asked
      BY <3>2
    <3>5. QED BY <1>0, <3>1, <3>2, <3>3, <3>4 DEF RequestInv
  <2>1. CASE up # <<>> /\ u' = PumpGoto(u, "send", Head(up), "none") /\ up' = Tail(up)
    <3>1. /\ Head(up) = Asked + 1 /\ Head(up) \in Nat /\ Len(up') = Len(up) - 1
          /\ Follows(up', Asked + 1)
      BY <1>0, <2>0, <2>1, TailFollows
    <3>2. u'.pc = "send" /\ u'.msg = Asked + 1
      BY <1>0, <2>1, <3>1, PumpFields
    <3>3. RequestRuns' /\ RequestHeld' = 1 /\ ~RequestErr("eof")'
      BY <2>0, <3>2 DEF RequestRuns, RequestHeld, RequestErr
    <3>4. Asked' + RequestHeld' = Asked + 1
      BY <2>0, <3>3
    <3>5. Asked + 1 + Len(up') = sent'
      <4>1. Len(up) \in Nat /\ Asked \in Nat /\ Asked + Len(up) = sent /\ sent' = sent
        BY <1>0, <2>0
      <4>2. Len(up') = Len(up) - 1
        BY <3>1
      <4>3. QED BY <4>1, <4>2
    <3>6. QED BY <1>0, <2>0, <3>1, <3>2, <3>3, <3>4, <3>5 DEF RequestInv
  <2>2. CASE up = <<>> /\ half /\ u' = PumpGoto(u, "report", 0, "eof") /\ UNCHANGED up
    <3>1. u'.pc = "report" /\ ~RequestRuns'
      BY <1>0, <2>2, PumpFields DEF RequestRuns
    <3>2. AllAsked'
      BY <1>0, <2>0, <2>2, EmptySeq DEF AllAsked
    <3>3. QED BY <1>0, <2>0, <2>2, <3>1, <3>2 DEF RequestInv
  <2>3. CASE u' = PumpGoto(u, "report", 0, "cancelled") /\ UNCHANGED up
    <3>1. u'.pc = "report" /\ u'.err = "cancelled" /\ ~RequestRuns'
      BY <1>0, <2>3, PumpFields DEF RequestRuns
    <3>2. ~RequestErr("eof")'
      BY <2>0, <3>1 DEF RequestErr
    <3>3. QED BY <1>0, <2>0, <2>3, <3>1, <3>2 DEF RequestInv
  <2>4. QED BY <1>1, <2>1, <2>2, <2>3 DEF RequestRecv
<1>2. CASE RequestSend
  <2>0. /\ u.pc = "send" /\ RequestRuns /\ RequestHeld = 1 /\ uchan = <<>> /\ ~closeSend /\ ~wsaw
        /\ u.msg = Asked + 1 /\ Follows(up, Asked + 1) /\ Asked + 1 + Len(up) = sent /\ Asked \in Nat
        /\ UNCHANGED <<sent, up, half, uchan, status, closeSend, wgot, wsaw>>
    <3>1. u.pc = "send" /\ UNCHANGED <<sent, up, half, uchan, status, closeSend, wgot, wsaw>>
      BY <1>2 DEF RequestSend, clientVars, answerVars
    <3>2. RequestRuns /\ RequestHeld = 1 /\ Asked \in Nat
      BY <1>0, <3>1 DEF RequestRuns, RequestHeld, Asked
    <3>3. uchan = <<>> /\ ~closeSend /\ ~wsaw
      BY <1>0, <3>1, <3>2 DEF RequestInv
    <3>4. QED BY <1>0, <3>1, <3>2, <3>3 DEF RequestInv
  <2>1. CASE status = "none" /\ req' = Append(req, u.msg) /\ u' = PumpGoto(u, "recv", 0, "none")
    <3>1. u.msg \in Nat /\ u.msg = Len(wgot) + Len(req) + 1
      BY <1>0, <2>0 DEF Asked
    <3>2. Follows(req', Len(wgot)) /\ Len(req') = Len(req) + 1
      BY <1>0, <2>1, <3>1, AppendFollows DEF RequestInv
    <3>3. u'.pc = "recv"
      BY <1>0, <2>1, PumpFields
    <3>4. RequestRuns' /\ RequestHeld' = 0 /\ ~RequestErr("eof")' /\ Asked' = Asked + 1
      BY <1>0, <2>0, <3>2, <3>3 DEF RequestRuns, RequestHeld, RequestErr, Asked
    <3>5. Asked' + RequestHeld' = Asked + 1
      BY <2>0, <3>4
    <3>6. QED BY <1>0, <2>0, <2>1, <3>2, <3>3, <3>4, <3>5 DEF RequestInv
  <2>2. CASE status # "none" /\ u' = PumpGoto(u, "report", 0, "eof") /\ UNCHANGED req
    <3>1. u'.pc = "report" /\ ~RequestRuns'
      BY <1>0, <2>2, PumpFields DEF RequestRuns
    <3>2. QED BY <1>0, <2>0, <2>2, <3>1 DEF RequestInv
  <2>3. QED BY <1>2, <2>1, <2>2 DEF RequestSend
<1>3. CASE RequestReport
  <2>1. u.pc = "report" /\ uchan' = <<u.err>> /\ u' = PumpGoto(u, "close", 0, "none")
        /\ UNCHANGED <<sent, up, half, status, req, closeSend, wgot, wsaw>>
    BY <1>3 DEF RequestReport, clientVars, requestVars, answerVars
  <2>2. u'.pc = "close"
    BY <1>0, <2>1, PumpFields
  <2>3. RequestErr("eof")' => RequestErr("eof")
    BY <2>1, <2>2 DEF RequestErr
  <2>4. ~RequestRuns' /\ ~RequestRuns /\ UNCHANGED AllAsked
    BY <2>1, <2>2 DEF RequestRuns, AllAsked, Asked
  <2>5. QED BY <1>0, <2>1, <2>2, <2>3, <2>4 DEF RequestInv
<1>4. CASE RequestClose
  <2>1. u.pc = "close" /\ u' = [u EXCEPT !.pc = "done"]
        /\ UNCHANGED <<sent, up, half, uchan, status, req, closeSend, wgot, wsaw>>
    BY <1>4 DEF RequestClose, clientVars, requestVars, answerVars
  <2>2. u'.pc = "done"
    BY <1>0, <2>1, PumpMove DEF PumpPcs
  <2>3. RequestErr("eof")' => RequestErr("eof")
    BY <2>1, <2>2 DEF RequestErr
  <2>4. ~RequestRuns' /\ ~RequestRuns /\ UNCHANGED AllAsked
    BY <2>1, <2>2 DEF RequestRuns, AllAsked, Asked
  <2>5. QED BY <1>0, <2>1, <2>2, <2>3, <2>4 DEF RequestInv
<1>5. QED BY <1>1, <1>2, <1>3, <1>4 DEF RequestPump

\* The handler half-closes only when all requests are on their way; a stream that ends says
\* nothing of them.
LEMMA RequestHandled ==
  ASSUME ProxyInv, HandlerOpen \/ HandlerRequestErr \/ StreamEnd \/ \E e \in Resets : Reset(e)
  PROVE  RequestInv'
<1>0. RequestInv /\ u \in PumpType(RequestErrs) /\ PumpsOK /\ StatusInv
  BY DEF ProxyInv, TypeOK, PumpsOK
<1>1. CASE HandlerOpen
  <2>1. UNCHANGED <<sent, up, half, uchan, status, req, closeSend, wgot, wsaw>> /\ u.pc = "off"
    BY <1>0, <1>1 DEF HandlerOpen, clientVars, requestVars, answerVars, StatusInv
  <2>2. CASE UNCHANGED u
    BY <1>0, <2>1, <2>2 DEF RequestInv, RequestRuns, RequestHeld, Asked, RequestErr, AllAsked
  <2>3. CASE u' = [u EXCEPT !.pc = "recv"]
    <3>1. u'.pc = "recv"
      BY <1>0, <2>3, PumpMove DEF PumpPcs
    <3>2. RequestRuns /\ RequestRuns' /\ RequestHeld = 0 /\ RequestHeld' = 0 /\ UNCHANGED <<Asked, AllAsked>>
      BY <2>1, <3>1 DEF RequestRuns, RequestHeld, Asked, AllAsked
    <3>3. RequestErr("eof")' => RequestErr("eof")
      BY <2>1, <3>1 DEF RequestErr
    <3>4. QED BY <1>0, <2>1, <3>1, <3>2, <3>3 DEF RequestInv
  <2>4. QED BY <1>1, <2>2, <2>3 DEF HandlerOpen
<1>2. CASE HandlerRequestErr
  <2>1. uchan # <<>> /\ uchan' = <<>> /\ UNCHANGED <<sent, up, half, u, status, req, wgot, wsaw>>
    BY <1>2 DEF HandlerRequestErr, clientVars, answerVars
  <2>2. u.pc \in {"close", "done"} /\ ~RequestRuns /\ ~RequestErr("eof")'
    BY <1>0, <2>1 DEF RequestInv, RequestRuns, RequestErr
  <2>3. closeSend' => closeSend \/ (uchan = <<"eof">> /\ status = "none")
    <3>1. PICK e \in RequestErrs : uchan = <<e>>
      BY <1>0, <2>1 DEF PumpsOK
    <3>2. Head(uchan) = e
      BY <3>1
    <3>3. QED BY <1>2, <3>1, <3>2 DEF HandlerRequestErr, HalfClose
  <2>4. closeSend' => AllAsked'
    BY <1>0, <2>1, <2>3 DEF RequestInv, RequestErr, AllAsked, Asked
  <2>5. closeSend => closeSend'
    BY <1>2 DEF HandlerRequestErr, HalfClose
  <2>6. QED BY <1>0, <2>1, <2>2, <2>4, <2>5 DEF RequestInv, RequestRuns
<1>3. ASSUME UNCHANGED <<sent, up, half, u, uchan, req, closeSend, wgot, wsaw>>, status' # "none"
      PROVE  RequestInv'
  BY <1>0, <1>3 DEF RequestInv, RequestRuns, RequestHeld, Asked, RequestErr, AllAsked
<1>4. CASE StreamEnd
  BY <1>3, <1>4 DEF StreamEnd, ProxyInv, TypeOK, ControlOK, clientVars, pumpVars, requestVars
<1>5. ASSUME NEW e \in Resets, Reset(e) PROVE RequestInv'
  BY <1>3, <1>5 DEF Reset, StreamReset, Resets, clientVars, pumpVars, requestVars
<1>6. QED BY <1>1, <1>2, <1>4, <1>5

\* Every step keeps what is known of the requests.
LEMMA RequestKept == ASSUME ProxyInv, [Next]_vars PROVE RequestInv'
<1>1. CASE UNCHANGED requestPart
  BY <1>1 DEF requestPart, ProxyInv, RequestInv, RequestRuns, RequestHeld, Asked, RequestErr, AllAsked
<1>2. CASE Client
  BY <1>1, <1>2, RequestSides DEF Client, ClientGone, ClientRead, requestPart, clientVars, pumpVars,
    requestVars, answerVars
<1>3. CASE Worker
  BY <1>1, <1>3, RequestSides DEF Worker, WorkerSend, WorkerEnd, requestPart, clientVars, pumpVars,
    requestVars
<1>4. CASE ResponsePump
  BY <1>1, <1>4 DEF ResponsePump, ResponseRecv, ResponseHeader, ResponseSend, ResponseReport,
    ResponseClose, requestPart, clientVars, requestVars, answerVars
<1>5. CASE Handler
  BY <1>1, <1>5, RequestHandled DEF Handler, HandlerNext, HandlerFetch, HandlerRequestDone,
    HandlerResponseErr, requestPart, clientVars, pumpVars, requestVars, answerVars
<1>6. CASE Deadline \/ UNCHANGED vars
  BY <1>1, <1>6 DEF Deadline, vars, requestPart, clientVars, pumpVars, requestVars, answerVars
<1>7. QED BY <1>2, <1>3, <1>4, <1>5, <1>6, RequestPumped, RequestHandled, StreamResets
  DEF Next, Stream, Over
-----------------------------------------------------------------------------
(* The responses.                                                          *)

responsePart == <<d, dchan, resp, status, wend, answered, header, down, got, result>>

\* Nothing has been answered.
LEMMA InitResponse == Init => ResponseInv
  BY EmptySeq DEF Init, ResponseInv, Told, ResponseHeld, ResponseRuns, ResponseErr, Follows

\* The types that the steps of the responses need.
LEMMA ResponseTypes ==
  ASSUME ProxyInv
  PROVE  /\ resp \in Seq(Nat) /\ down \in Seq(Nat) /\ got \in Seq(Nat) /\ answered \in Nat
         /\ Len(resp) \in Nat /\ Len(down) \in Nat /\ Len(got) \in Nat
         /\ Told \in Nat /\ ResponseHeld \in {0, 1} /\ Told + ResponseHeld \in Nat
         /\ d \in PumpType(ResponseErrs) /\ ResponseInv
<1>1. /\ resp \in Seq(Nat) /\ down \in Seq(Nat) /\ got \in Seq(Nat) /\ answered \in Nat
      /\ d \in PumpType(ResponseErrs) /\ ResponseInv
  BY DEF ProxyInv, TypeOK, QueuesOK, IsQueue, PumpsOK
<1>2. Len(resp) \in Nat /\ Len(down) \in Nat /\ Len(got) \in Nat
  BY <1>1, LenProperties
<1>3. QED BY <1>1, <1>2 DEF Told, ResponseHeld

\* The client's receives and the worker's sends keep the responses in order.
LEMMA ResponseEnds ==
  ASSUME ProxyInv, ClientRead \/ WorkerSend \/ WorkerEnd
  PROVE  ResponseInv'
<1>1. CASE ClientRead
  <2>1. down # <<>> /\ got' = Append(got, Head(down)) /\ down' = Tail(down)
        /\ UNCHANGED <<d, dchan, resp, status, wend, answered, header, result>>
    BY <1>1 DEF ClientRead, handlerVars, pumpVars, answerVars
  <2>2. Head(down) = Len(got) + 1 /\ Head(down) \in Nat /\ Follows(down', Len(got) + 1)
        /\ Len(down') = Len(down) - 1
    BY <2>1, ResponseTypes, TailFollows DEF ResponseInv
  <2>3. Len(got') = Len(got) + 1 /\ Follows(got', 0)
    BY <2>1, <2>2, ResponseTypes, AppendFollows DEF ResponseInv
  <2>4. UNCHANGED <<Told, ResponseHeld>>
    BY <2>1, <2>2, <2>3, ResponseTypes DEF Told, ResponseHeld
  <2>5. /\ ResponseRuns' => ResponseRuns
        /\ ResponseErr("eof")' => ResponseErr("eof")
        /\ ResponseErr("failed")' => ResponseErr("failed")
    BY <2>1 DEF ResponseErr, ResponseRuns
  <2>6. QED
    BY <2>1, <2>2, <2>3, <2>4, <2>5, ResponseTypes DEF ResponseInv
<1>2. CASE WorkerSend
  <2>1. resp' = Append(resp, answered + 1) /\ answered' = answered + 1 /\ status = "none"
        /\ UNCHANGED <<d, dchan, status, wend, header, down, got, result>>
    BY <1>2 DEF WorkerSend, handlerVars, pumpVars, outVars
  <2>2. UNCHANGED <<Told, ResponseHeld>>
    BY <2>1 DEF Told, ResponseHeld
  <2>3. /\ ResponseRuns' => ResponseRuns
        /\ ResponseErr("eof")' => ResponseErr("eof")
        /\ ResponseErr("failed")' => ResponseErr("failed")
    BY <2>1 DEF ResponseErr, ResponseRuns
  <2>4. ASSUME ResponseRuns
        PROVE  Follows(resp', Told + ResponseHeld) /\ Told + ResponseHeld + Len(resp') = answered'
    <3>1. PICK f \in Nat : f = Told + ResponseHeld
      BY ResponseTypes
    <3>2. Follows(resp, f) /\ answered + 1 = f + Len(resp) + 1 /\ answered + 1 \in Nat
      BY <2>1, <2>4, <3>1, ResponseTypes DEF ResponseInv
    <3>3. Follows(Append(resp, answered + 1), f)
          /\ Len(Append(resp, answered + 1)) = Len(resp) + 1
      BY <3>2, ResponseTypes, AppendFollows
    <3>4. QED BY <2>1, <3>1, <3>2, <3>3, ResponseTypes
  <2>5. result \notin {"ok", "failed"}
    BY <2>1, ResponseTypes DEF ResponseInv
  <2>6. QED
    BY <2>1, <2>2, <2>3, <2>4, <2>5, ResponseTypes DEF ResponseInv
<1>3. CASE WorkerEnd
  <2>1. wend = "running" /\ UNCHANGED <<d, dchan, resp, status, answered, header, down, got, result>>
    BY <1>3 DEF WorkerEnd, handlerVars, pumpVars, outVars
  <2>2. QED
    BY <2>1, ResponseTypes DEF ResponseInv, Told, ResponseHeld, ResponseRuns, ResponseErr
<1>4. QED BY <1>1, <1>2, <1>3

\* A stream that ends keeps what has arrived; one that is cut loses the end of it.
LEMMA ResponseStreamed ==
  ASSUME ProxyInv, StreamEnd \/ \E e \in Resets : Reset(e)
  PROVE  ResponseInv'
<1>0. status = "none" => /\ ~ResponseErr("eof") /\ ~ResponseErr("failed")
                         /\ result \notin {"ok", "failed"}
  BY ResponseTypes DEF ResponseInv
<1>1. CASE StreamEnd
  <2>1. status = "none" /\ status' = wend
        /\ UNCHANGED <<d, dchan, resp, wend, answered, header, down, got, result>>
    BY <1>1 DEF StreamEnd, handlerVars, pumpVars, outVars
  <2>2. UNCHANGED <<Told, ResponseHeld>> /\ (ResponseRuns' => ResponseRuns)
        /\ ~ResponseErr("eof")' /\ ~ResponseErr("failed")'
    BY <1>0, <2>1 DEF Told, ResponseHeld, ResponseRuns, ResponseErr
  <2>3. QED BY <1>0, <2>1, <2>2, ResponseTypes DEF ResponseInv
<1>2. ASSUME NEW e \in Resets, Reset(e) PROVE ResponseInv'
  <2>1. status = "none" /\ status' \notin {"none", "ok", "failed"} /\ resp' \in Prefixes(resp)
        /\ UNCHANGED <<d, dchan, wend, answered, header, down, got, result>>
    BY <1>2 DEF Reset, StreamReset, Resets, handlerVars, pumpVars, outVars
  <2>2. UNCHANGED <<Told, ResponseHeld>> /\ (ResponseRuns' => ResponseRuns)
        /\ ~ResponseErr("eof")' /\ ~ResponseErr("failed")'
    BY <1>0, <2>1 DEF Told, ResponseHeld, ResponseRuns, ResponseErr
  <2>3. Follows(resp, Told + ResponseHeld) => Follows(resp', Told + ResponseHeld)
    BY <2>1, ResponseTypes, PrefixFollows
  <2>4. QED BY <1>0, <2>1, <2>2, <2>3, ResponseTypes DEF ResponseInv
<1>3. QED BY <1>1, <1>2

\* The response pump keeps the responses in order and reports the worker's status last.
LEMMA ResponsePumped ==
  ASSUME ProxyInv, ResponsePump
  PROVE  ResponseInv'
<1>1. CASE ResponseRecv
  <2>0. /\ ResponseRuns /\ ResponseHeld = 0 /\ dchan = <<>> /\ result \notin {"ok", "failed"}
        /\ Follows(resp, Told) /\ (d.pc = "recv" => header)
        /\ status \in {"ok", "failed"} => Told + Len(resp) = answered
        /\ status = "none" => Told + Len(resp) = answered
        /\ UNCHANGED <<dchan, status, wend, answered, header, down, got, result, Told>>
    <3>1. d.pc \in {"first", "recv"}
          /\ UNCHANGED <<dchan, status, wend, answered, header, down, got, result>>
      BY <1>1 DEF ResponseRecv, handlerVars, outVars
    <3>2. ResponseRuns /\ ResponseHeld = 0 /\ UNCHANGED Told
      BY <3>1 DEF ResponseRuns, ResponseHeld, Told
    <3>3. Told + ResponseHeld = Told
      BY <3>2, ResponseTypes
    <3>4. QED BY <3>1, <3>2, <3>3, ResponseTypes DEF ResponseInv
  <2>1. ASSUME NEW next \in {"header", "send"}, next = "send" => d.pc = "recv", resp # <<>>,
               d' = PumpGoto(d, next, Head(resp), "none"), resp' = Tail(resp)
        PROVE  ResponseInv'
    <3>1. /\ Head(resp) = Told + 1 /\ Len(resp') = Len(resp) - 1 /\ Follows(resp', Told + 1)
      BY <2>0, <2>1, ResponseTypes, TailFollows
    <3>2. d'.pc = next /\ d'.msg = Told + 1
      BY <2>1, <3>1, ResponseTypes, PumpFields
    <3>3. /\ ResponseRuns' /\ ResponseHeld' = 1
          /\ ~ResponseErr("eof")' /\ ~ResponseErr("failed")'
      BY <2>0, <2>1, <3>2 DEF ResponseRuns, ResponseHeld, ResponseErr
    <3>4. Told' + ResponseHeld' = Told + 1
      BY <2>0, <3>3
    <3>5. Told + Len(resp) = answered => Told + 1 + Len(resp') = answered
      BY <3>1, ResponseTypes
    <3>6. QED BY <2>0, <2>1, <3>1, <3>2, <3>3, <3>4, <3>5, ResponseTypes DEF ResponseInv
  <2>2. CASE /\ resp = <<>> /\ status # "none" /\ UNCHANGED resp
             /\ d' = PumpGoto(d, "report", 0, IF status = "ok" THEN "eof" ELSE status)
    <3>1. d'.pc = "report" /\ d'.err = IF status = "ok" THEN "eof" ELSE status
      BY <2>2, ResponseTypes, PumpFields
    <3>2. ~ResponseRuns' /\ (status \in {"ok", "failed"} => Told = answered)
      BY <2>0, <2>2, <3>1, ResponseTypes, EmptySeq DEF ResponseRuns
    <3>3. /\ ResponseErr("eof")' => status = "ok"
          /\ ResponseErr("failed")' => status = "failed"
      BY <2>0, <3>1 DEF ResponseErr, ProxyInv, TypeOK, ControlOK
    <3>4. QED BY <2>0, <2>2, <3>1, <3>2, <3>3, ResponseTypes DEF ResponseInv
  <2>3. QED BY <1>1, <2>1, <2>2 DEF ResponseRecv
<1>2. CASE ResponseHeader
  <2>0. /\ d.pc = "header" /\ ResponseHeld = 1 /\ ResponseRuns /\ dchan = <<>>
        /\ result \notin {"ok", "failed"} /\ d.msg = Told + 1
        /\ UNCHANGED <<dchan, resp, status, wend, answered, down, got, result, Told>>
    <3>1. d.pc = "header" /\ UNCHANGED <<dchan, resp, status, wend, answered, down, got, result>>
      BY <1>2 DEF ResponseHeader, handlerVars, answerVars
    <3>2. QED BY <3>1, ResponseTypes DEF ResponseInv, ResponseHeld, ResponseRuns, Told
  <2>1. CASE header' = TRUE /\ d' = [d EXCEPT !.pc = "send"]
    <3>1. d'.pc = "send" /\ d'.msg = d.msg
      BY <2>1, ResponseTypes, PumpMove DEF PumpPcs
    <3>2. /\ ResponseRuns' /\ ResponseHeld' = ResponseHeld
          /\ ~ResponseErr("eof")' /\ ~ResponseErr("failed")'
      BY <2>0, <3>1 DEF ResponseRuns, ResponseHeld, ResponseErr
    <3>3. QED BY <2>0, <2>1, <3>1, <3>2, ResponseTypes DEF ResponseInv
  <2>2. CASE d' = PumpGoto(d, "report", 0, "closed") /\ UNCHANGED header
    <3>1. d'.pc = "report" /\ d'.err = "closed"
      BY <2>2, ResponseTypes, PumpFields
    <3>2. ~ResponseRuns' /\ ~ResponseErr("eof")' /\ ~ResponseErr("failed")'
      BY <2>0, <3>1 DEF ResponseRuns, ResponseErr
    <3>3. QED BY <2>0, <2>2, <3>1, <3>2, ResponseTypes DEF ResponseInv
  <2>3. QED BY <1>2, <2>1, <2>2 DEF ResponseHeader
<1>3. CASE ResponseSend
  <2>0. /\ d.pc = "send" /\ ResponseHeld = 1 /\ ResponseRuns /\ dchan = <<>> /\ header
        /\ result \notin {"ok", "failed"} /\ d.msg = Told + 1 /\ Follows(resp, Told + 1)
        /\ UNCHANGED <<dchan, resp, status, wend, answered, header, got, result>>
    <3>1. d.pc = "send" /\ UNCHANGED <<dchan, resp, status, wend, answered, header, got, result>>
      BY <1>3 DEF ResponseSend, handlerVars, answerVars
    <3>2. ResponseHeld = 1 /\ ResponseRuns
      BY <3>1 DEF ResponseHeld, ResponseRuns
    <3>3. QED BY <3>1, <3>2, ResponseTypes DEF ResponseInv
  <2>1. CASE down' = Append(down, d.msg) /\ d' = PumpGoto(d, "recv", 0, "none")
    <3>1. d.msg \in Nat /\ d.msg = Len(got) + Len(down) + 1
      BY <2>0, ResponseTypes DEF Told
    <3>2. Follows(down', Len(got)) /\ Len(down') = Len(down) + 1
      BY <2>1, <3>1, ResponseTypes, AppendFollows DEF ResponseInv
    <3>3. d'.pc = "recv"
      BY <2>1, ResponseTypes, PumpFields
    <3>4. /\ ResponseRuns' /\ ResponseHeld' = 0 /\ Told' = Told + 1
          /\ ~ResponseErr("eof")' /\ ~ResponseErr("failed")'
      BY <2>0, <3>2, <3>3, ResponseTypes DEF ResponseRuns, ResponseHeld, ResponseErr, Told
    <3>5. Told' + ResponseHeld' = Told + 1 /\ Told + ResponseHeld = Told + 1
      BY <2>0, <3>4, ResponseTypes
    <3>6. QED BY <2>0, <2>1, <3>2, <3>3, <3>4, <3>5, ResponseTypes DEF ResponseInv
  <2>2. CASE d' = PumpGoto(d, "report", 0, "closed") /\ UNCHANGED down
    <3>1. d'.pc = "report" /\ d'.err = "closed"
      BY <2>2, ResponseTypes, PumpFields
    <3>2. ~ResponseRuns' /\ ~ResponseErr("eof")' /\ ~ResponseErr("failed")' /\ UNCHANGED Told
      BY <2>0, <2>2, <3>1 DEF ResponseRuns, ResponseErr, Told
    <3>3. QED BY <2>0, <2>2, <3>1, <3>2, ResponseTypes DEF ResponseInv
  <2>3. QED BY <1>3, <2>1, <2>2 DEF ResponseSend
<1>4. CASE ResponseReport
  <2>1. d.pc = "report" /\ dchan' = <<d.err>> /\ d' = PumpGoto(d, "close", 0, "none")
        /\ UNCHANGED <<resp, status, wend, answered, header, down, got, result, Told>>
    BY <1>4 DEF ResponseReport, handlerVars, answerVars, outVars, Told
  <2>2. d'.pc = "close"
    BY <2>1, ResponseTypes, PumpFields
  <2>3. /\ ~ResponseRuns' /\ result \notin {"ok", "failed"}
        /\ ResponseErr("eof")' => ResponseErr("eof")
        /\ ResponseErr("failed")' => ResponseErr("failed")
    BY <2>1, <2>2, ResponseTypes DEF ResponseErr, ResponseRuns, ResponseInv
  <2>4. QED BY <2>1, <2>2, <2>3, ResponseTypes DEF ResponseInv
<1>5. CASE ResponseClose
  <2>1. d.pc = "close" /\ d' = [d EXCEPT !.pc = "done"]
        /\ UNCHANGED <<dchan, resp, status, wend, answered, header, down, got, result, Told>>
    BY <1>5 DEF ResponseClose, handlerVars, answerVars, outVars, Told
  <2>2. d'.pc = "done"
    BY <2>1, ResponseTypes, PumpMove DEF PumpPcs
  <2>3. /\ ~ResponseRuns'
        /\ ResponseErr("eof")' => ResponseErr("eof")
        /\ ResponseErr("failed")' => ResponseErr("failed")
    BY <2>1, <2>2 DEF ResponseErr, ResponseRuns
  <2>4. QED BY <2>1, <2>2, <2>3, ResponseTypes DEF ResponseInv
<1>6. QED BY <1>1, <1>2, <1>3, <1>4, <1>5 DEF ResponsePump

\* The handler returns the worker's status only with the complete answer.
LEMMA ResponseHandled ==
  ASSUME ProxyInv, Handler
  PROVE  ResponseInv'
<1>1. ASSUME UNCHANGED <<d, dchan, resp, status, wend, answered, header, down, got>>,
             result' \in {"unavailable", "internal"} \/ UNCHANGED result
      PROVE  ResponseInv'
  BY <1>1, ResponseTypes DEF ResponseInv, Told, ResponseHeld, ResponseRuns, ResponseErr
<1>2. CASE HandlerNext \/ HandlerFetch \/ HandlerRequestErr \/ HandlerRequestDone
  BY <1>1, <1>2 DEF HandlerNext, HandlerFetch, HandlerRequestErr, HandlerRequestDone,
    HandlerReturn, handlerVars, pumpVars, answerVars, outVars
<1>3. CASE HandlerOpen
  <2>1. /\ d.pc = "off"
        /\ UNCHANGED <<dchan, resp, status, wend, answered, header, down, got, Told>>
    BY <1>3 DEF HandlerOpen, answerVars, outVars, Told, ProxyInv, StatusInv
  <2>2. CASE UNCHANGED d /\ result' = "unavailable"
    BY <1>1, <2>1, <2>2
  <2>3. CASE d' = [d EXCEPT !.pc = "first"] /\ UNCHANGED result
    <3>1. d'.pc = "first"
      BY <2>3, ResponseTypes, PumpMove DEF PumpPcs
    <3>2. /\ ResponseRuns /\ ResponseRuns' /\ UNCHANGED ResponseHeld
          /\ ResponseErr("eof")' => ResponseErr("eof")
          /\ ResponseErr("failed")' => ResponseErr("failed")
      BY <2>1, <3>1 DEF ResponseRuns, ResponseHeld, ResponseErr
    <3>3. result \notin {"ok", "failed"}
      BY <2>1, ResponseTypes DEF ResponseInv
    <3>4. QED BY <2>1, <2>3, <3>1, <3>2, <3>3, ResponseTypes DEF ResponseInv
  <2>4. QED BY <1>3, <2>2, <2>3 DEF HandlerOpen, HandlerReturn
<1>4. CASE HandlerResponseErr
  <2>1. PICK e \in ResponseErrs : dchan = <<e>>
    BY <1>4 DEF HandlerResponseErr, ProxyInv, TypeOK, PumpsOK
  <2>2. /\ Head(dchan) = e /\ dchan # <<>> /\ dchan' = <<>>
        /\ result' = IF e = "eof" THEN "ok" ELSE e
        /\ UNCHANGED <<d, resp, status, wend, answered, header, down, got, Told, ResponseHeld>>
    BY <1>4, <2>1 DEF HandlerResponseErr, HandlerReturn, answerVars, outVars, Told, ResponseHeld
  <2>3. d.pc \in {"close", "done"}
    BY <2>2, ResponseTypes DEF ResponseInv
  <2>4. /\ e = "eof" => status = "ok" /\ Told = answered
        /\ e = "failed" => status = "failed" /\ Told = answered
    BY <2>1, ResponseTypes DEF ResponseInv, ResponseErr
  <2>5. ~ResponseRuns' /\ ~ResponseErr("eof")' /\ ~ResponseErr("failed")'
    BY <2>2, <2>3 DEF ResponseRuns, ResponseErr
  <2>6. result' \in {"ok", "failed"} => status = result' /\ Told = answered
    BY <2>2, <2>4 DEF ResponseErrs
  <2>7. QED BY <2>2, <2>3, <2>5, <2>6, ResponseTypes DEF ResponseInv
<1>5. QED BY <1>2, <1>3, <1>4 DEF Handler

\* Every step keeps what is known of the responses.
LEMMA ResponseKept == ASSUME ProxyInv, [Next]_vars PROVE ResponseInv'
<1>1. CASE UNCHANGED responsePart
  BY <1>1, ResponseTypes DEF responsePart, ResponseInv, Told, ResponseHeld, ResponseRuns, ResponseErr
<1>2. CASE Client
  BY <1>1, <1>2, ResponseEnds DEF Client, ClientSend, ClientHalfClose, ClientGone, responsePart,
    handlerVars, pumpVars, answerVars, outVars
<1>3. CASE Worker
  BY <1>1, <1>3, ResponseEnds DEF Worker, WorkerRecv, WorkerSeesHalfClose, responsePart,
    handlerVars, pumpVars, answerVars, outVars
<1>4. CASE RequestPump
  BY <1>1, <1>4 DEF RequestPump, RequestRecv, RequestSend, RequestReport, RequestClose,
    responsePart, handlerVars, answerVars, outVars
<1>5. CASE Deadline \/ UNCHANGED vars
  BY <1>1, <1>5 DEF Deadline, vars, responsePart, handlerVars, pumpVars, answerVars, outVars
<1>6. QED BY <1>2, <1>3, <1>4, <1>5, ResponsePumped, ResponseHandled, ResponseStreamed,
  StreamResets DEF Next, Stream, Over

-----------------------------------------------------------------------------
(* The status.                                                             *)

statusPart == <<hpc, gone, result, expired, status, wend, u, uchan, d, dchan>>

\* Nothing has failed.
LEMMA InitStatus == Init => StatusInv
  BY DEF Init, StatusInv, RequestErr, ResponseErr, Returned

\* Clients, workers, timer and stream keep the reasons.
LEMMA StatusOutside ==
  ASSUME ProxyInv, ClientGone \/ WorkerEnd \/ Deadline \/ StreamEnd \/ \E e \in Resets : Reset(e)
  PROVE  StatusInv'
<1>0. StatusInv /\ ControlOK
  BY DEF ProxyInv, TypeOK
<1>1. CASE ClientGone
  BY <1>0, <1>1 DEF ClientGone, StatusInv, RequestErr, ResponseErr, Returned, handlerVars,
    pumpVars, answerVars
<1>2. CASE WorkerEnd
  BY <1>0, <1>2 DEF WorkerEnd, StatusInv, RequestErr, ResponseErr, Returned, Opened, clientVars,
    handlerVars, pumpVars
<1>3. CASE Deadline
  BY <1>0, <1>3 DEF Deadline, StatusInv, RequestErr, ResponseErr, Returned, clientVars, pumpVars,
    answerVars
<1>4. CASE StreamEnd
  BY <1>0, <1>4 DEF StreamEnd, StatusInv, RequestErr, ResponseErr, Returned, ControlOK, clientVars,
    handlerVars, pumpVars
<1>5. ASSUME NEW e \in Resets, Reset(e) PROVE StatusInv'
  BY <1>0, <1>5 DEF Reset, StreamReset, Resets, StatusInv, RequestErr, ResponseErr, Returned, Opened,
    ControlOK, clientVars, handlerVars, pumpVars
<1>6. QED BY <1>1, <1>2, <1>3, <1>4, <1>5

\* The pumps report what they met.
LEMMA StatusPumped ==
  ASSUME ProxyInv, RequestPump \/ ResponsePump
  PROVE  StatusInv'
<1>0. StatusInv /\ RequestInv /\ ResponseInv /\ ControlOK
      /\ u \in PumpType(RequestErrs) /\ d \in PumpType(ResponseErrs)
  BY DEF ProxyInv, TypeOK, PumpsOK
<1>1. ASSUME u.pc # "off", u'.pc # "off", RequestErr("cancelled")' => gone \/ Returned,
             UNCHANGED <<hpc, gone, result, expired, status, wend, d, dchan>>
      PROVE  StatusInv'
  BY <1>0, <1>1 DEF StatusInv, ResponseErr, Returned
<1>2. ASSUME d.pc # "off", d'.pc # "off", ResponseErr("closed")' => gone \/ Returned,
             \A e \in Resets : ResponseErr(e)' => status = e,
             UNCHANGED <<hpc, gone, result, expired, status, wend, u, uchan>>
      PROVE  StatusInv'
  BY <1>0, <1>2 DEF StatusInv, RequestErr, Returned, Resets
<1>3. CASE RequestRecv \/ RequestSend
  <2>1. /\ u.pc \in {"recv", "send"}
        /\ UNCHANGED <<hpc, gone, result, expired, status, wend, uchan, d, dchan>>
    BY <1>3 DEF RequestRecv, RequestSend, clientVars, handlerVars, answerVars
  <2>2. uchan = <<>>
    BY <1>0, <2>1 DEF RequestInv
  <2>3. PICK next, m, e : /\ u' = PumpGoto(u, next, m, e) /\ next # "off"
                          /\ next = "report" /\ e = "cancelled" => gone \/ Returned
    BY <1>3 DEF RequestRecv, RequestSend
  <2>4. u'.pc = next /\ u'.err = e
    BY <1>0, <2>3, PumpFields
  <2>5. RequestErr("cancelled")' => gone \/ Returned
    BY <2>1, <2>2, <2>3, <2>4 DEF RequestErr
  <2>6. QED BY <1>1, <2>1, <2>3, <2>4, <2>5
<1>4. CASE RequestReport
  <2>1. /\ u.pc = "report" /\ uchan' = <<u.err>> /\ u' = PumpGoto(u, "close", 0, "none")
        /\ UNCHANGED <<hpc, gone, result, expired, status, wend, d, dchan>>
    BY <1>4 DEF RequestReport, clientVars, handlerVars, answerVars
  <2>2. u'.pc = "close"
    BY <1>0, <2>1, PumpFields
  <2>3. RequestErr("cancelled")' => gone \/ Returned
    BY <1>0, <2>1, <2>2 DEF RequestErr, StatusInv
  <2>4. QED BY <1>1, <2>1, <2>2, <2>3
<1>5. CASE RequestClose
  <2>1. /\ u.pc = "close" /\ u' = [u EXCEPT !.pc = "done"]
        /\ UNCHANGED <<hpc, gone, result, expired, status, wend, uchan, d, dchan>>
    BY <1>5 DEF RequestClose, clientVars, handlerVars, answerVars
  <2>2. u'.pc = "done"
    BY <1>0, <2>1, PumpMove DEF PumpPcs
  <2>3. RequestErr("cancelled")' => gone \/ Returned
    BY <1>0, <2>1, <2>2 DEF RequestErr, StatusInv
  <2>4. QED BY <1>1, <2>1, <2>2, <2>3
<1>6. CASE ResponseRecv \/ ResponseSend \/ (ResponseHeader /\ d' # [d EXCEPT !.pc = "send"])
  <2>1. /\ d.pc \in {"first", "recv", "header", "send"}
        /\ UNCHANGED <<hpc, gone, result, expired, status, wend, u, uchan, dchan>>
    BY <1>6 DEF ResponseRecv, ResponseHeader, ResponseSend, clientVars, handlerVars, answerVars
  <2>2. dchan = <<>>
    BY <1>0, <2>1 DEF ResponseInv
  <2>3. PICK next, m, e : /\ d' = PumpGoto(d, next, m, e) /\ next # "off"
                          /\ next = "report" => \/ e = "closed" /\ (gone \/ Returned)
                                                \/ e = "eof" \/ e = status
    BY <1>6 DEF ResponseRecv, ResponseHeader, ResponseSend
  <2>4. d'.pc = next /\ d'.err = e
    BY <1>0, <2>3, PumpFields
  <2>5. ResponseErr("closed")' => gone \/ Returned
    BY <1>0, <2>1, <2>2, <2>3, <2>4 DEF ResponseErr, ControlOK
  <2>6. \A x \in Resets : ResponseErr(x)' => status = x
    BY <2>1, <2>2, <2>3, <2>4 DEF ResponseErr, Resets
  <2>7. QED BY <1>2, <2>1, <2>3, <2>4, <2>5, <2>6
<1>7. CASE ResponseHeader /\ d' = [d EXCEPT !.pc = "send"]
  <2>1. /\ d.pc = "header"
        /\ UNCHANGED <<hpc, gone, result, expired, status, wend, u, uchan, dchan>>
    BY <1>7 DEF ResponseHeader, clientVars, handlerVars, answerVars
  <2>2. d'.pc = "send" /\ dchan = <<>>
    BY <1>0, <1>7, <2>1, PumpMove DEF PumpPcs, ResponseInv
  <2>3. \A x : ~ResponseErr(x)'
    BY <2>1, <2>2 DEF ResponseErr
  <2>4. QED BY <1>2, <2>1, <2>2, <2>3
<1>8. CASE ResponseReport
  <2>1. /\ d.pc = "report" /\ dchan' = <<d.err>> /\ d' = PumpGoto(d, "close", 0, "none")
        /\ UNCHANGED <<hpc, gone, result, expired, status, wend, u, uchan>>
    BY <1>8 DEF ResponseReport, clientVars, handlerVars, answerVars
  <2>2. d'.pc = "close"
    BY <1>0, <2>1, PumpFields
  <2>3. \A x : ResponseErr(x)' => ResponseErr(x)
    BY <2>1, <2>2 DEF ResponseErr
  <2>4. QED BY <1>0, <1>2, <2>1, <2>2, <2>3 DEF StatusInv, Resets
<1>9. CASE ResponseClose
  <2>1. /\ d.pc = "close" /\ d' = [d EXCEPT !.pc = "done"]
        /\ UNCHANGED <<hpc, gone, result, expired, status, wend, u, uchan, dchan>>
    BY <1>9 DEF ResponseClose, clientVars, handlerVars, answerVars
  <2>2. d'.pc = "done"
    BY <1>0, <2>1, PumpMove DEF PumpPcs
  <2>3. \A x : ResponseErr(x)' => ResponseErr(x)
    BY <2>1, <2>2 DEF ResponseErr
  <2>4. QED BY <1>0, <1>2, <2>1, <2>2, <2>3 DEF StatusInv, Resets
<1>10. QED BY <1>3, <1>4, <1>5, <1>6, <1>7, <1>8, <1>9 DEF RequestPump, ResponsePump

\* The handler returns with a reason.
LEMMA StatusHandled ==
  ASSUME ProxyInv, Handler
  PROVE  StatusInv'
<1>0. StatusInv /\ RequestInv /\ ResponseInv /\ ControlOK /\ PumpsOK
      /\ u \in PumpType(RequestErrs) /\ d \in PumpType(ResponseErrs)
  BY DEF ProxyInv, TypeOK, PumpsOK
<1>1. CASE HandlerNext \/ HandlerFetch
  BY <1>0, <1>1 DEF HandlerNext, HandlerFetch, HandlerReturn, StatusInv, RequestErr, ResponseErr,
    Returned, clientVars, pumpVars, answerVars
<1>2. CASE HandlerOpen
  <2>1. /\ u.pc = "off" /\ d.pc = "off" /\ UNCHANGED <<gone, expired, status, wend, uchan, dchan>>
    BY <1>0, <1>2 DEF HandlerOpen, HandlerReturn, StatusInv, clientVars, answerVars
  <2>2. CASE hpc' = "returned" /\ result' = "unavailable" /\ UNCHANGED <<u, d>>
    BY <1>0, <2>1, <2>2 DEF StatusInv, RequestErr, ResponseErr, Returned
  <2>3. CASE /\ hpc' = "select" /\ UNCHANGED result
             /\ u' = [u EXCEPT !.pc = "recv"] /\ d' = [d EXCEPT !.pc = "first"]
    <3>1. u'.pc = "recv" /\ d'.pc = "first"
      BY <1>0, <2>3, PumpMove DEF PumpPcs
    <3>2. ~Returned /\ ~Returned'
      BY <1>2, <2>3 DEF HandlerOpen, Returned
    <3>3. \A x : (RequestErr(x)' => RequestErr(x)) /\ (ResponseErr(x)' => ResponseErr(x))
      BY <2>1, <3>1 DEF RequestErr, ResponseErr
    <3>4. QED BY <1>0, <2>1, <2>3, <3>1, <3>2, <3>3 DEF StatusInv
  <2>4. QED BY <1>2, <2>2, <2>3 DEF HandlerOpen, HandlerReturn
<1>3. CASE HandlerRequestErr
  <2>1. PICK e \in RequestErrs : uchan = <<e>>
    BY <1>0, <1>3 DEF HandlerRequestErr, PumpsOK
  <2>2. Head(uchan) = e
    BY <2>1
  <2>3. UNCHANGED expired
    BY <1>3 DEF HandlerRequestErr, HandlerReturn, handlerVars
  <2>4. /\ Head(uchan) = e /\ hpc = "select" /\ uchan' = <<>>
        /\ UNCHANGED <<gone, expired, status, wend, u, d, dchan>>
    BY <1>3, <2>2, <2>3 DEF HandlerRequestErr, clientVars, answerVars
  <2>5. \A x : (RequestErr(x)' => RequestErr(x)) /\ (ResponseErr(x)' => ResponseErr(x))
    BY <2>4 DEF RequestErr, ResponseErr
  <2>6. CASE UNCHANGED <<hpc, result>>
    BY <1>0, <2>4, <2>5, <2>6 DEF StatusInv, Returned
  <2>7. CASE hpc' = "returned" /\ result' = "internal" /\ e # "eof"
    <3>1. gone
      BY <1>0, <2>1, <2>4, <2>7 DEF RequestErrs, RequestErr, StatusInv, Returned
    <3>2. QED BY <1>0, <2>4, <2>5, <2>7, <3>1 DEF StatusInv, Returned
  <2>8. QED BY <1>3, <2>4, <2>6, <2>7 DEF HandlerRequestErr, HandlerReturn, handlerVars
<1>4. CASE HandlerRequestDone
  BY <1>0, <1>4 DEF HandlerRequestDone, StatusInv, RequestErr, ResponseErr, Returned, clientVars,
    pumpVars, answerVars
<1>5. CASE HandlerResponseErr
  <2>1. PICK e \in ResponseErrs : dchan = <<e>>
    BY <1>0, <1>5 DEF HandlerResponseErr, PumpsOK
  <2>2. /\ Head(dchan) = e /\ hpc = "select" /\ hpc' = "returned" /\ dchan' = <<>>
        /\ result' = IF e = "eof" THEN "ok" ELSE e
        /\ UNCHANGED <<gone, expired, status, wend, u, uchan, d>>
    BY <1>5, <2>1 DEF HandlerResponseErr, HandlerReturn, clientVars, answerVars
  <2>3. \A x : (RequestErr(x)' => RequestErr(x)) /\ (ResponseErr(x)' => ResponseErr(x))
    BY <2>2 DEF RequestErr, ResponseErr
  <2>4. ResponseErr(e)
    BY <2>1 DEF ResponseErr
  <2>5. (result' = "closed" /\ gone) \/ (result' = status /\ result' # "none")
    BY <1>0, <2>1, <2>2, <2>4 DEF StatusInv, ResponseInv, Returned, ResponseErrs
  <2>6. QED BY <1>0, <2>2, <2>3, <2>5 DEF StatusInv, Returned
<1>6. QED BY <1>1, <1>2, <1>3, <1>4, <1>5 DEF Handler

\* Every step keeps the reasons.
LEMMA StatusKept == ASSUME ProxyInv, [Next]_vars PROVE StatusInv'
<1>1. CASE UNCHANGED statusPart
  BY <1>1 DEF ProxyInv, statusPart, StatusInv, RequestErr, ResponseErr, Returned
<1>2. CASE Client
  BY <1>1, <1>2, StatusOutside DEF Client, ClientSend, ClientHalfClose, ClientRead, statusPart,
    clientVars, handlerVars, pumpVars, answerVars
<1>3. CASE Worker
  BY <1>1, <1>3, StatusOutside DEF Worker, WorkerRecv, WorkerSeesHalfClose, WorkerSend, statusPart,
    clientVars, handlerVars, pumpVars, answerVars
<1>4. CASE UNCHANGED vars
  BY <1>1, <1>4 DEF vars, statusPart, clientVars, handlerVars, pumpVars, answerVars
<1>5. QED BY <1>2, <1>3, <1>4, StatusOutside, StatusPumped, StatusHandled, StreamResets
  DEF Next, Stream, Over

-----------------------------------------------------------------------------
(* Theorems.                                                               *)

\* ProxyInv is an invariant: whatever client, worker, stream and timer do, in any order.
THEOREM ProxyInvariant == Spec => []ProxyInv
<1>1. Init => ProxyInv
  BY InitTypes, InitRequest, InitResponse, InitStatus DEF ProxyInv
<1>2. ASSUME ProxyInv, [Next]_vars PROVE ProxyInv'
  BY <1>2, TypesKept, RequestKept, ResponseKept, StatusKept DEF ProxyInv
<1>3. QED BY <1>1, <1>2, PTL DEF Spec

\* No window and no error channel of HandleRequest ever holds more than it can.
THEOREM TypeOKHolds == Spec => []TypeOK
<1>1. ProxyInv => TypeOK
  BY DEF ProxyInv
<1>2. QED BY ProxyInvariant, <1>1, PTL

\* Each side receives the other's messages in order through any windows, behind the header.
THEOREM InOrderHolds == Spec => []InOrder
<1>1. ASSUME ProxyInv PROVE InOrder
  <2>1. wgot \in Seq(Nat) /\ Follows(wgot, 0)
    BY <1>1 DEF ProxyInv, TypeOK, QueuesOK, RequestInv
  <2>2. /\ got \in Seq(Nat) /\ down \in Seq(Nat) /\ Follows(got, 0) /\ Follows(down, Len(got))
        /\ Len(got) \in Nat /\ Len(down) \in Nat
    BY <1>1, ResponseTypes DEF ResponseInv
  <2>3. /\ got \o down \in Seq(Nat) /\ Len(got \o down) = Told
        /\ got \o down = Numbered(Len(got \o down))
    BY <2>2, ConcatFollows, FollowsNumbered DEF Told
  <2>4. got \o down # <<>> => header
    BY <1>1, <2>2, <2>3, ResponseTypes, EmptySeq DEF ResponseInv
  <2>5. QED BY <2>1, <2>3, <2>4, FollowsNumbered DEF InOrder
<1>2. QED BY ProxyInvariant, <1>1, PTL

\* With the worker's status the client has the complete answer, of any length.
THEOREM AnswerCompleteHolds == Spec => []AnswerComplete
<1>1. ASSUME ProxyInv PROVE AnswerComplete
  <2>1. /\ got \in Seq(Nat) /\ down \in Seq(Nat) /\ Follows(got, 0) /\ Follows(down, Len(got))
        /\ Len(got) \in Nat /\ Len(down) \in Nat
    BY <1>1, ResponseTypes DEF ResponseInv
  <2>2. got \o down = Numbered(Told)
    BY <2>1, ConcatFollows, FollowsNumbered DEF Told
  <2>3. result \in {"ok", "failed"} => wend = result /\ Told = answered
    BY <1>1, ResponseTypes DEF ResponseInv
  <2>4. QED BY <2>2, <2>3 DEF AnswerComplete
<1>2. QED BY ProxyInvariant, <1>1, PTL

\* A client that is still there gets the status of the downstream stream, or Unavailable for
\* a request of which nothing left the proxy.
THEOREM StatusFaithfulHolds == Spec => []StatusFaithful
<1>1. ASSUME ProxyInv PROVE StatusFaithful
  <2>1. u.pc = "off" => wgot \o req = <<>>
    <3>1. ASSUME u.pc = "off" PROVE wgot \o req = <<>>
      <4>1. wgot = <<>> /\ req = <<>>
        BY <1>1, <3>1 DEF ProxyInv, RequestInv
      <4>2. QED BY <4>1, EmptySeq, ConcatEmptySeq
    <3>2. QED BY <3>1
  <2>2. QED BY <1>1, <2>1 DEF ProxyInv, StatusInv, StatusFaithful, Opened
<1>2. QED BY ProxyInvariant, <1>1, PTL

\* A worker that sees the end of the requests has all of them.
THEOREM NotMisledHolds == Spec => []NotMisled
<1>1. ASSUME ProxyInv PROVE NotMisled
  <2>1. wgot \in Seq(Nat) /\ Follows(wgot, 0) /\ Len(wgot) \in Nat
    BY <1>1, LenProperties DEF ProxyInv, TypeOK, QueuesOK, RequestInv
  <2>2. wsaw => half /\ Len(wgot) = sent
    BY <1>1, <2>1, EmptySeq DEF ProxyInv, RequestInv, AllAsked, Asked
  <2>3. QED BY <2>1, <2>2, FollowsNumbered DEF NotMisled
<1>2. QED BY ProxyInvariant, <1>1, PTL
=============================================================================
