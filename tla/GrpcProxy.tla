------------------------------ MODULE GrpcProxy ----------------------------
(***************************************************************************)
(* One call proxied to a gRPC service (handler/grpc.go, grpcToGRPC): a     *)
(* goroutine forwards the client's messages to the service, another one    *)
(* the service's answers to the client, and the handler selects on the     *)
(* errors they report.  Its result decides whether the payment interceptor *)
(* commits or rolls back.                                                  *)
(*                                                                         *)
(* "s2c" and "c2s" are the code's names: from the daemon's server stream   *)
(* to its client stream (the request), and back (the answer).  Messages    *)
(* are counted: streams keep their order.  The streams of the gRPC library *)
(* are external and modelled by what the handler relies on.                *)
(***************************************************************************)
EXTENDS Integers

CONSTANTS
  MaxIn,    \* bound: messages a client sends
  MaxOut    \* bound: messages the service answers with

ASSUME MaxAssumption == MaxIn \in Nat /\ MaxOut \in Nat

VARIABLES
  client,     \* the client: open, half closed, or gone
  sent,       \* messages the client has sent
  service,    \* the service: running, or ended with a status
  answered,   \* messages the service has sent
  s2c,        \* forwardServerToClient: where its goroutine is
  taken,      \* client messages it has received
  delivered,  \* client messages it has sent on to the service
  c2s,        \* forwardClientToServer: where its goroutine is
  fetched,    \* answers it has received
  relayed,    \* answers it has sent on to the client
  header,     \* the service's header: held, or sent to the client
  s2cErr,     \* s2cErrChan: the error in the channel
  c2sErr,     \* c2sErrChan
  turns,      \* i: turns of the loop around the select
  result      \* what grpcToGRPC returned

clientVars  == <<client, sent>>
serviceVars == <<service, answered>>
s2cVars     == <<s2c, taken, delivered>>
c2sVars     == <<c2s, fetched, relayed, header>>
mainVars    == <<turns, result>>
proxyVars   == <<clientVars, serviceVars, s2cVars, c2sVars, s2cErr, c2sErr, mainVars>>

ProxyTypeOK ==
  /\ client \in {"open", "halfClosed", "gone"}
  /\ service \in {"running", "ok", "failed"}
  /\ sent \in 0 .. MaxIn /\ taken \in 0 .. sent /\ delivered \in 0 .. taken
  /\ answered \in 0 .. MaxOut /\ fetched \in 0 .. answered /\ relayed \in 0 .. fetched
  /\ s2c \in {"new", "recv", "send", "stalled", "done"}
  /\ c2s \in {"new", "recv", "header", "send", "stalled", "done"}
  /\ s2cErr \in {"none", "EOF", "error"}
  /\ c2sErr \in {"none", "EOF", "status", "error"}
  /\ header \in {"held", "sent"}
  /\ turns \in 0 .. 2
  /\ result \in {"none", "ok", "status", "failed", "unreachable"}

ProxyInit ==
  /\ client = "open" /\ sent = 0
  /\ service = "running" /\ answered = 0
  /\ s2c = "new" /\ taken = 0 /\ delivered = 0
  /\ c2s = "new" /\ fetched = 0 /\ relayed = 0 /\ header = "held"
  /\ s2cErr = "none" /\ c2sErr = "none"
  /\ turns = 0 /\ result = "none"

Returned == result # "none"

\* CloseSend was called on the stream to the service: the loop's only way to
\* another turn.
closed == turns > 0

\* The context of the server stream, and with it the one derived for the
\* stream to the service, ends when the client goes away or the handler
\* returns.
Cancelled == client = "gone" \/ Returned

----------------------------------------------------------------------------
(* The client and the service. *)

ClientSend ==
  /\ client = "open" /\ sent < MaxIn
  /\ sent' = sent + 1
  /\ UNCHANGED <<client, serviceVars, s2cVars, c2sVars, s2cErr, c2sErr, mainVars>>

\* The client ends its request, or cancels it, or its connection breaks.
ClientEnds(how) ==
  /\ \/ how = "halfClosed" /\ client = "open"
     \/ how = "gone" /\ client # "gone"
  /\ client' = how
  /\ UNCHANGED <<sent, serviceVars, s2cVars, c2sVars, s2cErr, c2sErr, mainVars>>

ServiceSend ==
  /\ service = "running" /\ c2s # "new" /\ answered < MaxOut
  /\ answered' = answered + 1
  /\ UNCHANGED <<clientVars, service, s2cVars, c2sVars, s2cErr, c2sErr, mainVars>>

\* The service ends the call with its status, or its connection breaks.
ServiceEnds(status) ==
  /\ service = "running" /\ c2s # "new"
  /\ service' = status
  /\ UNCHANGED <<clientVars, answered, s2cVars, c2sVars, s2cErr, c2sErr, mainVars>>

----------------------------------------------------------------------------
(* The forwarding goroutines. *)

\* ret := make(chan error, 1): a report does not wait for the select.
CanReportUnbuffered(chan) == chan = "none" /\ ~Returned   \* mutant: make(chan error)
CanReport(chan) == chan = "none"

ReportS2C(err) ==
  /\ CanReport(s2cErr)
  /\ s2cErr' = err
  /\ s2c' = "done"

ReportC2S(err) ==
  /\ CanReport(c2sErr)
  /\ c2sErr' = err
  /\ c2s' = "done"

\* forwardServerToClient: RecvMsg gives a message, or an error if it is too
\* large, io.EOF after the last one of a client that half closed, or an error
\* when the context is done.
S2CRecv ==
  /\ s2c = "recv"
  /\ \/ taken < sent /\ taken' = taken + 1 /\ s2c' = "send" /\ UNCHANGED s2cErr
     \/ taken = sent /\ client = "halfClosed" /\ ReportS2C("EOF") /\ UNCHANGED taken
     \/ (Cancelled \/ taken < sent) /\ ReportS2C("error") /\ UNCHANGED taken
  /\ UNCHANGED <<clientVars, serviceVars, delivered, c2sVars, c2sErr, mainVars>>

\* forwardServerToClient: SendMsg works as long as the stream to the service
\* lives; on a stream that has ended it returns io.EOF, whatever ended it.
\* While the service does not read, it may wait: flow control.
S2CSendOnce ==      \* mutant: no loop, a single message is forwarded
  /\ s2c = "send"
  /\ delivered' = delivered + 1 /\ ReportS2C("EOF")
  /\ UNCHANGED <<clientVars, serviceVars, taken, c2sVars, c2sErr, mainVars>>
S2CSend ==
  /\ \/ /\ s2c = "send" /\ ~Cancelled
        /\ delivered' = delivered + 1 /\ s2c' = "recv" /\ UNCHANGED s2cErr
     \/ /\ s2c \in {"send", "stalled"} /\ (Cancelled \/ service # "running")
        /\ ReportS2C("EOF") /\ UNCHANGED delivered
  /\ UNCHANGED <<clientVars, serviceVars, taken, c2sVars, c2sErr, mainVars>>

ServiceStopsReading ==
  /\ service = "running" /\ s2c = "send" /\ s2c' = "stalled"
  /\ UNCHANGED <<clientVars, serviceVars, taken, delivered, c2sVars, s2cErr, c2sErr, mainVars>>

ServiceReads ==
  /\ service = "running" /\ ~Cancelled
  /\ s2c = "stalled" /\ delivered' = delivered + 1 /\ s2c' = "recv"
  /\ UNCHANGED <<clientVars, serviceVars, taken, c2sVars, s2cErr, c2sErr, mainVars>>

\* forwardClientToServer: RecvMsg gives an answer, or an error if it is too
\* large, then io.EOF if the service ended well; a failed service or a
\* cancelled context gives its error, which may overtake answers.
C2SRecvSilent ==    \* mutant: io.EOF ends the goroutine without a report
  /\ c2s = "recv"
  /\ \/ /\ fetched < answered /\ fetched' = fetched + 1
        /\ c2s' = IF fetched = 0 THEN "header" ELSE "send"
        /\ UNCHANGED c2sErr
     \/ fetched = answered /\ service = "ok" /\ c2s' = "done" /\ UNCHANGED <<fetched, c2sErr>>
  /\ UNCHANGED <<clientVars, serviceVars, s2cVars, relayed, header, s2cErr, mainVars>>
C2SRecv ==
  /\ c2s = "recv"
  /\ \/ /\ fetched < answered /\ fetched' = fetched + 1
        /\ c2s' = IF fetched = 0 THEN "header" ELSE "send"
        /\ UNCHANGED c2sErr
     \/ fetched = answered /\ service = "ok" /\ ReportC2S("EOF") /\ UNCHANGED fetched
     \/ service = "failed" /\ ReportC2S("status") /\ UNCHANGED fetched
     \/ (Cancelled \/ fetched < answered) /\ ReportC2S("error") /\ UNCHANGED fetched
  /\ UNCHANGED <<clientVars, serviceVars, s2cVars, relayed, header, s2cErr, mainVars>>

\* forwardClientToServer, with the first answer: the service's header is sent
\* to the client, which fails on a stream that has ended.
C2SHeader ==
  /\ c2s = "header"
  /\ \/ ~Returned /\ header' = "sent" /\ c2s' = "send" /\ UNCHANGED c2sErr
     \/ Cancelled /\ ReportC2S("error") /\ UNCHANGED header
  /\ UNCHANGED <<clientVars, serviceVars, s2cVars, fetched, relayed, s2cErr, mainVars>>

\* forwardClientToServer: the answer is sent to the client.  While a client
\* that is there does not read, SendMsg may wait: flow control.
C2SSend ==
  /\ \/ /\ c2s = "send" /\ ~Returned
        /\ relayed' = relayed + 1 /\ c2s' = "recv" /\ UNCHANGED c2sErr
     \/ /\ c2s \in {"send", "stalled"} /\ Cancelled
        /\ ReportC2S("error") /\ UNCHANGED relayed
  /\ UNCHANGED <<clientVars, serviceVars, s2cVars, fetched, header, s2cErr, mainVars>>

ClientStopsReading ==
  /\ client # "gone" /\ c2s = "send" /\ c2s' = "stalled"
  /\ UNCHANGED <<clientVars, serviceVars, s2cVars, fetched, relayed, header, s2cErr, c2sErr, mainVars>>

ClientReads ==
  /\ ~Cancelled
  /\ c2s = "stalled" /\ relayed' = relayed + 1 /\ c2s' = "recv"
  /\ UNCHANGED <<clientVars, serviceVars, s2cVars, fetched, header, s2cErr, c2sErr, mainVars>>

----------------------------------------------------------------------------
(* grpcToGRPC: at most two turns of a select over the two channels. *)

\* NewStream to the service, and the goroutines are started; a call without a
\* method or metadata, or whose stream cannot be opened, is refused.
OpenStream ==
  /\ ~Returned /\ s2c = "new"
  /\ \/ s2c' = "recv" /\ c2s' = "recv" /\ UNCHANGED result
     \/ s2c' = "done" /\ c2s' = "done" /\ result' = "failed"
  /\ UNCHANGED <<clientVars, serviceVars, taken, delivered, fetched, relayed, header,
                 s2cErr, c2sErr, turns>>

\* The request is over: CloseSend, and the next turn, after which the loop
\* would end.
SelectRequestEndReturns ==   \* mutant: the end of the request ends the call
  /\ ~Returned /\ s2cErr = "EOF"
  /\ s2cErr' = "none" /\ result' = "ok"
  /\ UNCHANGED <<clientVars, serviceVars, s2cVars, c2sVars, c2sErr, turns>>
SelectRequestEnd ==
  /\ ~Returned /\ s2cErr = "EOF"
  /\ s2cErr' = "none"
  /\ turns' = turns + 1
  /\ result' = IF turns + 1 = 2 THEN "unreachable" ELSE "none"
  /\ UNCHANGED <<clientVars, serviceVars, s2cVars, c2sVars, c2sErr>>

\* The request broke: outCancel, and an internal error.
SelectRequestError ==
  /\ ~Returned /\ s2cErr = "error"
  /\ s2cErr' = "none"
  /\ result' = "failed"
  /\ UNCHANGED <<clientVars, serviceVars, s2cVars, c2sVars, c2sErr, turns>>

\* The answer is over, well or with the service's error, which is passed on.
SelectAnswerEnd ==
  /\ ~Returned /\ c2sErr # "none"
  /\ c2sErr' = "none"
  /\ result' = IF c2sErr = "EOF" THEN "ok" ELSE "status"
  /\ UNCHANGED <<clientVars, serviceVars, s2cVars, c2sVars, s2cErr, turns>>

Request == S2CRecv \/ S2CSend
Reply   == C2SRecv \/ C2SHeader \/ C2SSend
Handler == OpenStream \/ SelectRequestEnd \/ SelectRequestError \/ SelectAnswerEnd

ProxyNext ==
  \/ ClientSend \/ (\E how \in {"halfClosed", "gone"} : ClientEnds(how))
  \/ ServiceSend \/ (\E status \in {"ok", "failed"} : ServiceEnds(status))
  \/ ClientStopsReading \/ ClientReads \/ ServiceStopsReading \/ ServiceReads
  \/ Request \/ Reply \/ Handler

\* Goroutines run, unless flow control holds them; nothing makes the client
\* or the service do anything, read included.
ProxySpec == /\ ProxyInit /\ [][ProxyNext]_proxyVars
             /\ WF_proxyVars(Request) /\ WF_proxyVars(Reply) /\ WF_proxyVars(Handler)

----------------------------------------------------------------------------
\* The handler reports success, upon which the payment is committed, only if
\* the service ended well and its whole answer, headers first, went to the
\* client, in whatever order the two goroutines finish (grpc.go:120).
SuccessIsComplete ==
  result = "ok" => service = "ok" /\ relayed = answered /\ (answered > 0 => header = "sent")

\* The service is told that the request is over (grpc.go:102 CloseSend) only
\* after the client's last message, although SendMsg reports a service that
\* ended with the same io.EOF.
HalfCloseIsTrue ==
  closed /\ service = "running" /\ ~Cancelled => client = "halfClosed" /\ delivered = sent

\* grpc.go:123 "gRPC proxying should never reach this stage."
NeverReached == result # "unreachable"

\* The inductive invariant behind these.  The request's goroutine reports once
\* and last; until then the loop has made no turn.
RequestStage ==
  /\ s2c = "new" <=> c2s = "new"
  /\ s2c \in {"new", "recv"} => delivered = taken
  /\ s2c \in {"send", "stalled"} => taken = delivered + 1
  /\ s2c # "done" => s2cErr = "none" /\ turns = 0
  /\ turns = 1 => s2cErr = "none"
  /\ turns # 2

\* An end of the request that was reported or acted upon is one, unless there
\* is nobody left to be told.
RequestEnd ==
  s2cErr = "EOF" \/ closed =>
    Cancelled \/ service # "running" \/ (client = "halfClosed" /\ delivered = sent)

\* The answer's goroutine has one answer in hand at most, and an end of the
\* answer it reported is one.
ReplyStage ==
  /\ c2s \in {"new", "recv"} => relayed = fetched
  /\ c2s = "header" => fetched = 1 /\ relayed = 0
  /\ c2s \in {"send", "stalled"} => fetched = relayed + 1 /\ header = "sent"
  /\ relayed > 0 => header = "sent"
  /\ c2s # "done" => c2sErr = "none"
  /\ c2sErr = "EOF" => service = "ok" /\ relayed = answered

ProxyInv == /\ ProxyTypeOK /\ RequestStage /\ RequestEnd /\ ReplyStage
            /\ SuccessIsComplete /\ HalfCloseIsTrue /\ NeverReached

\* The handler returns once the client is gone, and once the service has
\* ended, unless the client stays without ever taking the answer
\* (grpc.go:154: SendMsg has no deadline but the client's own).
HandlerReturns ==
  /\ client = "gone" ~> Returned
  /\ service # "running" ~> Returned \/ [](c2s = "stalled")

\* No goroutine outlives its call for ever.
GoroutinesEnd == Returned ~> s2c = "done" /\ c2s = "done"
=============================================================================
