------------------------- MODULE RequestPathProofs -------------------------
(***************************************************************************)
(* Proofs about what a request passes on its way through a daemon, but for *)
(* the payment: the rate limiter, the checks of control requests, and the  *)
(* handlers that forward a stream or a message.                            *)
(***************************************************************************)
EXTENDS RateLimit, ControlRequests, GrpcProxy, ServiceHandlers, TLAPS

(* The rate limiter, for any rate, burst size and stretch of time. *)

\* The interval and the bucket are sizes; a limiter that limits has a bucket
\* of at least one token.
LEMMA BucketSizes ==
  /\ Interval \in Nat /\ Burst \in Nat \ {0} /\ Full \in Nat
  /\ ~Unlimited => Interval > 0 /\ Full >= Interval
<1>1. Interval \in Nat
  <2>1. CASE RatePerMin = 0
        BY <2>1 DEF Interval
  <2>2. CASE RatePerMin # 0
    <3>1. RatePerMin \in Nat /\ RatePerMin > 0 /\ Minute \in Nat
          BY <2>2, RateAssumption
    <3>2. Minute \div RatePerMin \in Nat
          BY <3>1
    <3> QED BY <2>2, <3>2 DEF Interval
  <2> QED BY <2>1, <2>2
<1>2. Burst \in Nat /\ Burst >= 1
      BY RateAssumption DEF Burst
<1>3. \A b, i \in Nat : b >= 1 => b * i \in Nat /\ b * i >= i
      BY SMT
<1> QED BY <1>1, <1>2, <1>3 DEF Full, Unlimited

\* The invariant holds initially: the bucket is full.
LEMMA BucketInit == RateInit => BucketInv
<1> SUFFICES ASSUME RateInit PROVE BucketInv
    OBVIOUS
<1>1. RateTypeOK
      BY BucketSizes, RateAssumption DEF RateInit, RateTypeOK
<1>2. Available = Full
      BY BucketSizes DEF RateInit, Available, Least
<1>3. 0 * Interval = 0
      BY BucketSizes
<1> QED BY <1>1, <1>2, <1>3, BucketSizes DEF RateInit, BucketInv, Least

\* Every step of the interceptor's limiter keeps it: a call that passes moves
\* an interval from what is available to what was taken.
LEMMA BucketStep ==
  ASSUME DaemonType = "grpc", BucketInv, [RateNext]_rateVars
  PROVE  BucketInv'
<1> USE BucketSizes, RateAssumption DEF BucketInv, RateTypeOK
<1>1. ASSUME Pass PROVE BucketInv'
  <2>1. CASE Unlimited
        BY <1>1, <2>1 DEF Pass, Unlimited
  <2>2. CASE ~Unlimited
    <3>1. /\ Available >= Interval
          /\ credit' = Available - Interval /\ last' = now /\ now' = now /\ from' = from
          /\ passed' = passed + 1 /\ latest' = now
          BY <1>1, <2>2 DEF Pass, Allows, KeepsLimiter, Unlimited
    <3>2. Available \in 0 .. Full
          BY DEF Available, Least
    <3>3. RateTypeOK'
          BY <3>1, <3>2
    <3>4. Available' = Available - Interval
          BY <3>1, <3>2 DEF Available, Least
    <3>5. (passed + 1) * Interval = passed * Interval + Interval
          BY SMT
    <3>6. passed * Interval \in Int
          OBVIOUS
    <3>7. (passed * Interval + Available <= Full + (now - from))'
          BY <3>1, <3>2, <3>4, <3>5, <3>6, <2>2
    <3>8. (Least(Full, now - latest) <= Available)'
          BY <3>1, <3>2, <3>4 DEF Least
    <3> QED BY <3>3, <3>7, <3>8
  <2> QED BY <2>1, <2>2
<1>2. ASSUME Throttle PROVE BucketInv'
  <2>1. /\ credit' = Available /\ last' = now
        /\ now' = now /\ from' = from /\ passed' = passed /\ latest' = latest
        BY <1>2 DEF Throttle, KeepsLimiter
  <2>2. Available \in 0 .. Full
        BY DEF Available, Least
  <2>3. Available' = Available
        BY <2>1, <2>2 DEF Available, Least
  <2>4. RateTypeOK'
        BY <2>1, <2>2
  <2>5. passed * Interval \in Int
        OBVIOUS
  <2> QED BY <2>1, <2>3, <2>4, <2>5 DEF Unlimited, Least
<1>3. ASSUME Tick PROVE BucketInv'
  <2>1. /\ now' = now + 1 /\ now < MaxTime
        /\ credit' = credit /\ last' = last /\ from' = from /\ passed' = passed /\ latest' = latest
        BY <1>3 DEF Tick
  <2>2. RateTypeOK'
        BY <2>1
  <2>3. Available' <= Available + 1 /\ Available' >= Available /\ Available' \in Nat /\ Available \in Nat
        BY <2>1 DEF Available, Least
  <2>4. PICK spent \in Int : spent = passed * Interval
        OBVIOUS
  <2>5. ASSUME ~Unlimited PROVE (passed * Interval + Available <= Full + (now - from))'
    <3>1. spent + Available <= Full + (now - from)
          BY <2>4, <2>5
    <3>2. spent + Available' <= Full + (now + 1 - from)
      <4>1. Available' \in Int /\ Available \in Int /\ Full \in Int /\ now \in Int /\ from \in Int
            BY <2>3
      <4>2. \A a, b, f, n, m \in Int :
              spent + a <= f + (n - m) /\ b <= a + 1 => spent + b <= f + (n + 1 - m)
            OBVIOUS
      <4> QED BY ONLY <4>1, <4>2, <3>1, <2>3
    <3> QED BY <3>2, <2>1, <2>4
  <2>6. ASSUME ~Unlimited PROVE (Least(Full, now - latest) <= Available)'
        BY <2>1, <2>6 DEF Available, Least
  <2> QED BY <2>2, <2>5, <2>6 DEF Unlimited
<1>4. ASSUME Look PROVE BucketInv'
  <2>1. from' = now /\ passed' = 0 /\ now' = now /\ credit' = credit /\ last' = last /\ latest' = latest
        BY <1>4 DEF Look
  <2>2. Available' = Available /\ Available \in 0 .. Full
        BY <2>1 DEF Available, Least
  <2>3. 0 * Interval = 0
        OBVIOUS
  <2>4. RateTypeOK'
        BY <2>1
  <2> QED BY <2>1, <2>2, <2>3, <2>4 DEF Unlimited, Least
<1>5. CASE UNCHANGED rateVars
      BY <1>5 DEF rateVars, Available, Least, Unlimited
<1> QED BY <1>1, <1>2, <1>3, <1>4, <1>5 DEF RateNext

\* Quotient and remainder.
LEMMA Division == \A m, r \in Nat : r > 0 => m = r * (m \div r) + (m % r)
OBVIOUS

\* The truncated interval against the configured rate: a minute holds Rate
\* intervals, and no more than Rate intervals of a millisecond more.
LEMMA IntervalOfRate ==
  ASSUME RatePerMin \in 1 .. Minute
  PROVE  /\ Interval > 0
         /\ RatePerMin * Interval <= Minute
         /\ Minute <= RatePerMin * (Interval + Early)
<1>1. RatePerMin \in Nat /\ RatePerMin > 0 /\ Minute \in Nat /\ RatePerMin <= Minute
      BY RateAssumption
<1>2. Interval = Minute \div RatePerMin /\ Interval \in Nat
      BY <1>1, BucketSizes DEF Interval
<1>3. Minute = RatePerMin * (Minute \div RatePerMin) + (Minute % RatePerMin)
      BY <1>1, Division
<1>4. Minute % RatePerMin \in 0 .. RatePerMin - 1
      BY <1>1
<1>5. \A r, i, m, rest \in Nat :
        /\ m = r * i + rest /\ rest < r /\ r <= m
        => i > 0 /\ r * i <= m /\ m <= r * (i + 1) /\ (r * i # m \/ m <= r * (i + 0))
      BY SMT
<1>6. Minute % RatePerMin \in Nat /\ Minute % RatePerMin < RatePerMin
      BY <1>1, <1>4
<1>7. /\ Interval > 0 /\ RatePerMin * Interval <= Minute
      /\ Minute <= RatePerMin * (Interval + 1)
      /\ RatePerMin * Interval # Minute \/ Minute <= RatePerMin * (Interval + 0)
      BY <1>1, <1>2, <1>3, <1>5, <1>6
<1> QED BY <1>7 DEF Early

\* The limiter of the gRPC interceptor is a token bucket of the configured
\* rate and size: from any moment on, the calls that pass beyond the bucket's
\* size are what the rate fills in, up to a millisecond a token.
THEOREM GrpcTokenBucket == ASSUME DaemonType = "grpc" PROVE RateSpec => []TokenBucket
<1>1. BucketInv => TokenBucket
  <2> SUFFICES ASSUME BucketInv, RatePerMin \in 1 .. Minute
               PROVE  (passed - Burst) * Minute <= RatePerMin * ((now - from) + Early * (passed - Burst))
      BY DEF TokenBucket
  <2> DEFINE extra == passed - Burst
             time  == now - from
  <2>1. /\ passed \in Nat /\ Burst \in Nat /\ Interval \in Nat /\ extra \in Int
        /\ time \in Nat /\ RatePerMin \in Nat /\ Minute \in Nat /\ Early \in {0, 1}
        /\ Interval > 0 /\ RatePerMin > 0 /\ RatePerMin <= Minute
        BY IntervalOfRate, BucketSizes, RateAssumption DEF BucketInv, RateTypeOK, Early
  <2>2. extra * Interval <= time
    <3>1. Available >= 0 /\ Available \in Int
          BY BucketSizes DEF BucketInv, RateTypeOK, Available, Least
    <3>2. passed * Interval + Available <= Burst * Interval + time
          BY <2>1 DEF BucketInv, Unlimited, Full
    <3>3. /\ passed * Interval \in Int /\ Burst * Interval \in Int
          /\ extra * Interval = passed * Interval - Burst * Interval
          BY <2>1
    <3> HIDE DEF extra, time
    <3> QED BY <2>1, <3>1, <3>2, <3>3
  <2> HIDE DEF extra, time
  <2>3. Minute <= RatePerMin * (Interval + Early)
        BY IntervalOfRate
  <2>4. CASE extra >= 0
    <3>1. extra * Minute <= extra * (RatePerMin * (Interval + Early))
          BY <2>1, <2>3, <2>4
    <3>2. extra * (RatePerMin * (Interval + Early)) = RatePerMin * (extra * Interval + Early * extra)
          BY <2>1
    <3>3. RatePerMin * (extra * Interval + Early * extra) <= RatePerMin * (time + Early * extra)
      <4>1. PICK spent \in Int : spent = extra * Interval
            BY <2>1
      <4>2. PICK early \in Int : early = Early * extra
            BY <2>1
      <4>3. RatePerMin * (spent + early) <= RatePerMin * (time + early)
            BY <2>1, <2>2, <4>1
      <4> QED BY <4>1, <4>2, <4>3
    <3> QED BY <2>1, <3>1, <3>2, <3>3 DEF extra, time
  <2>5. CASE extra < 0
    <3>1. CASE Early = 0
      <4>1. extra * Minute <= 0 /\ extra * Minute \in Int
            BY <2>1, <2>5
      <4>2. RatePerMin * (time + 0 * extra) >= 0 /\ RatePerMin * (time + 0 * extra) \in Int
            BY <2>1
      <4>3. extra * Minute <= RatePerMin * (time + 0 * extra)
            BY <4>1, <4>2
      <4> QED BY <3>1, <4>3 DEF extra, time
    <3>2. CASE Early = 1
      <4>1. extra * Minute <= extra * RatePerMin
            BY <2>1, <2>5
      <4>2. RatePerMin * (time + 1 * extra) = RatePerMin * time + extra * RatePerMin /\ RatePerMin * time >= 0
            BY <2>1
      <4> QED BY <2>1, <3>2, <4>1, <4>2 DEF extra, time
    <3> QED BY <2>1, <3>1, <3>2
  <2> QED BY <2>1, <2>4, <2>5
<1>2. BucketInv /\ [RateNext]_rateVars => BucketInv'
      BY BucketStep
<1> QED BY <1>1, <1>2, BucketInit, PTL DEF RateSpec

\* A client that keeps to the interval is never refused, whatever calls were
\* refused before.
THEOREM GrpcPacedCalls == ASSUME DaemonType = "grpc" PROVE RateSpec => []PacedCallsPass
<1>1. BucketInv => PacedCallsPass
      BY BucketSizes, RateAssumption DEF BucketInv, RateTypeOK, PacedCallsPass, Allows, Least, Available
<1>2. BucketInv /\ [RateNext]_rateVars => BucketInv'
      BY BucketStep
<1> QED BY <1>1, <1>2, BucketInit, PTL DEF RateSpec

----------------------------------------------------------------------------
(* The checks of control requests, for any signers, contracts and blocks. *)

\* Lists are for the provider only, whoever replays which message when.
THEOREM OnlyForProvider == RequestSpec => []AskedByProvider
<1>1. RequestInit => AskedByProvider
      BY DEF RequestInit, AskedByProvider
<1>2. AskedByProvider /\ [RequestNext]_requestVars => AskedByProvider'
  <2> SUFFICES ASSUME AskedByProvider, [RequestNext]_requestVars PROVE AskedByProvider'
      OBVIOUS
  <2>1. ASSUME NEW q \in Requests, NEW s \in messages, Answer(q, s) PROVE AskedByProvider'
        BY <2>1 DEF Answer, verifySigner, Prefix, AskedByProvider
  <2>2. ASSUME NEW m \in Messages, SignMessage(m) PROVE AskedByProvider'
        BY <2>2 DEF SignMessage, AskedByProvider
  <2>3. CASE Mine \/ UNCHANGED requestVars
        BY <2>3 DEF Mine, requestVars, AskedByProvider
  <2> QED BY <2>1, <2>2, <2>3 DEF RequestNext, Refuse
<1> QED BY <1>1, <1>2, PTL DEF RequestSpec

----------------------------------------------------------------------------
(* The proxy of a stream, for requests and answers of any length. *)

\* The invariant holds when the call arrives.
LEMMA ProxyInitInv == ProxyInit => ProxyInv
<1> SUFFICES ASSUME ProxyInit PROVE ProxyInv
    OBVIOUS
<1>1. ProxyTypeOK
      BY MaxAssumption DEF ProxyInit, ProxyTypeOK
<1>2. RequestStage
      BY DEF ProxyInit, RequestStage
<1>3. RequestEnd /\ HalfCloseIsTrue
      BY DEF ProxyInit, RequestEnd, HalfCloseIsTrue, closed
<1>4. ReplyStage
      BY DEF ProxyInit, ReplyStage
<1>5. SuccessIsComplete /\ NeverReached
      BY DEF ProxyInit, SuccessIsComplete, NeverReached
<1> QED BY <1>1, <1>2, <1>3, <1>4, <1>5 DEF ProxyInv

\* Every step of the client, the service, the goroutines and the handler
\* keeps the invariant.
LEMMA ProxyStep == ProxyInv /\ [ProxyNext]_proxyVars => ProxyInv'
<1> SUFFICES ASSUME ProxyInv, [ProxyNext]_proxyVars PROVE ProxyInv'
    OBVIOUS
<1> USE MaxAssumption DEF ProxyInv, ProxyTypeOK, RequestStage, RequestEnd, ReplyStage,
        SuccessIsComplete, HalfCloseIsTrue, NeverReached, Returned, Cancelled, closed,
        clientVars, serviceVars, s2cVars, c2sVars, mainVars
<1>1. CASE ClientSend
      BY <1>1 DEF ClientSend
<1>2. ASSUME NEW how \in {"halfClosed", "gone"}, ClientEnds(how) PROVE ProxyInv'
      BY <1>2 DEF ClientEnds
<1>3. CASE ServiceSend
      BY <1>3 DEF ServiceSend
<1>4. ASSUME NEW status \in {"ok", "failed"}, ServiceEnds(status) PROVE ProxyInv'
      BY <1>4 DEF ServiceEnds
<1>5. CASE S2CRecv
      BY <1>5 DEF S2CRecv, ReportS2C, CanReport
<1>6. CASE S2CSend
      BY <1>6 DEF S2CSend, ReportS2C, CanReport
<1>7. CASE C2SRecv
      BY <1>7 DEF C2SRecv, ReportC2S, CanReport
<1>8. CASE C2SHeader
      BY <1>8 DEF C2SHeader, ReportC2S, CanReport
<1>9. CASE C2SSend
      BY <1>9 DEF C2SSend, ReportC2S, CanReport
<1>10. CASE OpenStream
       BY <1>10 DEF OpenStream
<1>11. CASE SelectRequestEnd
       BY <1>11 DEF SelectRequestEnd
<1>12. CASE SelectRequestError
       BY <1>12 DEF SelectRequestError
<1>13. CASE SelectAnswerEnd
       BY <1>13 DEF SelectAnswerEnd
<1>14. CASE ClientStopsReading \/ ClientReads
       BY <1>14 DEF ClientStopsReading, ClientReads
<1>15. CASE ServiceStopsReading \/ ServiceReads
       BY <1>15 DEF ServiceStopsReading, ServiceReads
<1>16. CASE UNCHANGED proxyVars
       BY <1>16 DEF proxyVars
<1> QED BY <1>1, <1>2, <1>3, <1>4, <1>5, <1>6, <1>7, <1>8, <1>9, <1>10, <1>11, <1>12, <1>13, <1>14,
           <1>15, <1>16
        DEF ProxyNext, Request, Reply, Handler

\* The inductive invariant of the proxy, in every interleaving of the client,
\* the service, the two goroutines and the handler.
THEOREM ProxyInvariant == ProxySpec => []ProxyInv
  BY ProxyInitInv, ProxyStep, PTL DEF ProxySpec

\* The handler reports success only for a complete answer of a service that
\* ended well, so that only such calls are paid for.
THEOREM ProxySuccess == ProxySpec => []SuccessIsComplete
<1>1. ProxyInv => SuccessIsComplete
      BY DEF ProxyInv
<1> QED BY <1>1, ProxyInvariant, PTL

\* The service is told the truth about the end of the request.
THEOREM ProxyHalfClose == ProxySpec => []HalfCloseIsTrue
<1>1. ProxyInv => HalfCloseIsTrue
      BY DEF ProxyInv
<1> QED BY <1>1, ProxyInvariant, PTL

\* The loop of grpcToGRPC never runs out of turns.
THEOREM ProxyNeverReached == ProxySpec => []NeverReached
<1>1. ProxyInv => NeverReached
      BY DEF ProxyInv
<1> QED BY <1>1, ProxyInvariant, PTL

----------------------------------------------------------------------------
(* The handlers of a message, for any calls, channels and sizes. *)

\* No call has come in yet.
LEMMA HandlersInitInv == HandlersInit => HandlersInv
BY SizesAssumption DEF HandlersInit, HandlersInv, HandlersTypeOK, WorkThenAnswer, ChargedForAnswer

\* The handler returns: what it answers for is what it has to show.
LEMMA ReturnInv ==
  ASSUME HandlersInv, NEW c \in Calls, NEW ok \in BOOLEAN, Return(c, ok),
         serviceType' = serviceType, chOf' \in [Calls -> Channels],
         NEW n \in 0 .. 1, ran' = [ran EXCEPT ![c] = n], replied' = [replied EXCEPT ![c] = ok],
         ok /\ serviceType # "none" => n = 1
  PROVE  HandlersInv'
<1>0. PICK paid \in BOOLEAN : charged' = [charged EXCEPT ![c] = paid] /\ (paid => ok)
  BY DEF Return
<1> USE <1>0, SizesAssumption DEF HandlersInv, HandlersTypeOK, Return, Continue
<1>1. HandlersTypeOK'
  OBVIOUS
<1>2. WorkThenAnswer'
  BY DEF WorkThenAnswer
<1>3. ChargedForAnswer'
  BY DEF ChargedForAnswer
<1> QED BY <1>1, <1>2, <1>3

\* The handler goes on: it has answered nothing yet.
LEMMA ContinueInv ==
  ASSUME HandlersInv, NEW c \in Calls, pc[c] # "idle",
         NEW p \in {"decode", "call", "pipe", "write", "send"}, Continue(c, p),
         UNCHANGED <<serviceType, chOf, replied, charged>>,
         left' \in [Calls -> Nat], buffer' \in [Calls -> 0 .. PipeBuffer],
         NEW n \in 0 .. 1, ran' = [ran EXCEPT ![c] = n],
         p # "send" => n = 0, p = "send" => n = 1
  PROVE  HandlersInv'
<1> USE DEF HandlersInv, HandlersTypeOK, Continue
<1>1. HandlersTypeOK'
  OBVIOUS
<1>2. WorkThenAnswer'
  BY DEF WorkThenAnswer
<1>3. ChargedForAnswer'
  BY DEF ChargedForAnswer, WorkThenAnswer
<1> QED BY <1>1, <1>2, <1>3

\* A message too large, a service that cannot be reached, a process that
\* fails, a client that is gone: every step of the handlers keeps it.
LEMMA HandlersStep == HandlersInv /\ [HandlersNext]_handlerVars => HandlersInv'
<1> SUFFICES ASSUME HandlersInv, [HandlersNext]_handlerVars PROVE HandlersInv'
  OBVIOUS
<1>t. HandlersTypeOK /\ WorkThenAnswer
  BY DEF HandlersInv
<1>r. ASSUME NEW c \in Calls, Return(c, FALSE), serviceType' = serviceType, chOf' \in [Calls -> Channels],
             replied' = [replied EXCEPT ![c] = FALSE],
             ran' = [ran EXCEPT ![c] = 0] \/ ran' = [ran EXCEPT ![c] = 1]
      PROVE  HandlersInv'
  <2>1. PICK n \in 0 .. 1 : ran' = [ran EXCEPT ![c] = n]
    BY <1>r
  <2>2. PICK ok \in BOOLEAN : ok = FALSE
    OBVIOUS
  <2> QED BY <1>r, <2>1, <2>2, ReturnInv
<1>s. ASSUME NEW c \in Calls, pc[c] \in {"decode", "call", "pipe", "write"}
      PROVE  /\ ran[c] = 0 /\ ran = [ran EXCEPT ![c] = 0] /\ pc[c] # "idle"
             /\ replied = [replied EXCEPT ![c] = FALSE]
  BY <1>s, <1>t DEF HandlersTypeOK, WorkThenAnswer
<1>1. ASSUME NEW c \in Calls, NEW ch \in Channels, NEW size \in Sizes, Receive(c, ch, size)
      PROVE  HandlersInv'
  <2>0. /\ ran' = [ran EXCEPT ![c] = 0] /\ replied' = [replied EXCEPT ![c] = FALSE]
        /\ serviceType' = serviceType /\ chOf' \in [Calls -> Channels]
    BY <1>1, <1>t DEF Receive, HandlersTypeOK
  <2>1. CASE Return(c, FALSE)
    BY <1>r, <2>0, <2>1
  <2>2. CASE /\ Continue(c, FirstStep(serviceType)) /\ charged' = [charged EXCEPT ![c] = FALSE]
             /\ left' = [left EXCEPT ![c] = size] /\ buffer' = [buffer EXCEPT ![c] = 0]
    <3>1. /\ FirstStep(serviceType) \in {"decode", "pipe", "send"}
          /\ FirstStep(serviceType) = "send" => serviceType = "none"
      BY <1>t, TypesAssumption DEF HandlersTypeOK, FirstStep
    <3>2. size \in Nat
      BY SizesAssumption DEF Sizes
    <3> HIDE DEF FirstStep
    <3>3. HandlersTypeOK'
      BY <1>t, <2>0, <2>2, <3>1, <3>2, SizesAssumption DEF HandlersTypeOK, Continue
    <3>4. WorkThenAnswer'
      BY <1>t, <2>0, <2>2, <3>1 DEF HandlersTypeOK, Continue, WorkThenAnswer
    <3>5. ChargedForAnswer'
      BY <1>t, <2>0, <2>2, <3>1 DEF HandlersInv, HandlersTypeOK, Continue, ChargedForAnswer
    <3> QED BY <3>3, <3>4, <3>5 DEF HandlersInv
  <2> QED BY <1>1, <2>1, <2>2 DEF Receive
<1>2. ASSUME NEW c \in Calls, DecodeRequest(c) PROVE HandlersInv'
  <2>1. CASE Return(c, FALSE)
    <3>1. /\ replied' = [replied EXCEPT ![c] = FALSE] /\ ran' = [ran EXCEPT ![c] = 0]
          /\ serviceType' = serviceType /\ chOf' \in [Calls -> Channels]
      BY <1>2, <1>s, <1>t DEF DecodeRequest, HandlersTypeOK
    <3> QED BY <1>r, <2>1, <3>1
  <2>2. CASE Continue(c, "call") /\ UNCHANGED <<charged, left, buffer>>
    BY <1>2, <1>s, <1>t, <2>2, ContinueInv DEF DecodeRequest, HandlersTypeOK
  <2> QED BY <1>2, <2>1, <2>2 DEF DecodeRequest
<1>3. ASSUME NEW c \in Calls, OpenPipe(c) PROVE HandlersInv'
  <2>1. CASE Return(c, FALSE)
    <3>1. /\ replied' = [replied EXCEPT ![c] = FALSE] /\ ran' = [ran EXCEPT ![c] = 0]
          /\ serviceType' = serviceType /\ chOf' \in [Calls -> Channels]
      BY <1>3, <1>s, <1>t DEF OpenPipe, HandlersTypeOK
    <3> QED BY <1>r, <2>1, <3>1
  <2>2. CASE Continue(c, "write") /\ UNCHANGED <<charged, left, buffer>>
    BY <1>3, <1>s, <1>t, <2>2, ContinueInv DEF OpenPipe, HandlersTypeOK
  <2> QED BY <1>3, <2>1, <2>2 DEF OpenPipe
<1>4. ASSUME NEW c \in Calls, WritePipe(c) PROVE HandlersInv'
  <2>1. /\ left' \in [Calls -> Nat] /\ buffer' \in [Calls -> 0 .. PipeBuffer]
        /\ UNCHANGED <<serviceType, pc, chOf, ran, replied, charged>>
    BY <1>4, <1>t, SizesAssumption DEF WritePipe, HandlersTypeOK
  <2> QED BY <2>1 DEF HandlersInv, HandlersTypeOK, WorkThenAnswer, ChargedForAnswer
<1>5. ASSUME NEW c \in Calls, CallJSONRPC(c) \/ RunProcess(c) PROVE HandlersInv'
  <2>0. /\ pc[c] \in {"call", "write"} /\ UNCHANGED <<serviceType, chOf, replied>>
        /\ ran' = ran \/ ran' = [ran EXCEPT ![c] = ran[c] + 1]
    BY <1>5 DEF CallJSONRPC, RunProcess
  <2>1. ran' = [ran EXCEPT ![c] = 0] \/ ran' = [ran EXCEPT ![c] = 1]
    BY <1>s, <2>0
  <2>2. CASE Return(c, FALSE)
    <3>1. replied' = [replied EXCEPT ![c] = FALSE] /\ serviceType' = serviceType /\ chOf' \in [Calls -> Channels]
      BY <1>s, <1>t, <2>0 DEF HandlersTypeOK
    <3> QED BY <1>r, <2>1, <2>2, <3>1
  <2>3. CASE Continue(c, "send") /\ ran' = [ran EXCEPT ![c] = ran[c] + 1] /\ charged' = charged
             /\ left' = left /\ (buffer' = buffer \/ buffer' = [buffer EXCEPT ![c] = 0])
    <3>1. ran' = [ran EXCEPT ![c] = 1]
      <4>1. ran[c] = 0
        BY <1>s, <2>0
      <4> QED BY <2>3, <4>1
    <3>2. left' \in [Calls -> Nat] /\ buffer' \in [Calls -> 0 .. PipeBuffer]
      BY <1>t, <2>3, SizesAssumption DEF HandlersTypeOK
    <3>3. pc[c] # "idle" /\ 1 \in 0 .. 1 /\ UNCHANGED <<serviceType, chOf, replied, charged>>
      BY <2>0, <2>3
    <3> QED BY <2>3, <3>1, <3>2, <3>3, ContinueInv
  <2> QED BY <1>5, <2>2, <2>3 DEF CallJSONRPC, RunProcess
<1>6. ASSUME NEW c \in Calls, SendReply(c) PROVE HandlersInv'
  <2>1. PICK ok \in BOOLEAN : replied' = [replied EXCEPT ![c] = ok] /\ Return(c, ok)
    BY <1>6 DEF SendReply
  <2>2. /\ ran' = [ran EXCEPT ![c] = ran[c]] /\ ran[c] \in 0 .. 1 /\ serviceType' = serviceType
        /\ chOf' \in [Calls -> Channels] /\ (serviceType # "none" => ran[c] = 1)
    BY <1>6, <1>t DEF SendReply, HandlersTypeOK, WorkThenAnswer
  <2> QED BY <2>1, <2>2, ReturnInv
<1>7. CASE UNCHANGED handlerVars
  BY <1>7 DEF handlerVars, HandlersInv, HandlersTypeOK, WorkThenAnswer, ChargedForAnswer
<1> QED BY <1>1, <1>2, <1>3, <1>4, <1>5, <1>6, <1>7 DEF HandlersNext, HandlerStep

\* The client of a unary call (handler/grpc.go) pays only for a call the
\* service worked for, once, and whose answer was sent, however the handlers
\* and the payment's completion fail.
THEOREM UnaryCallsCharged == HandlersSpec => []ChargedForAnswer
<1>1. HandlersInv => ChargedForAnswer
  BY DEF HandlersInv
<1> QED BY <1>1, HandlersInitInv, HandlersStep, PTL DEF HandlersSpec
=============================================================================
