---------------------------- MODULE DaemonProofs ---------------------------
(***************************************************************************)
(* Proofs about the daemon around its requests: what it publishes, and     *)
(* what it opens and closes.                                               *)
(***************************************************************************)
EXTENDS Lifecycle, Metrics, TLAPS

(* Metrics, for any number of publishers and tokens. *)

\* Nothing has been published yet.
LEMMA MetricsInitInv == MetricsInit => MetricsInv
BY TokensAssumption DEF MetricsInit, MetricsInv, MetricsTypeOK, RetryCounts, OneRetry

\* Every step of a publisher keeps the count, whatever the monitoring service
\* answers and whoever else stores a token.
LEMMA MetricsStep == MetricsInv /\ [MetricsNext]_metricsVars => MetricsInv'
<1> SUFFICES ASSUME MetricsInv, [MetricsNext]_metricsVars PROVE MetricsInv'
  OBVIOUS
<1> USE TokensAssumption
    DEF MetricsInv, MetricsTypeOK, RetryCounts, OneRetry, monitor, Goto, PublishEnds
<1>1. ASSUME NEW p \in Publishers, Publish(p) PROVE MetricsInv'
  BY <1>1 DEF Publish
<1>2. ASSUME NEW p \in Publishers, SendRequest(p) PROVE MetricsInv'
  BY <1>2 DEF SendRequest
<1>3. ASSUME NEW p \in Publishers, SendFails(p) \/ Accepted(p) PROVE MetricsInv'
  BY <1>3 DEF SendFails, Accepted
<1>4. ASSUME NEW p \in Publishers, Refused(p) PROVE MetricsInv'
  BY <1>4 DEF Refused
<1>5. ASSUME NEW p \in Publishers, Register(p) PROVE MetricsInv'
  <2>1. /\ pc[p] = "register" /\ UNCHANGED <<token, carried, reTry, sends>>
        /\ \/ Goto(p, "store") /\ result' = result
           \/ PublishEnds(p, FALSE)
        /\ \/ issued < MaxTokens /\ issued' = issued + 1 /\ valid' = issued + 1
              /\ granted' = [granted EXCEPT ![p] = issued + 1]
           \/ UNCHANGED <<issued, valid>> /\ granted' \in {granted, [granted EXCEPT ![p] = 0]}
        /\ \E ok \in BOOLEAN : registered' \in {registered, [registered EXCEPT ![p] = ok]}
    BY <1>5 DEF Register, NewToken, Granted
  <2>2. MetricsTypeOK'
    BY <2>1
  <2>3. RetryCounts' /\ OneRetry'
    BY <2>1
  <2> QED BY <2>2, <2>3
<1>6. ASSUME NEW p \in Publishers, StoreToken(p) PROVE MetricsInv'
  BY <1>6 DEF StoreToken
<1>7. ASSUME NEW p \in Publishers, TornToken(p) PROVE MetricsInv'
  BY <1>7 DEF TornToken
<1>8. CASE TokenExpires \/ \E p \in Publishers : Hangs(p)
  BY <1>8 DEF TokenExpires, Hangs
<1>9. CASE UNCHANGED metricsVars
  BY <1>9 DEF metricsVars
<1> QED BY <1>1, <1>2, <1>3, <1>4, <1>5, <1>6, <1>7, <1>8, <1>9 DEF MetricsNext, PublishStep

\* An event is sent at most twice (metrics/utils.go, publish and rePublish),
\* however many goroutines share the token and whatever the service says.
THEOREM EventSentTwice == MetricsSpec => []OneRetry
<1>1. MetricsInv => OneRetry
  BY DEF MetricsInv
<1> QED BY <1>1, MetricsInitInv, MetricsStep, PTL DEF MetricsSpec

----------------------------------------------------------------------------
(* Starting and stopping, for every command and configuration. *)

\* The steps of two parts.
LEMMA HasConcat ==
  ASSUME NEW t \in Seq(StepNames), NEW u \in Seq(StepNames), NEW s, Has(t, s) \/ Has(u, s)
  PROVE  Has(t \o u, s)
<1>1. CASE Has(t, s)
  BY <1>1 DEF Has
<1>2. CASE Has(u, s)
  <2>1. PICK i \in 1 .. Len(u) : u[i] = s
    BY <1>2 DEF Has
  <2>2. Len(t) + i \in 1 .. Len(t \o u) /\ (t \o u)[Len(t) + i] = s
    BY <2>1
  <2> QED BY <2>2 DEF Has
<1> QED BY <1>1, <1>2

\* What dials comes after "validate" if it does in the first part, or if
\* there is no such step in the first part and it does in the second.
LEMMA ValidateConcat ==
  ASSUME NEW t \in Seq(StepNames), NEW u \in Seq(StepNames), ValidateFirst(t),
         Has(t, "validate") \/ ValidateFirst(u)
  PROVE  ValidateFirst(t \o u)
<1> SUFFICES ASSUME NEW i \in 1 .. Len(t \o u), (t \o u)[i] \in {"metadata", "blockchain"}
             PROVE  \E j \in 1 .. i - 1 : (t \o u)[j] = "validate"
  BY DEF ValidateFirst
<1>1. CASE i <= Len(t)
  <2>1. i \in 1 .. Len(t) /\ t[i] = (t \o u)[i]
    BY <1>1
  <2>2. PICK j \in 1 .. i - 1 : t[j] = "validate"
    BY <2>1 DEF ValidateFirst
  <2>3. (t \o u)[j] = "validate"
    BY <2>1, <2>2
  <2> QED BY <2>3
<1>2. CASE i > Len(t) /\ Has(t, "validate")
  <2>1. PICK j \in 1 .. Len(t) : t[j] = "validate"
    BY <1>2 DEF Has
  <2>2. j \in 1 .. i - 1 /\ (t \o u)[j] = "validate"
    BY <1>2, <2>1
  <2> QED BY <2>2
<1>3. CASE i > Len(t) /\ ValidateFirst(u)
  <2>1. i - Len(t) \in 1 .. Len(u) /\ u[i - Len(t)] = (t \o u)[i]
    BY <1>3
  <2>2. PICK j \in 1 .. (i - Len(t)) - 1 : u[j] = "validate"
    BY <1>3, <2>1 DEF ValidateFirst
  <2>3. Len(t) + j \in 1 .. i - 1 /\ (t \o u)[Len(t) + j] = "validate"
    BY <2>1, <2>2
  <2> QED BY <2>3
<1> QED BY <1>1, <1>2, <1>3

\* The first step is done.
LEMMA RestOf ==
  ASSUME NEW t \in Seq(StepNames), t # <<>>
  PROVE  /\ Tail(t) \in Seq(StepNames) /\ Head(t) \in StepNames
         /\ \A s : Has(t, s) /\ s # Head(t) => Has(Tail(t), s)
         /\ ValidateFirst(t) => Head(t) \notin {"metadata", "blockchain"}
         /\ ValidateFirst(t) /\ Head(t) # "validate" => ValidateFirst(Tail(t))
<1>1. Tail(t) \in Seq(StepNames) /\ Head(t) \in StepNames /\ Head(t) = t[1] /\ Len(t) \in Nat \ {0}
  OBVIOUS
<1>2. Len(Tail(t)) = Len(t) - 1 /\ \A i \in 1 .. Len(t) - 1 : Tail(t)[i] = t[i + 1]
  BY <1>1
<1>3. ASSUME NEW s, Has(t, s), s # Head(t) PROVE Has(Tail(t), s)
  <2>1. PICK i \in 1 .. Len(t) : t[i] = s
    BY <1>3 DEF Has
  <2>2. i - 1 \in 1 .. Len(t) - 1 /\ t[(i - 1) + 1] = s
    BY <1>1, <1>3, <2>1
  <2> QED BY <1>2, <2>2 DEF Has
<1>4. ASSUME ValidateFirst(t) PROVE Head(t) \notin {"metadata", "blockchain"}
  <2>1. 1 \in 1 .. Len(t) /\ 1 .. (1 - 1) = {}
    BY <1>1
  <2> QED BY <1>1, <1>4, <2>1 DEF ValidateFirst
<1>5. ASSUME ValidateFirst(t), Head(t) # "validate" PROVE ValidateFirst(Tail(t))
  <2> SUFFICES ASSUME NEW i \in 1 .. Len(Tail(t)), Tail(t)[i] \in {"metadata", "blockchain"}
               PROVE  \E j \in 1 .. i - 1 : Tail(t)[j] = "validate"
    BY DEF ValidateFirst
  <2>1. i + 1 \in 1 .. Len(t) /\ t[i + 1] \in {"metadata", "blockchain"}
    BY <1>1, <1>2
  <2>2. PICK j \in 1 .. (i + 1) - 1 : t[j] = "validate"
    BY <1>5, <2>1 DEF ValidateFirst
  <2>3. j - 1 \in 1 .. i - 1 /\ j - 1 \in 1 .. Len(t) - 1 /\ t[(j - 1) + 1] = "validate"
    BY <1>1, <1>2, <1>5, <2>2
  <2> QED BY <1>2, <2>3
<1> QED BY <1>1, <1>3, <1>4, <1>5

\* The parts the steps are made of.
LEMMA StepParts ==
  /\ BlockchainSteps \in Seq(StepNames) /\ Has(BlockchainSteps, "blockchain")
  /\ ServiceSteps \in Seq(StepNames) /\ Has(ServiceSteps, "atomicStorage")
  /\ \A c \in Confs : /\ RegisteredServices(c) \in Seq(StepNames)
                      /\ Has(RegisteredServices(c), "atomicStorage")
<1>1. BlockchainSteps \in Seq(StepNames)
  BY DEF BlockchainSteps, StepNames, Memoised
<1>2. Has(BlockchainSteps, "blockchain")
  <2>1. Len(BlockchainSteps) = 2 /\ BlockchainSteps[2] = "blockchain"
    BY DEF BlockchainSteps
  <2> QED BY <2>1 DEF Has
<1> DEFINE A == <<"atomicStorage", "atomicStorage">>
           B == <<"metadata", "atomicStorage", "blockchain", "metadata", "channelService">>
<1>3. A \in Seq(StepNames) /\ B \in Seq(StepNames)
  BY DEF StepNames, Memoised
<1>4. Has(A, "atomicStorage")
  <2>1. Len(A) = 2 /\ A[1] = "atomicStorage"
    OBVIOUS
  <2> QED BY <2>1 DEF Has
<1>5. ServiceSteps = A \o BlockchainSteps \o B
  BY DEF ServiceSteps
<1> HIDE DEF A, B
<1>6. A \o BlockchainSteps \in Seq(StepNames) /\ Has(A \o BlockchainSteps, "atomicStorage")
  BY <1>1, <1>3, <1>4, HasConcat
<1>7. ServiceSteps \in Seq(StepNames) /\ Has(ServiceSteps, "atomicStorage")
  <2> DEFINE T == A \o BlockchainSteps
  <2>1. ServiceSteps = T \o B /\ T \in Seq(StepNames) /\ Has(T, "atomicStorage")
    BY <1>5, <1>6
  <2> HIDE DEF T
  <2>2. T \o B \in Seq(StepNames) /\ Has(T \o B, "atomicStorage")
    BY <1>3, <2>1, HasConcat
  <2> QED BY <2>1, <2>2
<1>8. ASSUME NEW c \in Confs
      PROVE  RegisteredServices(c) \in Seq(StepNames) /\ Has(RegisteredServices(c), "atomicStorage")
  <2> DEFINE C == IF c.blockchain THEN <<"channelService", "channelService">> ELSE <<"channelService">>
  <2>1. C \in Seq(StepNames)
    <3>1. <<"channelService", "channelService">> \in Seq(StepNames) /\ <<"channelService">> \in Seq(StepNames)
      BY DEF StepNames, Memoised
    <3> QED BY <3>1
  <2>2. RegisteredServices(c) = BlockchainSteps \o ServiceSteps \o C
    BY DEF RegisteredServices
  <2> HIDE DEF C
  <2>3. BlockchainSteps \o ServiceSteps \in Seq(StepNames) /\ Has(BlockchainSteps \o ServiceSteps, "atomicStorage")
    BY <1>1, <1>7, HasConcat
  <2> DEFINE T == BlockchainSteps \o ServiceSteps
  <2>4. RegisteredServices(c) = T \o C /\ T \in Seq(StepNames) /\ Has(T, "atomicStorage")
    BY <2>2, <2>3
  <2> HIDE DEF T
  <2>5. T \o C \in Seq(StepNames) /\ Has(T \o C, "atomicStorage")
    BY <2>1, <2>4, HasConcat
  <2> QED BY <2>4, <2>5
<1> QED BY <1>1, <1>2, <1>7, <1>8

\* A daemon that serves has made, when its steps are done, what its calls use,
\* and has validated its configuration before it dials.
LEMMA ServeParts ==
  ASSUME NEW c \in Confs
  PROVE  /\ ServeSteps(c) \in Seq(StepNames) /\ ValidateFirst(ServeSteps(c))
         /\ Has(ServeSteps(c), "blockchain")
         /\ c.server => Has(ServeSteps(c), "etcdServer")
         /\ c.type = "grpc" => Has(ServeSteps(c), "atomicStorage")
<1> DEFINE F == <<"config">>
           S == IF c.server THEN <<"etcdServer">> ELSE <<>>
           L == <<"logger", "validate", "lis">>
           A == IF c.acme THEN <<"acme">> ELSE <<>>
           C == <<"cert">>
           M == <<"metadata", "handler">>
           G == IF c.type = "grpc" THEN M \o RegisteredServices(c) ELSE <<>>
<1>1. /\ F \in Seq(StepNames) /\ L \in Seq(StepNames) /\ C \in Seq(StepNames) /\ M \in Seq(StepNames)
      /\ <<"etcdServer">> \in Seq(StepNames) /\ <<"acme">> \in Seq(StepNames) /\ <<>> \in Seq(StepNames)
  BY DEF StepNames, Memoised
<1>2. S \in Seq(StepNames) /\ A \in Seq(StepNames)
  BY <1>1
<1>3. ValidateFirst(F) /\ ValidateFirst(S) /\ ValidateFirst(L) /\ Has(L, "validate")
  <2>1. Len(L) = 3 /\ L[1] = "logger" /\ L[2] = "validate" /\ L[3] = "lis" /\ Len(F) = 1 /\ F[1] = "config"
    OBVIOUS
  <2>2. \A i \in 1 .. Len(S) : S[i] = "etcdServer"
    OBVIOUS
  <2> HIDE DEF S, L, F
  <2>3. ValidateFirst(F)
    BY <2>1 DEF ValidateFirst
  <2>4. ValidateFirst(L) /\ Has(L, "validate")
    BY <2>1 DEF ValidateFirst, Has
  <2>5. ValidateFirst(S)
    BY <2>2 DEF ValidateFirst
  <2> QED BY <2>3, <2>4, <2>5
<1>4. c.server => Has(S, "etcdServer")
  <2> SUFFICES ASSUME c.server PROVE Has(S, "etcdServer")
    OBVIOUS
  <2>1. Len(S) = 1 /\ S[1] = "etcdServer"
    OBVIOUS
  <2> QED BY <2>1 DEF Has
<1>5. G \in Seq(StepNames) /\ (c.type = "grpc" => Has(G, "atomicStorage"))
  <2>1. M \o RegisteredServices(c) \in Seq(StepNames) /\ Has(M \o RegisteredServices(c), "atomicStorage")
    <3>1. RegisteredServices(c) \in Seq(StepNames) /\ Has(RegisteredServices(c), "atomicStorage")
      BY StepParts
    <3>2. M \in Seq(StepNames)
      BY <1>1
    <3> HIDE DEF M
    <3> QED BY <3>1, <3>2, HasConcat
  <2> QED BY <1>1, <2>1
<1>6. ServeSteps(c) = F \o S \o L \o A \o BlockchainSteps \o C \o G
  BY DEF ServeSteps
<1> HIDE DEF F, S, L, A, C, M, G
<1> DEFINE P1 == F \o S
           P2 == P1 \o L
           P3 == P2 \o A
           P4 == P3 \o BlockchainSteps
           P5 == P4 \o C
<1>7. P1 \in Seq(StepNames) /\ ValidateFirst(P1) /\ (c.server => Has(P1, "etcdServer"))
  BY <1>1, <1>2, <1>3, <1>4, HasConcat, ValidateConcat
<1> HIDE DEF P1
<1>8. P2 \in Seq(StepNames) /\ ValidateFirst(P2) /\ Has(P2, "validate") /\ (c.server => Has(P2, "etcdServer"))
  BY <1>1, <1>3, <1>7, HasConcat, ValidateConcat
<1> HIDE DEF P2
<1>9. P3 \in Seq(StepNames) /\ ValidateFirst(P3) /\ Has(P3, "validate") /\ (c.server => Has(P3, "etcdServer"))
  BY <1>2, <1>8, HasConcat, ValidateConcat
<1> HIDE DEF P3
<1>10. /\ P4 \in Seq(StepNames) /\ ValidateFirst(P4) /\ Has(P4, "validate") /\ Has(P4, "blockchain")
       /\ c.server => Has(P4, "etcdServer")
  BY <1>9, StepParts, HasConcat, ValidateConcat
<1> HIDE DEF P4
<1>11. /\ P5 \in Seq(StepNames) /\ ValidateFirst(P5) /\ Has(P5, "validate") /\ Has(P5, "blockchain")
       /\ c.server => Has(P5, "etcdServer")
  BY <1>1, <1>10, HasConcat, ValidateConcat
<1>12. ServeSteps(c) = P5 \o G
  BY <1>6 DEF P1, P2, P3, P4
<1> HIDE DEF P5
<1> QED BY <1>5, <1>11, <1>12, HasConcat, ValidateConcat

\* A run begins with its steps, and nothing is open.
LEMMA LifeInitInv == LifeInit => LifeInv
<1> SUFFICES ASSUME LifeInit PROVE LifeInv
  OBVIOUS
<1>1. /\ conf \in Confs /\ todo = Steps(conf) /\ phase = "starting" /\ way = "none" /\ network = FALSE
      /\ made = [x \in Memoised |-> 0] /\ open = {} /\ closing = <<>> /\ calls = {} /\ failed = {}
  BY DEF LifeInit
<1>2. conf.cmd \in {"serve", "list", "channel"}
  BY <1>1, CommandsAssumption DEF Confs
<1>3. /\ todo \in Seq(StepNames)
      /\ conf.cmd = "serve" => todo = ServeSteps(conf)
      /\ conf.cmd # "list" => ValidateFirst(todo)
  <2>1. CASE conf.cmd = "serve"
    <3>1. Steps(conf) = ServeSteps(conf)
      BY <2>1 DEF Steps
    <3> QED BY <1>1, <2>1, <3>1, ServeParts
  <2>2. CASE conf.cmd = "list"
    <3>1. Steps(conf) = <<"config">> \o ServiceSteps
      BY <2>2 DEF Steps
    <3>2. <<"config">> \in Seq(StepNames)
      BY DEF StepNames
    <3>3. <<"config">> \o ServiceSteps \in Seq(StepNames)
      BY <3>2, StepParts
    <3> QED BY <1>1, <2>2, <3>1, <3>3
  <2>3. CASE conf.cmd = "channel"
    <3>1. todo = <<"config", "argument", "atomicStorage">>
      BY <1>1, <2>3 DEF Steps
    <3>2. todo \in Seq(StepNames) /\ Len(todo) = 3 /\ todo[1] = "config" /\ todo[2] = "argument"
          /\ todo[3] = "atomicStorage"
      BY <3>1 DEF StepNames, Memoised
    <3>3. ValidateFirst(todo)
      BY <3>2 DEF ValidateFirst
    <3> QED BY <2>3, <3>2, <3>3
  <2> QED BY <1>2, <2>1, <2>2, <2>3
<1>4. LifeTypeOK
  BY <1>1, <1>3 DEF LifeTypeOK, CloseRests
<1>5. OpenOrToDo
  BY <1>1, <1>3, ServeParts DEF OpenOrToDo
<1>6. CallsAreServed /\ OpenIsToClose /\ EtcdReleased /\ ValidatedInTime /\ PanicHasReason
  BY <1>1, <1>3 DEF CallsAreServed, OpenIsToClose, EtcdReleased, ValidatedInTime, PanicHasReason
<1> QED BY <1>4, <1>5, <1>6 DEF LifeInv

\* A step of the start works: what it was to open is open, and after
\* "validate" the network is known.
LEMMA StepWorksInv ==
  ASSUME LifeInv, NEW s \in StepNames, StepWorks(s)
  PROVE  LifeInv'
<1>t. LifeTypeOK /\ OpenOrToDo /\ CallsAreServed /\ ValidatedInTime /\ PanicHasReason
  BY DEF LifeInv
<1>1. /\ phase = "starting" /\ todo # <<>> /\ Head(todo) = s /\ todo' = Tail(todo)
      /\ UNCHANGED <<conf, phase, way, closing, calls, failed>>
      /\ open' = open \cup Opens(s) /\ network' = (network \/ s = "validate")
  BY DEF StepWorks, At, Done
<1>2. /\ todo' \in Seq(StepNames)
      /\ \A x : Has(todo, x) /\ x # s => Has(todo', x)
      /\ ValidateFirst(todo) /\ s # "validate" => ValidateFirst(todo')
  BY <1>1, <1>t, RestOf DEF LifeTypeOK
<1>3. LifeTypeOK'
  <2>1. made' \in [Memoised -> Nat]
    BY <1>t DEF StepWorks, Get, LifeTypeOK
  <2>2. open' \subseteq Resources
    BY <1>1, <1>t DEF LifeTypeOK, Opens, Resources
  <2> QED BY <1>1, <1>2, <1>t, <2>1, <2>2 DEF LifeTypeOK
<1>4. OpenOrToDo'
  <2>1. /\ s = "atomicStorage" /\ conf.etcd => "etcdClient" \in open'
        /\ s = "etcdServer" => "etcdServer" \in open'
        /\ s = "blockchain" /\ conf.blockchain => "ethClient" \in open'
        /\ open \subseteq open'
    BY <1>1 DEF Opens
  <2> QED BY <1>1, <1>2, <1>t, <2>1 DEF OpenOrToDo
<1>5. ValidatedInTime'
  BY <1>1, <1>2, <1>t DEF ValidatedInTime
<1>6. CallsAreServed' /\ OpenIsToClose' /\ EtcdReleased' /\ PanicHasReason'
  BY <1>1, <1>t DEF CallsAreServed, OpenIsToClose, EtcdReleased, PanicHasReason
<1> QED BY <1>3, <1>4, <1>5, <1>6 DEF LifeInv

\* A step of the start fails: if it does so with nothing wrong outside of the
\* daemon, a network was not selected in time.
LEMMA StepFailsInv ==
  ASSUME LifeInv, NEW s \in StepNames, StepFails(s)
  PROVE  LifeInv'
<1>t. LifeTypeOK /\ OpenOrToDo /\ CallsAreServed /\ ValidatedInTime /\ PanicHasReason
  BY DEF LifeInv
<1>1. /\ phase = "starting" /\ todo # <<>> /\ Head(todo) = s
      /\ UNCHANGED <<conf, todo, network, made, open, calls>>
      /\ failed' = IF Reachable(s) THEN failed \cup {s} ELSE failed
  BY DEF StepFails, At
<1>2. \/ /\ phase' = "closing" /\ closing' = CloseOrder /\ way' \in {"panic", "error"}
      \/ /\ phase' = "exited" /\ way' = "fatal" /\ closing' = closing
  BY DEF StepFails, Unwind, FailsBy
<1>3. LifeTypeOK'
  BY <1>1, <1>2, <1>t DEF LifeTypeOK, CloseRests, Ways
<1>4. OpenOrToDo' /\ CallsAreServed' /\ OpenIsToClose' /\ EtcdReleased' /\ ValidatedInTime'
  BY <1>1, <1>2, <1>t DEF OpenOrToDo, CallsAreServed, OpenIsToClose, EtcdReleased, ValidatedInTime
<1>5. PanicHasReason'
  <2> SUFFICES ASSUME failed' = {}, conf.blockchain, conf.cmd # "list" PROVE FALSE
    BY <1>1 DEF PanicHasReason
  <2>1. ~Reachable(s)
    BY <1>1
  <2>2. s \in {"metadata", "blockchain"} /\ ~network
    BY <2>1 DEF Reachable
  <2>3. ValidateFirst(todo)
    BY <1>1, <1>t, <2>2 DEF ValidatedInTime
  <2> QED BY <1>1, <1>t, <2>2, <2>3, RestOf DEF LifeTypeOK
<1> QED BY <1>3, <1>4, <1>5 DEF LifeInv

\* Close goes on: the client, the server, the blockchain.
LEMMA CloseNextInv == ASSUME LifeInv, CloseNext PROVE LifeInv'
<1>t. LifeTypeOK /\ CallsAreServed /\ OpenIsToClose /\ PanicHasReason
  BY DEF LifeInv
<1> DEFINE x == Head(closing)
           broken == x = "ethClient" /\ made["blockchain"] > 0 /\ ~conf.blockchain
<1>1. /\ phase = "closing" /\ closing # <<>>
      /\ open' = open \ {x}
      /\ closing' = IF broken THEN <<>> ELSE Tail(closing)
      /\ way' = IF broken THEN "panic" ELSE way
      /\ UNCHANGED <<conf, todo, phase, network, made, calls, failed>>
  BY DEF CloseNext
<1>2. \/ closing = CloseOrder /\ x = "etcdClient" /\ Tail(closing) = <<"etcdServer", "ethClient">>
      \/ closing = <<"etcdServer", "ethClient">> /\ x = "etcdServer" /\ Tail(closing) = <<"ethClient">>
      \/ closing = <<"ethClient">> /\ x = "ethClient" /\ Tail(closing) = <<>>
  <2>1. closing \in {CloseOrder, <<"etcdServer", "ethClient">>, <<"ethClient">>}
    BY <1>1, <1>t DEF LifeTypeOK, CloseRests
  <2>2. CASE closing = CloseOrder
    BY <2>2 DEF CloseOrder
  <2>3. CASE closing = <<"etcdServer", "ethClient">>
    BY <2>3
  <2>4. CASE closing = <<"ethClient">>
    BY <2>4
  <2> QED BY <2>1, <2>2, <2>3, <2>4
<1>3. /\ CloseOrder # <<"etcdServer", "ethClient">> /\ CloseOrder # <<"ethClient">>
      /\ <<"etcdServer", "ethClient">> # <<"ethClient">>
  <2>1. Len(CloseOrder) = 3 /\ Len(<<"etcdServer", "ethClient">>) = 2 /\ Len(<<"ethClient">>) = 1
    BY DEF CloseOrder
  <2> QED BY <2>1
<1>4. closing' \in CloseRests /\ (closing' = Tail(closing) \/ closing' = <<>>)
  BY <1>1, <1>2 DEF CloseRests
<1>5. OpenIsToClose'
  <2>1. CASE closing = CloseOrder
    <3>1. x = "etcdClient" /\ closing' = <<"etcdServer", "ethClient">>
      BY <1>1, <1>2, <1>3, <2>1
    <3> QED BY <1>1, <3>1 DEF OpenIsToClose
  <2>2. CASE closing = <<"etcdServer", "ethClient">>
    <3>1. x = "etcdServer" /\ "etcdClient" \notin open
      BY <1>1, <1>2, <1>3, <1>t, <2>2 DEF OpenIsToClose
    <3> QED BY <1>1, <3>1 DEF OpenIsToClose
  <2>3. CASE closing = <<"ethClient">>
    <3>1. "etcdClient" \notin open /\ "etcdServer" \notin open
      BY <1>1, <1>3, <1>t, <2>3 DEF OpenIsToClose
    <3> QED BY <1>1, <3>1 DEF OpenIsToClose
  <2> QED BY <1>2, <2>1, <2>2, <2>3
<1>6. way' \in Ways \cup {"none"}
      /\ (way' = "panic" => ~conf.blockchain \/ way = "panic")
  BY <1>1, <1>t DEF LifeTypeOK, Ways
<1> HIDE DEF x, broken
<1>7. LifeTypeOK'
  BY <1>1, <1>4, <1>6, <1>t DEF LifeTypeOK
<1>8. OpenOrToDo' /\ CallsAreServed' /\ EtcdReleased' /\ ValidatedInTime'
  BY <1>1, <1>t DEF OpenOrToDo, CallsAreServed, EtcdReleased, ValidatedInTime
<1>9. PanicHasReason'
  BY <1>1, <1>6, <1>t DEF PanicHasReason
<1> QED BY <1>5, <1>7, <1>8, <1>9 DEF LifeInv

\* Every step of a run keeps the invariant.
LEMMA LifeStep == LifeInv /\ [LifeNext]_lifeVars => LifeInv'
<1> SUFFICES ASSUME LifeInv, [LifeNext]_lifeVars PROVE LifeInv'
  OBVIOUS
<1>t. /\ LifeTypeOK /\ OpenOrToDo /\ CallsAreServed /\ OpenIsToClose /\ EtcdReleased
      /\ ValidatedInTime /\ PanicHasReason
  BY DEF LifeInv
<1>1. CASE Started
  <2>1. /\ phase = "starting" /\ todo = <<>> /\ phase' = "working"
        /\ UNCHANGED <<conf, todo, way, network, made, open, closing, calls, failed>>
    BY <1>1 DEF Started
  <2>2. LifeTypeOK' /\ OpenOrToDo' /\ CallsAreServed'
    BY <1>t, <2>1 DEF LifeTypeOK, OpenOrToDo, CallsAreServed
  <2>3. OpenIsToClose' /\ EtcdReleased' /\ ValidatedInTime' /\ PanicHasReason'
    BY <1>t, <2>1 DEF OpenIsToClose, EtcdReleased, ValidatedInTime, PanicHasReason
  <2> QED BY <2>2, <2>3 DEF LifeInv
<1>2. CASE CommandRuns
  <2>1. /\ phase = "working" /\ conf.cmd # "serve" /\ phase' = "closing" /\ closing' = CloseOrder
        /\ way' \in {"clean", "error"} /\ failed' \in {failed, failed \cup {"storage"}}
        /\ UNCHANGED <<conf, todo, network, made, open, calls>>
    BY <1>2 DEF CommandRuns, Unwind
  <2>2. LifeTypeOK'
    BY <1>t, <2>1 DEF LifeTypeOK, CloseRests, Ways
  <2>3. OpenOrToDo' /\ CallsAreServed' /\ OpenIsToClose' /\ EtcdReleased' /\ ValidatedInTime' /\ PanicHasReason'
    BY <1>t, <2>1 DEF OpenOrToDo, CallsAreServed, OpenIsToClose, EtcdReleased, ValidatedInTime, PanicHasReason
  <2> QED BY <2>2, <2>3 DEF LifeInv
<1>3. CASE Signal
  <2>1. /\ phase = "working" /\ conf.cmd = "serve" /\ phase' = "stopping"
        /\ UNCHANGED <<conf, todo, way, network, made, open, closing, calls, failed>>
    BY <1>3 DEF Signal
  <2>2. LifeTypeOK' /\ OpenOrToDo' /\ CallsAreServed'
    BY <1>t, <2>1 DEF LifeTypeOK, OpenOrToDo, CallsAreServed
  <2>3. OpenIsToClose' /\ EtcdReleased' /\ ValidatedInTime' /\ PanicHasReason'
    BY <1>t, <2>1 DEF OpenIsToClose, EtcdReleased, ValidatedInTime, PanicHasReason
  <2> QED BY <2>2, <2>3 DEF LifeInv
<1>4. CASE StopDaemon
  <2>1. /\ phase = "stopping" /\ (conf.type = "grpc" => calls = {}) /\ phase' = "closing"
        /\ closing' = CloseOrder /\ way' = "clean" /\ open' = open \ {"lis", "acme"}
        /\ UNCHANGED <<conf, todo, network, made, calls, failed>>
    BY <1>4 DEF StopDaemon, Unwind
  <2>2. LifeTypeOK'
    BY <1>t, <2>1 DEF LifeTypeOK, CloseRests, Ways
  <2>3. OpenOrToDo' /\ CallsAreServed' /\ OpenIsToClose' /\ EtcdReleased' /\ ValidatedInTime' /\ PanicHasReason'
    BY <1>t, <2>1 DEF OpenOrToDo, CallsAreServed, OpenIsToClose, EtcdReleased, ValidatedInTime, PanicHasReason
  <2> QED BY <2>2, <2>3 DEF LifeInv
<1>5. CASE Exits \/ Killed \/ \E c \in Calls : CallPanics(c)
  <2>1. /\ phase' = "exited" /\ calls' = {}
        /\ way' \in {"killed", "crash"} \/ (way' = way /\ phase = "closing" /\ closing = <<>>)
        /\ UNCHANGED <<conf, todo, network, made, open, closing, failed>>
    BY <1>5 DEF Exits, Killed, CallPanics, Exit
  <2>2. LifeTypeOK'
    BY <1>t, <2>1 DEF LifeTypeOK, Ways
  <2>3. CloseOrder # <<>> /\ <<"etcdServer", "ethClient">> # <<>>
    BY DEF CloseOrder
  <2>4. EtcdReleased'
    BY <1>t, <2>1, <2>3 DEF OpenIsToClose, EtcdReleased
  <2>5. OpenOrToDo' /\ CallsAreServed' /\ OpenIsToClose' /\ ValidatedInTime' /\ PanicHasReason'
    BY <1>t, <2>1 DEF OpenOrToDo, CallsAreServed, OpenIsToClose, ValidatedInTime, PanicHasReason
  <2> QED BY <2>2, <2>4, <2>5 DEF LifeInv
<1>6. ASSUME NEW c \in Calls, CallArrives(c) \/ CallEnds(c) PROVE LifeInv'
  <2>1. /\ \/ calls' = calls \cup {c} /\ phase = "working" /\ conf.cmd = "serve"
           \/ calls' = calls \ {c}
        /\ UNCHANGED <<conf, todo, phase, way, network, made, open, closing, failed>>
    BY <1>6 DEF CallArrives, CallEnds
  <2>2. LifeTypeOK' /\ OpenOrToDo' /\ CallsAreServed'
    BY <1>t, <2>1 DEF LifeTypeOK, OpenOrToDo, CallsAreServed
  <2>3. OpenIsToClose' /\ EtcdReleased' /\ ValidatedInTime' /\ PanicHasReason'
    BY <1>t, <2>1 DEF OpenIsToClose, EtcdReleased, ValidatedInTime, PanicHasReason
  <2> QED BY <2>2, <2>3 DEF LifeInv
<1>7. CASE UNCHANGED lifeVars
  BY <1>7, <1>t DEF lifeVars, LifeInv, LifeTypeOK, OpenOrToDo, CallsAreServed, OpenIsToClose, EtcdReleased,
                    ValidatedInTime, PanicHasReason
<1> QED BY <1>1, <1>2, <1>3, <1>4, <1>5, <1>6, <1>7, StepWorksInv, StepFailsInv, CloseNextInv
        DEF LifeNext, Starting, Ending

\* The inductive invariant of a run of snetd holds in every state of it.
THEOREM LifeInvariant == LifeSpec => []LifeInv
  BY LifeInitInv, LifeStep, PTL DEF LifeSpec

\* While a call of the gRPC server is in progress the storage, the embedded
\* etcd server and the ethereum client are open (snetd/cmd/serve.go, the order
\* of the steps and of the deferred calls).
THEOREM CallsHaveWhatTheyUse == LifeSpec => []ServedUntilDrained
<1>1. LifeInv => ServedUntilDrained
  <2> SUFFICES ASSUME LifeInv, conf.type = "grpc", calls # {}
               PROVE  /\ conf.etcd => "etcdClient" \in open
                      /\ conf.server => "etcdServer" \in open
                      /\ conf.blockchain => "ethClient" \in open
    BY DEF ServedUntilDrained
  <2>1. phase \in {"working", "stopping"} /\ conf.cmd = "serve" /\ todo = <<>>
    BY DEF LifeInv, CallsAreServed
  <2>2. \A s : ~Has(todo, s)
    BY <2>1 DEF Has
  <2> QED BY <2>1, <2>2 DEF LifeInv, OpenOrToDo
<1> QED BY <1>1, LifeInvariant, PTL

\* However main's goroutine ends a run, short of log.Fatal, the etcd client
\* and the embedded server are closed (snetd/cmd/components.go, Close); kills
\* and panics of calls, which end the process at once, are steps as well.
THEOREM EtcdIsReleased == LifeSpec => []EtcdReleased
<1>1. LifeInv => EtcdReleased
  BY DEF LifeInv
<1> QED BY <1>1, LifeInvariant, PTL

\* If nothing failed main's goroutine does not panic, but for two exceptions
\* (snetd/cmd/flags.go, RunAndCleanup): whatever it uses was set up, whether
\* calls crash the process or not.
THEOREM RunReturnsResult == LifeSpec => []ReturnsResult
<1>1. LifeInv => ReturnsResult
  BY DEF LifeInv, PanicHasReason, ReturnsResult
<1> QED BY <1>1, LifeInvariant, PTL
=============================================================================
