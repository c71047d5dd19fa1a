----------------------------- MODULE Lifecycle -----------------------------
(***************************************************************************)
(* One run of the snetd executable: what a command acquires, in which      *)
(* order, how each step may fail, and what is released on the way out      *)
(* (snetd/cmd/serve.go, components.go, flags.go, list_channels.go,         *)
(* list_claims.go, channel.go; etcddb/etcddb_server.go;                    *)
(* blockchain/blockchain.go, serviceMetadata.go; config/config.go).        *)
(*                                                                         *)
(* A failing step ends the run in one of the three ways the code has:      *)
(*   panic   log.Panic or a nil pointer: the deferred calls run;           *)
(*   fatal   log.Fatal: the process exits at once, nothing deferred runs;  *)
(*   error   the command returns its error, the deferred calls run.        *)
(* All of these are main's own goroutine.  A panic in the goroutine of a   *)
(* gRPC call, which nothing recovers, is a crash: the process ends at once *)
(* and none of main's deferred calls run.                                  *)
(***************************************************************************)
EXTENDS Naturals, Sequences

CONSTANTS
  Calls,       \* bound: calls a daemon has at a time
  Commands,    \* commands that are run: "serve", "list", "channel"
  Blockchain   \* values of blockchain_enabled

ASSUME CommandsAssumption ==
  /\ Commands \subseteq {"serve", "list", "channel"}
  /\ Blockchain \subseteq BOOLEAN

VARIABLES
  conf,     \* the command and its configuration
  todo,     \* the steps still to do before the command does its work
  phase,    \* "starting", "working", "stopping", "closing", "exited"
  way,      \* how the run ends: "none", or one of Ways
  network,  \* config.networkSelected is set
  made,     \* made[x]: instances made of component x
  open,     \* what is open
  closing,  \* what Components.Close still has to look at
  calls,    \* calls in progress
  failed    \* steps that failed for a reason outside of the daemon

lifeVars == <<conf, todo, phase, way, network, made, open, closing, calls, failed>>

\* etcd: payment_channel_storage_type; server: the embedded etcd server is
\* enabled; type: daemon_type; acme: auto_ssl_domain is set.
Confs ==
  [cmd : Commands, blockchain : Blockchain, etcd : BOOLEAN, server : BOOLEAN,
   type : {"grpc", "http"}, acme : BOOLEAN]

Ways == {"clean", "error", "panic", "fatal", "crash", "killed"}

\* Getters that keep what they made in Components, and what Close releases.
Memoised  == {"metadata", "blockchain", "atomicStorage", "channelService", "etcdServer"}
Resources == {"etcdServer", "etcdClient", "ethClient", "lis", "acme"}

----------------------------------------------------------------------------
(* The order of the steps. *)

\* Blockchain() asks for the service metadata first.
BlockchainSteps == <<"metadata", "blockchain">>

\* PaymentChannelService: the two storages, the channel reader, the locker,
\* the validator.
ServiceSteps ==
  <<"atomicStorage", "atomicStorage">> \o BlockchainSteps
  \o <<"metadata", "atomicStorage", "blockchain", "metadata", "channelService">>

\* GrpcInterceptor, the state service and the control service.
RegisteredServices(c) ==
  BlockchainSteps \o ServiceSteps
  \o (IF c.blockchain THEN <<"channelService", "channelService">> ELSE <<"channelService">>)

ServeStepsUnvalidated(c) ==   \* mutant: the configuration is validated too late
  <<"config">> \o BlockchainSteps \o <<"logger", "validate", "lis">>
ServeSteps(c) ==
  <<"config">>
  \o (IF c.server THEN <<"etcdServer">> ELSE <<>>)
  \o <<"logger", "validate", "lis">>
  \o (IF c.acme THEN <<"acme">> ELSE <<>>)
  \o BlockchainSteps \o <<"cert">>
  \o (IF c.type = "grpc" THEN <<"metadata", "handler">> \o RegisteredServices(c) ELSE <<>>)

Steps(c) ==
  CASE c.cmd = "serve"   -> ServeSteps(c)
    [] c.cmd = "list"    -> <<"config">> \o ServiceSteps
    [] c.cmd = "channel" -> <<"config", "argument", "atomicStorage">>

\* How a step that fails may end the run.  A logger section or a network
\* that is missing from the configuration is a nil value, and so a panic.
FailsBy(s) ==
  CASE s \in {"lis", "acme", "cert"}    -> {"fatal"}
    [] s \in {"logger", "validate"}     -> {"fatal", "panic"}
    [] s = "argument"                   -> {"error"}
    [] OTHER                            -> {"panic"}

\* Steps that cannot fail by themselves.
Infallible == {"channelService"}

StepNames == Memoised \cup {"config", "logger", "validate", "lis", "acme", "cert", "handler", "argument"}

----------------------------------------------------------------------------
LifeInit ==
  /\ conf \in Confs
  /\ todo    = Steps(conf)
  /\ phase   = "starting"
  /\ way     = "none"
  /\ network = FALSE
  /\ made    = [x \in Memoised |-> 0]
  /\ open    = {}
  /\ closing = <<>>
  /\ calls   = {}
  /\ failed  = {}

\* Components.Close looks at the client, the server and the blockchain.
CloseBlockchainFirst == <<"ethClient", "etcdClient", "etcdServer">>   \* mutant
CloseOrder == <<"etcdClient", "etcdServer", "ethClient">>

\* The deferred calls run: Components.Close.
Unwind(w) ==
  /\ phase'   = "closing"
  /\ way'     = w
  /\ closing' = CloseOrder

\* The process is gone.
Exit(w) ==
  /\ phase' = "exited"
  /\ way'   = w
  /\ calls' = {}
  /\ UNCHANGED <<conf, todo, network, made, open, closing, failed>>

----------------------------------------------------------------------------
(* Starting. *)

At(s) == phase = "starting" /\ todo # <<>> /\ Head(todo) = s
Done  == todo' = Tail(todo) /\ UNCHANGED <<conf, phase, way, closing, calls, failed>>

\* What is dialled to read the registry and the contract is known only once
\* config.Validate has run; nothing can be dialled with an empty end point.
Reachable(s) == s \in {"metadata", "blockchain"} /\ conf.blockchain => network

\* What a step opens: the blockchain only if it is enabled, the storage only
\* if it is etcd.
Opens(s) ==
  CASE s \in {"etcdServer", "lis", "acme"} -> {s}
    [] s = "blockchain" /\ conf.blockchain -> {"ethClient"}
    [] s = "atomicStorage" /\ conf.etcd -> {"etcdClient"}
    [] OTHER -> {}

\* A getter makes its component once.
Get(s) == made' = IF made[s] > 0 THEN made ELSE [made EXCEPT ![s] = @ + 1]

\* One step works.
StepWorks(s) ==
  /\ At(s)
  /\ Reachable(s)
  /\ IF s \in Memoised THEN Get(s) ELSE UNCHANGED made
  /\ open'    = open \cup Opens(s)
  /\ network' = (network \/ s = "validate")
  /\ Done

\* One step fails: config file, etcd server, listener, registry, IPFS or
\* metadata file, ethereum client, certificate, etcd client...  A component
\* that was made before is not made again and does not fail.
StepFails(s) ==
  /\ At(s)
  /\ s \notin Infallible
  /\ s \in Memoised => made[s] = 0
  /\ s = "atomicStorage" => conf.etcd
  /\ failed' = IF Reachable(s) THEN failed \cup {s} ELSE failed
  /\ \/ \E w \in FailsBy(s) \ {"fatal"} : Unwind(w)
     \/ /\ "fatal" \in FailsBy(s)
        /\ phase' = "exited" /\ way' = "fatal"
        /\ UNCHANGED closing
  /\ UNCHANGED <<conf, todo, network, made, open, calls>>

\* Everything is there: the daemon serves, a command does its work.
Started ==
  /\ phase = "starting"
  /\ todo = <<>>
  /\ phase' = "working"
  /\ UNCHANGED <<conf, todo, way, network, made, open, closing, calls, failed>>

----------------------------------------------------------------------------
(* Working and stopping. *)

\* list channels, list claims, channel --unlock: their access to the storage
\* works or fails, and the command returns.
CommandRuns ==
  /\ phase = "working" /\ conf.cmd # "serve"
  /\ \/ Unwind("clean") /\ UNCHANGED failed
     \/ Unwind("error") /\ failed' = failed \cup {"storage"}
  /\ UNCHANGED <<conf, todo, network, made, open, calls>>

CallArrivesLate(c) ==   \* mutant: the daemon takes calls while it stops
  /\ phase \in {"working", "stopping"} /\ conf.cmd = "serve"
  /\ c \notin calls
  /\ calls' = calls \cup {c}
  /\ UNCHANGED <<conf, todo, phase, way, network, made, open, closing, failed>>
CallArrives(c) ==
  /\ phase = "working" /\ conf.cmd = "serve"
  /\ c \notin calls
  /\ calls' = calls \cup {c}
  /\ UNCHANGED <<conf, todo, phase, way, network, made, open, closing, failed>>

CallEnds(c) ==
  /\ phase \in {"working", "stopping", "closing"}
  /\ c \in calls
  /\ calls' = calls \ {c}
  /\ UNCHANGED <<conf, todo, phase, way, network, made, open, closing, failed>>

\* A call panics: the payment interceptor panics again after its rollback,
\* StartClaim is asked for an unknown channel, Check has no error to report.
\* (The HTTP daemon's calls are recovered by net/http.)
CallPanics(c) ==
  /\ phase \in {"working", "stopping"} /\ conf.type = "grpc"
  /\ c \in calls
  /\ Exit("crash")

\* SIGTERM or SIGINT while the daemon serves.
Signal ==
  /\ phase = "working" /\ conf.cmd = "serve"
  /\ phase' = "stopping"
  /\ UNCHANGED <<conf, todo, way, network, made, open, closing, calls, failed>>

\* daemon.stop, deferred last and so run first: GracefulStop waits for the
\* calls of a gRPC server; then the listeners are closed.  Calls are native
\* gRPC calls here: one of grpc-web runs in the http.Server (ServeHTTP).
StopAtOnce ==   \* mutant: Stop instead of GracefulStop
  /\ phase = "stopping"
  /\ open' = open \ {"lis", "acme"}
  /\ Unwind("clean")
  /\ UNCHANGED <<conf, todo, network, made, calls, failed>>
StopDaemon ==
  /\ phase = "stopping"
  /\ conf.type = "grpc" => calls = {}
  /\ open' = open \ {"lis", "acme"}
  /\ Unwind("clean")
  /\ UNCHANGED <<conf, todo, network, made, calls, failed>>

\* Components.Close, one component at a time; a blockchain processor that was
\* made without its clients is a nil pointer.
CloseNext ==
  /\ phase = "closing" /\ closing # <<>>
  /\ LET x == Head(closing)
         broken == x = "ethClient" /\ made["blockchain"] > 0 /\ ~conf.blockchain
     IN /\ open' = open \ {x}
        /\ closing' = IF broken THEN <<>> ELSE Tail(closing)
        /\ way' = IF broken THEN "panic" ELSE way
  /\ UNCHANGED <<conf, todo, phase, network, made, calls, failed>>

Exits ==
  /\ phase = "closing" /\ closing = <<>>
  /\ Exit(way)

\* SIGKILL, or a signal before the daemon listens for signals.
Killed == phase # "exited" /\ Exit("killed")

Starting == Started \/ CommandRuns \/ \E s \in StepNames : StepWorks(s) \/ StepFails(s)
Ending   == StopDaemon \/ CloseNext \/ Exits

LifeNext ==
  \/ Starting \/ Signal \/ Ending \/ Killed
  \/ \E c \in Calls : CallArrives(c) \/ CallEnds(c) \/ CallPanics(c)

LifeSpec == LifeInit /\ [][LifeNext]_lifeVars

\* The process runs, what it waits for answers or fails, and calls end; a
\* signal need not come.
LifeFairness ==
  /\ WF_lifeVars(Starting) /\ WF_lifeVars(Ending)
  /\ \A c \in Calls : WF_lifeVars(CallEnds(c))

LifeFairSpec == LifeSpec /\ LifeFairness

----------------------------------------------------------------------------
(* Correctness. *)

\* While a native call of the gRPC server is in progress everything it uses is
\* open: shutdown drains the calls before it closes the storage (serve.go:63, the
\* order of the deferred calls; serve.go:226 GracefulStop).
ServedUntilDrained ==
  conf.type = "grpc" /\ calls # {} =>
    /\ conf.etcd => "etcdClient" \in open
    /\ conf.server => "etcdServer" \in open
    /\ conf.blockchain => "ethClient" \in open

\* However main's goroutine ends the run, short of log.Fatal, the etcd client
\* and the embedded etcd server have been closed: also when a later step
\* panics, and when Close itself does (components.go:72).  A kill, and a
\* panic in a call's goroutine, do not come to Close.
EtcdReleased ==
  phase = "exited" /\ way \in {"clean", "error", "panic"} =>
    open \cap {"etcdClient", "etcdServer"} = {}

\* A run that was told to stop, or has only a command to do, comes to an end.
Ends ==
  phase \in {"stopping", "closing"} \/ (phase = "starting" /\ conf.cmd # "serve")
    ~> phase = "exited"

\* If nothing failed, main's goroutine does not panic while it starts, runs
\* and closes a command ("RunAndCleanup initializes components, constructs
\* command, runs it, cleanups components and returns results", flags.go:19):
\* whatever it uses was set up before.  It has two exceptions: without a
\* blockchain Processor.Close closes clients that are nil (blockchain.go:119),
\* and the list commands never call Validate, which selects the network
\* (blockchain_network_config.go:65).  It is not about the calls: those may
\* crash a daemon that lacks nothing (CallPanics).
ReturnsResult ==
  phase = "exited" /\ way = "panic" /\ failed = {} => ~conf.blockchain \/ conf.cmd = "list"

----------------------------------------------------------------------------
(* The inductive invariant behind the three above. *)

\* What Close still has to look at: the end of CloseOrder.
CloseRests == {CloseOrder, <<"etcdServer", "ethClient">>, <<"ethClient">>, <<>>}

LifeTypeOK ==
  /\ conf    \in Confs
  /\ todo    \in Seq(StepNames)
  /\ phase   \in {"starting", "working", "stopping", "closing", "exited"}
  /\ way     \in Ways \cup {"none"}
  /\ network \in BOOLEAN
  /\ made    \in [Memoised -> Nat]
  /\ open    \subseteq Resources
  /\ closing \in CloseRests
  /\ calls   \subseteq Calls
  /\ failed  \subseteq StepNames \cup {"storage"}

\* Step s is one of t.
Has(t, s) == \E i \in 1 .. Len(t) : t[i] = s

\* What a call will use is open, or will be before there are calls.
OpenOrToDo ==
  conf.cmd = "serve" /\ conf.type = "grpc" /\ phase \in {"starting", "working", "stopping"} =>
    /\ conf.etcd => "etcdClient" \in open \/ Has(todo, "atomicStorage")
    /\ conf.server => "etcdServer" \in open \/ Has(todo, "etcdServer")
    /\ conf.blockchain => "ethClient" \in open \/ Has(todo, "blockchain")

\* There are calls only between the last step and the shutdown.
CallsAreServed ==
  /\ phase \in {"working", "stopping"} => todo = <<>>
  /\ phase = "stopping" => conf.cmd = "serve"
  /\ calls # {} => /\ conf.cmd = "serve" /\ phase \in {"working", "stopping", "closing"}
                   /\ conf.type = "grpc" => phase # "closing"

\* What is still open, Close has not come to yet.
OpenIsToClose ==
  phase = "closing" => /\ "etcdClient" \in open => closing = CloseOrder
                       /\ "etcdServer" \in open => closing \in {CloseOrder, <<"etcdServer", "ethClient">>}

\* Nothing is dialled before the network is selected.
ValidateFirst(t) ==
  \A i \in 1 .. Len(t) : t[i] \in {"metadata", "blockchain"} =>
    \E j \in 1 .. i - 1 : t[j] = "validate"
ValidatedInTime ==
  phase = "starting" /\ conf.cmd # "list" => network \/ ValidateFirst(todo)

\* A panic of main's goroutine has a reason.
PanicHasReason == way = "panic" /\ failed = {} => ~conf.blockchain \/ conf.cmd = "list"

LifeInv == /\ LifeTypeOK /\ OpenOrToDo /\ CallsAreServed /\ OpenIsToClose /\ EtcdReleased
           /\ ValidatedInTime /\ PanicHasReason
=============================================================================
