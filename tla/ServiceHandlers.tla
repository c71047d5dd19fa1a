-------------------------- MODULE ServiceHandlers --------------------------
(***************************************************************************)
(* The unary handlers of handler/grpc.go: how a paid call whose payment    *)
(* has been let through, and whose channel is therefore locked, is handed  *)
(* to a JSON-RPC service, to a process per call, or echoed.                *)
(*                                                                         *)
(* Data is counted in units: what matters of a request is its size.  A     *)
(* process is given its request through a pipe that holds PipeBuffer units *)
(* as long as nobody reads it.                                             *)
(***************************************************************************)
EXTENDS Naturals, FiniteSets

CONSTANTS
  Calls,            \* bound: calls at a time
  Channels,         \* payment channels
  ServiceTypes,     \* service_type of the metadata, or "none": passthrough disabled
  MaxMessageSize,   \* max_message_size_in_mb
  PipeBuffer        \* what the operating system's pipe holds

ASSUME SizesAssumption == MaxMessageSize \in Nat /\ PipeBuffer \in Nat \ {0}
ASSUME TypesAssumption == ServiceTypes \subseteq {"jsonrpc", "process", "none"}

VARIABLES
  serviceType, \* the service type of this daemon
  pc,        \* pc[c]: the next access of call c
  chOf,      \* chOf[c]: the channel call c pays from
  left,      \* left[c]: units of the request still to be written to the pipe
  buffer,    \* buffer[c]: units in the pipe
  ran,       \* ran[c]: times the service worked for call c
  replied,   \* replied[c]: the service's answer has been sent to the client
  charged    \* charged[c]: the call was paid for when it ended

handlerVars == <<serviceType, pc, chOf, left, buffer, ran, replied, charged>>

\* The requests there are: up to one unit more than the server accepts.
Sizes == 0 .. MaxMessageSize + 1

\* NewGrpcHandler; "grpc" is in GrpcProxy.  Any other service type leaves the
\* handler nil, and the first paid call panics (Escrow's ServicePanics).
FirstStep(type) ==
  CASE type = "jsonrpc" -> "decode"
    [] type = "process" -> "pipe"
    [] type = "none"    -> "send"

HandlersInit ==
  /\ serviceType \in ServiceTypes
  /\ pc       = [c \in Calls |-> "idle"]
  /\ chOf     \in [Calls -> Channels]
  /\ left     = [c \in Calls |-> 0]
  /\ buffer   = [c \in Calls |-> 0]
  /\ ran      = [c \in Calls |-> 0]
  /\ replied  = [c \in Calls |-> FALSE]
  /\ charged  = [c \in Calls |-> FALSE]

Continue(c, p) == pc' = [pc EXCEPT ![c] = p]
Locked(ch) == \E c \in Calls : chOf[c] = ch /\ pc[c] # "idle"

\* The handler returns: without an error the interceptor completes the
\* payment, which may fail although the answer has been sent, with one it
\* rolls it back; all of these unlock the channel.
Return(c, ok) ==
  /\ Continue(c, "idle")
  /\ \E paid \in {FALSE, ok} : charged' = [charged EXCEPT ![c] = paid]
  /\ left'    = [left EXCEPT ![c] = 0]
  /\ buffer'  = [buffer EXCEPT ![c] = 0]

----------------------------------------------------------------------------
\* A paid call comes in and its channel is locked.  RecvMsg fails for a
\* message that is too large, or because the client has gone.
Receive(c, ch, size) ==
  /\ pc[c] = "idle" /\ ~Locked(ch)
  /\ chOf'     = [chOf EXCEPT ![c] = ch]
  /\ ran'      = [ran EXCEPT ![c] = 0]
  /\ replied'  = [replied EXCEPT ![c] = FALSE]
  /\ \/ /\ size <= MaxMessageSize
        /\ Continue(c, FirstStep(serviceType))
        /\ left'    = [left EXCEPT ![c] = size]
        /\ buffer'  = [buffer EXCEPT ![c] = 0]
        /\ charged' = [charged EXCEPT ![c] = FALSE]
     \/ Return(c, FALSE)
  /\ UNCHANGED serviceType

\* grpcToJSONRPC: the request is valid JSON, or it is refused.
DecodeRequest(c) ==
  /\ pc[c] = "decode"
  /\ \/ Continue(c, "call") /\ UNCHANGED <<charged, left, buffer>>
     \/ Return(c, FALSE)
  /\ UNCHANGED <<serviceType, chOf, ran, replied>>

\* The HTTP call: no connection, a connection lost after the service has
\* worked, or an answer; the answer is a result or a JSON-RPC error.
CallJSONRPC(c) ==
  /\ pc[c] = "call"
  /\ \/ Return(c, FALSE) /\ UNCHANGED ran
     \/ Return(c, FALSE) /\ ran' = [ran EXCEPT ![c] = @ + 1]
     \/ /\ Continue(c, "send")
        /\ ran' = [ran EXCEPT ![c] = @ + 1]
        /\ UNCHANGED <<charged, left, buffer>>
  /\ UNCHANGED <<serviceType, chOf, replied>>

\* grpcToProcess: StdinPipe makes the pipe, if there are descriptors left.
OpenPipe(c) ==
  /\ pc[c] = "pipe"
  /\ \/ Continue(c, "write") /\ UNCHANGED <<charged, left, buffer>>
     \/ Return(c, FALSE)
  /\ UNCHANGED <<serviceType, chOf, ran, replied>>

\* stdin.Write, before the process is started.  It waits while the pipe is
\* full.
WritePipe(c) ==
  /\ pc[c] = "write"
  /\ left[c] > 0 /\ buffer[c] < PipeBuffer
  /\ left'   = [left EXCEPT ![c] = @ - 1]
  /\ buffer' = [buffer EXCEPT ![c] = @ + 1]
  /\ UNCHANGED <<serviceType, pc, chOf, ran, replied, charged>>

\* stdin.Close and CombinedOutput: the process reads its input and ends, or
\* cannot be started, or ends with an error.
RunProcessAnyway(c) ==   \* mutant: CombinedOutput's error is ignored
  /\ pc[c] = "write" /\ left[c] = 0
  /\ \/ Continue(c, "send") /\ UNCHANGED ran
     \/ Continue(c, "send") /\ ran' = [ran EXCEPT ![c] = @ + 1]
  /\ buffer' = [buffer EXCEPT ![c] = 0]
  /\ UNCHANGED <<serviceType, chOf, left, charged, replied>>
RunProcessInputOpen(c) ==   \* mutant: stdin is not closed, the process waits for its end
  /\ pc[c] = "write" /\ left[c] = 0
  /\ UNCHANGED handlerVars
RunProcess(c) ==
  /\ pc[c] = "write" /\ left[c] = 0
  /\ \/ Return(c, FALSE) /\ UNCHANGED ran
     \/ Return(c, FALSE) /\ ran' = [ran EXCEPT ![c] = @ + 1]
     \/ /\ Continue(c, "send")
        /\ ran'    = [ran EXCEPT ![c] = @ + 1]
        /\ buffer' = [buffer EXCEPT ![c] = 0]
        /\ UNCHANGED <<charged, left>>
  /\ UNCHANGED <<serviceType, chOf, replied>>

\* SendMsg to the client, the last thing each of the handlers does.
SendReplyUnchecked(c) ==   \* mutant: SendMsg's error is not returned
  /\ pc[c] = "send"
  /\ \E ok \in BOOLEAN : replied' = [replied EXCEPT ![c] = ok]
  /\ Return(c, TRUE)
  /\ UNCHANGED <<serviceType, chOf, ran>>
SendReply(c) ==
  /\ pc[c] = "send"
  /\ \E ok \in BOOLEAN :
       /\ replied' = [replied EXCEPT ![c] = ok]
       /\ Return(c, ok)
  /\ UNCHANGED <<serviceType, chOf, ran>>

HandlerStep(c) ==
  \/ DecodeRequest(c) \/ CallJSONRPC(c)
  \/ OpenPipe(c) \/ WritePipe(c) \/ RunProcess(c)
  \/ SendReply(c)

HandlersNext ==
  \E c \in Calls :
    \/ \E ch \in Channels, size \in Sizes : Receive(c, ch, size)
    \/ HandlerStep(c)

HandlersSpec == HandlersInit /\ [][HandlersNext]_handlerVars

\* Services and processes answer or fail, clients take their answer or are
\* gone.
HandlersFairSpec == HandlersSpec /\ \A c \in Calls : WF_handlerVars(HandlerStep(c))

----------------------------------------------------------------------------
(* Correctness. *)

\* The client never pays for nothing: a call is charged only if the service
\* worked for it, once, and its answer was sent, whichever step of a handler
\* fails (grpc.go:206, 280).  The converse is not so: a payment that cannot be
\* completed leaves an answer that was sent unpaid (interceptors.go:200).
ChargedForAnswer ==
  \A c \in Calls :
    charged[c] => replied[c] /\ (serviceType # "none" => ran[c] = 1)

\* A channel that a call has locked becomes free again: no handler waits for
\* something only itself could bring about.  The exception is a request to a
\* process that is larger than the pipe, which nobody reads yet
\* (grpc.go:273, stdin.Write before CombinedOutput).
Fits(c) == serviceType = "process" => left[c] + buffer[c] <= PipeBuffer
LockIsReturned == \A c \in Calls : pc[c] # "idle" /\ Fits(c) ~> pc[c] = "idle"

----------------------------------------------------------------------------
(* The inductive invariant behind ChargedForAnswer. *)

HandlersTypeOK ==
  /\ serviceType \in ServiceTypes
  /\ pc       \in [Calls -> {"idle", "decode", "call", "pipe", "write", "send"}]
  /\ chOf     \in [Calls -> Channels]
  /\ left     \in [Calls -> Nat]
  /\ buffer   \in [Calls -> 0 .. PipeBuffer]
  /\ ran      \in [Calls -> 0 .. 1]
  /\ replied  \in [Calls -> BOOLEAN]
  /\ charged  \in [Calls -> BOOLEAN]

\* While a handler works nothing is answered or charged, and the service has
\* worked once the answer is there to be sent.
WorkThenAnswer ==
  \A c \in Calls :
    /\ pc[c] # "idle" => ~replied[c] /\ ~charged[c]
    /\ pc[c] \in {"decode", "call", "pipe", "write"} => ran[c] = 0
    /\ pc[c] = "send" /\ serviceType # "none" => ran[c] = 1

HandlersInv == HandlersTypeOK /\ WorkThenAnswer /\ ChargedForAnswer
=============================================================================
