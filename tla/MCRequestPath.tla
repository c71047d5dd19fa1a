---------------------------- MODULE MCRequestPath --------------------------
(* What a request passes on its way through a daemon, but for the payment: *)
(* the rate limiter, the checks of the provider's control requests, and    *)
(* the handlers that forward it, a stream or a single message.  They share *)
(* no state, so a behaviour is about one of them.                          *)
EXTENDS RateLimit, ControlRequests, GrpcProxy, ServiceHandlers

CONSTANTS provider, other, mpe, mpeOld    \* signers and contracts

VARIABLE part

vars == <<part, rateVars, requestVars, proxyVars, handlerVars>>

Init == /\ part \in {"limiter", "control", "stream", "message"}
        /\ RateInit /\ RequestInit /\ ProxyInit /\ HandlersInit
        /\ part # "message" => /\ serviceType = "none"
                               /\ chOf = [c \in Calls |-> CHOOSE ch \in Channels : TRUE]

LimiterPart == /\ part = "limiter" /\ RateNext
               /\ UNCHANGED <<part, requestVars, proxyVars, handlerVars>>
ControlPart == /\ part = "control" /\ RequestNext
               /\ UNCHANGED <<part, rateVars, proxyVars, handlerVars>>

Stream(A) == part = "stream" /\ A /\ UNCHANGED <<part, rateVars, requestVars, handlerVars>>
Message(A) == part = "message" /\ A /\ UNCHANGED <<part, rateVars, requestVars, proxyVars>>

Next == LimiterPart \/ ControlPart \/ Stream(ProxyNext) \/ Message(HandlersNext)

\* The fairness of ProxySpec and of HandlersFairSpec.
Spec == /\ Init /\ [][Next]_vars
        /\ WF_vars(Stream(Request)) /\ WF_vars(Stream(Reply)) /\ WF_vars(Stream(Handler))
        /\ \A c \in Calls : WF_vars(Message(HandlerStep(c)))
=============================================================================
