------------------------------ MODULE Metrics ------------------------------
(***************************************************************************)
(* Publishing metrics and alerts (metrics/utils.go, clients.go,            *)
(* register.go, request_stats.go, response_stats.go, Notifications.go) to  *)
(* the monitoring service, which is not part of the repository.            *)
(*                                                                         *)
(* Every call starts two goroutines that publish (handler/interceptors.go, *)
(* interceptMonitoring), and they share the global                         *)
(* daemonAuthorizationToken without synchronisation.  A string is two      *)
(* words, so storing it takes two steps: who reads in between may see a    *)
(* length without its bytes, which ends the process.                       *)
(***************************************************************************)
EXTENDS Naturals, FiniteSets

CONSTANTS
  Publishers,   \* bound: goroutines that publish at a time
  MaxTokens     \* bound: tokens the service hands out

ASSUME TokensAssumption == MaxTokens \in Nat \ {0}

VARIABLES
  token,     \* daemonAuthorizationToken: 0 is the empty string
  valid,     \* the token the service accepts; 0: none
  issued,    \* tokens the service handed out so far
  pc,        \* pc[p]: the next step of publisher p
  carried,   \* carried[p]: the X-Token of its request
  granted,   \* granted[p]: the token in the answer to its registration
  registered, \* registered[p]: the registration was answered with 200
  reTry,     \* reTry[p]: the event may be sent once more
  sends,     \* sends[p]: times it sent the event
  result     \* result[p]: what Publish returned: "none", "true", "false"

monitor == <<valid, issued>>
metricsVars == <<token, valid, issued, pc, carried, granted, registered, reTry, sends, result>>

\* RegisterDaemon has worked when the daemon was started, or there would be
\* no monitoring interceptor (components.go, GrpcInterceptor).
MetricsInit ==
  /\ token    = 1 /\ valid = 1 /\ issued = 1
  /\ pc       = [p \in Publishers |-> "idle"]
  /\ carried  = [p \in Publishers |-> 0]
  /\ granted  = [p \in Publishers |-> 0]
  /\ registered = [p \in Publishers |-> FALSE]
  /\ reTry    = [p \in Publishers |-> FALSE]
  /\ sends    = [p \in Publishers |-> 0]
  /\ result   = [p \in Publishers |-> "none"]

Goto(p, s) == pc' = [pc EXCEPT ![p] = s]

\* Publish returns.
PublishEnds(p, ok) ==
  /\ Goto(p, "idle")
  /\ result' = [result EXCEPT ![p] = IF ok THEN "true" ELSE "false"]

----------------------------------------------------------------------------
\* PublishRequestStats, PublishResponseStats or Notification.Send.
Publish(p) ==
  /\ pc[p] = "idle"
  /\ Goto(p, "send")
  /\ reTry'    = [reTry EXCEPT ![p] = TRUE]
  /\ sends'    = [sends EXCEPT ![p] = 0]
  /\ result'   = [result EXCEPT ![p] = "none"]
  /\ UNCHANGED <<token, monitor, carried, granted, registered>>

\* A goroutine is between the two words of the token it stores, and they
\* belong to strings of different lengths: only the empty one differs.
HalfStored == \E q \in Publishers : pc[q] = "store" /\ (token = 0 <=> granted[q] # 0)

\* sendRequest reads the token into a header.
SendRequest(p) ==
  /\ pc[p] = "send"
  /\ Goto(p, "sent")
  /\ carried' = [carried EXCEPT ![p] = token]
  /\ sends'   = [sends EXCEPT ![p] = @ + 1]
  /\ UNCHANGED <<token, monitor, granted, registered, reTry, result>>

\* The token that was read has a length and no bytes: the daemon dies, and
\* registers again when it is restarted.
TornToken(p) ==
  /\ pc[p] = "send" /\ HalfStored
  /\ issued < MaxTokens
  /\ issued' = issued + 1 /\ valid' = issued + 1 /\ token' = issued + 1
  /\ pc'       = [q \in Publishers |-> "idle"]
  /\ carried'  = [q \in Publishers |-> 0]
  /\ granted'  = [q \in Publishers |-> 0]
  /\ registered' = [q \in Publishers |-> FALSE]
  /\ reTry'    = [q \in Publishers |-> FALSE]
  /\ sends'    = [q \in Publishers |-> 0]
  /\ result'   = [q \in Publishers |-> "none"]

\* publishJson: the service cannot be reached.
SendFails(p) ==
  /\ pc[p] = "sent"
  /\ PublishEnds(p, FALSE)
  /\ UNCHANGED <<token, monitor, carried, granted, registered, reTry, sends>>

\* The service takes the event and answers 200.
Accepted(p) ==
  /\ pc[p] = "sent"
  /\ carried[p] = valid /\ valid # 0
  /\ PublishEnds(p, TRUE)
  /\ UNCHANGED <<token, monitor, carried, granted, registered, reTry, sends>>

\* Any other status: the token is not the valid one, or the service is in
\* trouble.  checkForSuccessfulResponse registers the daemon again.
Refused(p) ==
  /\ pc[p] = "sent"
  /\ Goto(p, "register")
  /\ UNCHANGED <<token, monitor, carried, granted, registered, reTry, sends, result>>

\* getTokenFromResponse: a token with 200, no token with 200 (which is not
\* checked), or no token with another status or an unreadable body.
Granted(p, t, ok) ==
  /\ granted' = [granted EXCEPT ![p] = t]
  /\ registered' = [registered EXCEPT ![p] = ok]
  /\ Goto(p, "store")
  /\ UNCHANGED result

NewToken(p) ==
  /\ issued < MaxTokens
  /\ issued' = issued + 1 /\ valid' = issued + 1
  /\ Granted(p, issued + 1, TRUE)

\* callRegisterService: the service answers, or cannot be reached, which
\* leaves the global token alone.
RegisterUntilGranted(p) ==   \* mutant: registers until the service agrees
  /\ pc[p] = "register"
  /\ \/ NewToken(p)
     \/ UNCHANGED <<monitor, granted, registered, pc, result>>
  /\ UNCHANGED <<token, carried, reTry, sends>>
Register(p) ==
  /\ pc[p] = "register"
  /\ \/ NewToken(p)
     \/ \E ok \in BOOLEAN : Granted(p, 0, ok) /\ UNCHANGED monitor
     \/ PublishEnds(p, FALSE) /\ UNCHANGED <<monitor, granted, registered>>
  /\ UNCHANGED <<token, carried, reTry, sends>>

\* daemonAuthorizationToken is assigned, empty or not, and the event sent once
\* more if the registration worked and it has not been sent again yet.
StoreTokenAlways(p) ==   \* mutant: the event is sent again and again
  /\ pc[p] = "store"
  /\ token' = granted[p]
  /\ \/ registered[p] /\ Goto(p, "send") /\ UNCHANGED <<reTry, result>>
     \/ ~registered[p] /\ PublishEnds(p, FALSE) /\ UNCHANGED reTry
  /\ UNCHANGED <<monitor, carried, granted, registered, sends>>
StoreToken(p) ==
  /\ pc[p] = "store"
  /\ token' = granted[p]
  /\ \/ /\ registered[p] /\ reTry[p]
        /\ Goto(p, "send")
        /\ reTry' = [reTry EXCEPT ![p] = FALSE]
        /\ UNCHANGED result
     \/ /\ ~registered[p] \/ ~reTry[p]
        /\ PublishEnds(p, FALSE)
        /\ UNCHANGED reTry
  /\ UNCHANGED <<monitor, carried, granted, registered, sends>>

\* The service takes a request, the event or the registration, and never
\* answers it: http.Client has no timeout here.
Hangs(p) ==
  /\ pc[p] \in {"sent", "register"}
  /\ Goto(p, "hung")
  /\ UNCHANGED <<token, monitor, carried, granted, registered, reTry, sends, result>>

\* The service forgets the token.
TokenExpires ==
  /\ valid # 0
  /\ valid' = 0
  /\ UNCHANGED <<token, issued, pc, carried, granted, registered, reTry, sends, result>>

PublishStep(p) ==
  \/ SendRequest(p) \/ SendFails(p) \/ Accepted(p) \/ Refused(p)
  \/ Register(p) \/ StoreToken(p)

MetricsNext ==
  \/ \E p \in Publishers : Publish(p) \/ PublishStep(p) \/ TornToken(p) \/ Hangs(p)
  \/ TokenExpires

MetricsSpec == MetricsInit /\ [][MetricsNext]_metricsVars

\* The goroutines run.  A request that is not answered is in Hangs, which may
\* come instead of any answer.
MetricsFairSpec == MetricsSpec /\ \A p \in Publishers : WF_metricsVars(PublishStep(p))

----------------------------------------------------------------------------
(* Correctness. *)

\* A service that refuses everything is not flooded: an event is sent at
\* most twice (utils.go:60 "retry will be set to false when trying to re
\* publish the payload").
OneRetry == \A p \in Publishers : sends[p] <= 2

\* Nothing but a request that is never answered keeps a publisher: refusals,
\* empty tokens and the tokens the others store do not send it round and
\* round (utils.go:69, the one nested publishJson).
PublishReturns == \A p \in Publishers : pc[p] # "idle" ~> pc[p] \in {"idle", "hung"}

----------------------------------------------------------------------------
(* The inductive invariant behind OneRetry. *)

MetricsTypeOK ==
  /\ token \in 0 .. MaxTokens /\ valid \in 0 .. MaxTokens /\ issued \in 1 .. MaxTokens
  /\ pc      \in [Publishers -> {"idle", "send", "sent", "register", "store", "hung"}]
  /\ carried \in [Publishers -> 0 .. MaxTokens]
  /\ granted \in [Publishers -> 0 .. MaxTokens]
  /\ registered \in [Publishers -> BOOLEAN]
  /\ reTry   \in [Publishers -> BOOLEAN]
  /\ sends   \in [Publishers -> Nat]
  /\ result  \in [Publishers -> {"none", "true", "false"}]

\* Whether the event may be sent again tells how often it was.
RetryCounts ==
  \A p \in Publishers :
    /\ pc[p] = "send" => sends[p] = IF reTry[p] THEN 0 ELSE 1
    /\ pc[p] \in {"sent", "register", "store"} => sends[p] = IF reTry[p] THEN 1 ELSE 2

MetricsInv == MetricsTypeOK /\ RetryCounts /\ OneRetry
=============================================================================
