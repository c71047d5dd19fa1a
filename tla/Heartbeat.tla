----------------------------- MODULE Heartbeat -----------------------------
(***************************************************************************)
(* The daemon's health (metrics/heartbeat.go, clients.go,                  *)
(* Notifications.go).  A check asks the service behind the daemon, over    *)
(* gRPC with a deadline of a second or over HTTP with none, sends an alert *)
(* when that fails, and answers.  It comes over HTTP (HeartbeatHandler) or *)
(* over gRPC (Check), where a panic ends the process.                      *)
(***************************************************************************)
EXTENDS Naturals, FiniteSets

CONSTANTS
  Checks,      \* bound: checks in progress at a time
  Types,       \* values of service_heartbeat_type to try
  Endpoints,   \* values of heartbeat_endpoint: "", "url", "malformed"
  Alerts,      \* notification end point and e-mail: "", "valid", "invalid"
  Vias         \* how checks arrive: a subset of {"grpc", "http"}

ASSUME ViasAssumption == Vias \subseteq {"grpc", "http"}

\* What a request to the service meets: an answer that says SERVING, one
\* that does not, a refused connection, or no answer at all.
ServiceStates == {"serving", "not_serving", "down", "hangs"}

VARIABLES
  settings, \* the configuration: [type, endpoint, alerts]
  daemon,   \* the daemon is "start", "up", "refused", "dead"
  noURL,    \* isNoHeartbeatURL
  noAlerts, \* isNoAlertsConfig
  service,  \* the state of the service
  stage,    \* stage[c]: the next step of check c
  via,      \* via[c]: how it came
  status,   \* status[c]: heartbeat.Status
  errs      \* errs[c]: GetHeartbeat's err is not nil

check == <<stage, via, status, errs>>
heartVars == <<settings, daemon, noURL, noAlerts, service, check>>

HeartInit ==
  /\ settings \in [type : Types, endpoint : Endpoints, alerts : Alerts]
  /\ daemon = "start" /\ noURL = FALSE /\ noAlerts = FALSE
  /\ service \in ServiceStates
  /\ stage  = [c \in Checks |-> "idle"]
  /\ via    = [c \in Checks |-> "http"]
  /\ status = [c \in Checks |-> "Online"]
  /\ errs   = [c \in Checks |-> FALSE]

----------------------------------------------------------------------------
NotConfigured == settings.type \in {"", "none"} \/ settings.endpoint = ""

\* ValidateHeartbeatConfig and ValidateNotificationConfig, one after the
\* other, before the daemon listens (serve.go, newDaemon).
ValidSettings ==
  /\ settings.type \in {"grpc", "http", "https", "none", ""}
  /\ NotConfigured \/ settings.endpoint = "url"
  /\ settings.alerts # "invalid"

Validate ==
  /\ daemon = "start"
  /\ daemon' = IF ValidSettings THEN "up" ELSE "refused"
  /\ noURL' = NotConfigured
  /\ noAlerts' = (settings.alerts = "")
  /\ UNCHANGED <<settings, service, check>>

\* Check or HeartbeatHandler calls GetHeartbeat: without a service to ask,
\* the daemon is Online.
Arrive(c, v) ==
  /\ daemon = "up" /\ stage[c] = "idle"
  /\ stage'  = [stage EXCEPT ![c] = IF noURL THEN "reply" ELSE "call"]
  /\ via'    = [via EXCEPT ![c] = v]
  /\ status' = [status EXCEPT ![c] = "Online"]
  /\ errs'   = [errs EXCEPT ![c] = FALSE]
  /\ UNCHANGED <<settings, daemon, noURL, noAlerts, service>>

\* The service was asked: the heartbeat has status s, with an error or not.
Asked(c, s, err) ==
  /\ status' = [status EXCEPT ![c] = s]
  /\ errs' = [errs EXCEPT ![c] = err]
  /\ stage' = [stage EXCEPT ![c] = IF err THEN "alert" ELSE "reply"]
  /\ UNCHANGED <<settings, daemon, noURL, noAlerts, service, via>>

\* callgRPCServiceHeartbeat: the answer itself becomes the status; a call
\* that is not answered ends with the deadline.
CallGrpcNoDeadline(c) ==   \* mutant: the context has no timeout
  /\ stage[c] = "call" /\ settings.type = "grpc"
  /\ \/ service = "serving"     /\ Asked(c, "SERVING", FALSE)
     \/ service = "not_serving" /\ Asked(c, "NOT_SERVING", FALSE)
     \/ service = "down"        /\ Asked(c, "Warning", TRUE)
CallGrpc(c) ==
  /\ stage[c] = "call" /\ settings.type = "grpc"
  /\ \/ service = "serving"             /\ Asked(c, "SERVING", FALSE)
     \/ service = "not_serving"         /\ Asked(c, "NOT_SERVING", FALSE)
     \/ service \in {"down", "hangs"}   /\ Asked(c, "Warning", TRUE)

\* callHTTPServiceHeartbeat: a body that came with 200 is relayed as it is,
\* whatever it says; another code or an empty body is an error.  A service
\* that hangs keeps the check.
CallHttp(c) ==
  /\ stage[c] = "call" /\ settings.type \in {"http", "https"}
  /\ \/ service \in {"serving", "not_serving"} /\ Asked(c, "Online", FALSE)
     \/ service \in {"not_serving", "down"}    /\ Asked(c, "Warning", TRUE)

\* Notification.Send, which does nothing if no alerts are configured; its
\* result is not looked at.
Alert(c) ==
  /\ stage[c] = "alert"
  /\ stage' = [stage EXCEPT ![c] = "reply"]
  /\ UNCHANGED <<settings, daemon, noURL, noAlerts, service, via, status, errs>>

\* The notification service, or the registration behind it, takes the request
\* and never answers: the check waits in Send, whose client has no timeout.
AlertHangs(c) ==
  /\ stage[c] = "alert" /\ ~noAlerts
  /\ stage' = [stage EXCEPT ![c] = "hung"]
  /\ UNCHANGED <<settings, daemon, noURL, noAlerts, service, via, status, errs>>

Answer(c) ==
  /\ stage'  = [stage EXCEPT ![c] = "idle"]
  /\ via'    = [via EXCEPT ![c] = "http"]
  /\ status' = [status EXCEPT ![c] = "Online"]
  /\ errs'   = [errs EXCEPT ![c] = FALSE]
  /\ UNCHANGED <<settings, daemon, noURL, noAlerts, service>>

\* HeartbeatHandler encodes the heartbeat.
ReplyHttp(c) ==
  /\ stage[c] = "reply" /\ via[c] = "http"
  /\ Answer(c)

\* Check answers SERVING when the status is Online, and with the error
\* otherwise.
ReplyGrpc(c) ==
  /\ stage[c] = "reply" /\ via[c] = "grpc"
  /\ status[c] = "Online" \/ errs[c]
  /\ Answer(c)

\* Check: the status is not Online and there is no error to call Error() on.
\* The panic ends the process, and every check with it.
CheckPanics(c) ==
  /\ stage[c] = "reply" /\ via[c] = "grpc"
  /\ status[c] # "Online" /\ ~errs[c]
  /\ daemon' = "dead"
  /\ stage'  = [d \in Checks |-> "idle"]
  /\ via'    = [d \in Checks |-> "http"]
  /\ status' = [d \in Checks |-> "Online"]
  /\ errs'   = [d \in Checks |-> FALSE]
  /\ UNCHANGED <<settings, noURL, noAlerts, service>>

\* The operator starts the daemon again.
Restart ==
  /\ daemon = "dead"
  /\ daemon' = "start" /\ noURL' = FALSE /\ noAlerts' = FALSE
  /\ UNCHANGED <<settings, service, check>>

\* The service stops, hangs or comes back.
ServiceChanges(s) ==
  /\ s # service
  /\ service' = s
  /\ UNCHANGED <<settings, daemon, noURL, noAlerts, check>>

CheckStep(c) ==
  CallGrpc(c) \/ CallHttp(c) \/ Alert(c) \/ ReplyHttp(c) \/ ReplyGrpc(c) \/ CheckPanics(c)

HeartNext ==
  \/ Validate \/ Restart
  \/ \E c \in Checks : CheckStep(c) \/ AlertHangs(c) \/ \E v \in Vias : Arrive(c, v)
  \/ \E s \in ServiceStates : ServiceChanges(s)

HeartSpec == HeartInit /\ [][HeartNext]_heartVars

\* The Go scheduler runs every check that can go on; a request that is never
\* answered is in CallHttp's guard and in AlertHangs.
HeartFairSpec == HeartSpec /\ \A c \in Checks : WF_heartVars(CheckStep(c))

----------------------------------------------------------------------------
(* Correctness. *)

\* A gRPC service that accepts connections and never answers does not keep
\* the check: the deadline ends it (clients.go:37), and only a configured
\* notification service that hangs in turn keeps it.  (An HTTP service does.)
DeadlineEndsCheck ==
  \A c \in Checks :
    stage[c] # "idle" /\ settings.type = "grpc"
      ~> stage[c] = "idle" \/ (settings.alerts # "" /\ stage[c] = "hung")

\* "Online Status = 1 // Returns if any of the services is online"
\* (heartbeat.go:31): a check of a service that is online is answered, so no
\* check takes the daemon down.
DaemonSurvivesChecks == daemon # "dead"
=============================================================================
