------------------------------ MODULE MCDaemon -----------------------------
(* The daemon around its requests: starting and stopping, its health, and  *)
(* the metrics it publishes.  They share no state, so a behaviour is about *)
(* one of them, and the other two stay as they were.                       *)
EXTENDS Lifecycle, Heartbeat, Metrics

VARIABLE part

vars == <<part, lifeVars, heartVars, metricsVars>>

Init == /\ part \in {"life", "health", "metrics"}
        /\ LifeInit /\ HeartInit /\ MetricsInit
        /\ part # "life" => conf = CHOOSE c \in Confs : TRUE
        /\ part # "health" => /\ settings = [type |-> "http", endpoint |-> "", alerts |-> ""]
                              /\ service = "serving"

Life(A)       == part = "life" /\ A /\ UNCHANGED <<part, heartVars, metricsVars>>
Health(A)     == part = "health" /\ A /\ UNCHANGED <<part, lifeVars, metricsVars>>
Publishing(A) == part = "metrics" /\ A /\ UNCHANGED <<part, lifeVars, heartVars>>

Next == Life(LifeNext) \/ Health(HeartNext) \/ Publishing(MetricsNext)

\* The fairness of LifeFairSpec, HeartFairSpec and MetricsFairSpec.
Spec == /\ Init /\ [][Next]_vars
        /\ WF_vars(Life(Starting)) /\ WF_vars(Life(Ending))
        /\ \A c \in Calls : WF_vars(Life(CallEnds(c)))
        /\ \A c \in Checks : WF_vars(Health(CheckStep(c)))
        /\ \A p \in Publishers : WF_vars(Publishing(PublishStep(p)))
=============================================================================
