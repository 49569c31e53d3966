-------------------------------- MODULE Beat --------------------------------
(* What the scheduler starts over and over: the poll of containers, among the  *)
(* tasks of a deployment, and the sweep over the health of providers.  The     *)
(* sweep leaves deployments alone, and the providers of deployments are not    *)
(* probed here, so a behaviour is of one of the two, `watched`, while the      *)
(* other rests as it begins.                                                   *)
EXTENDS Deployment, ProviderHealth

VARIABLE watched

beatVars == <<watched, vars, healthVars>>

BeatInit ==
    /\ watched \in {"containers", "providers"}
    /\ Init
    /\ HealthInit

BeatNext ==
    /\ UNCHANGED watched
    /\ \/ watched = "containers" /\ Next /\ UNCHANGED healthVars
       \/ watched = "providers" /\ HealthNext /\ UNCHANGED vars

\* As in Fairness of Deployment and in HealthFair.
BeatFair ==
    LET OfContainers(A) == watched = "containers" /\ A /\ UNCHANGED <<watched, healthVars>>
        OfProviders(A) == watched = "providers" /\ A /\ UNCHANGED <<watched, vars>>
    IN
    /\ WF_beatVars(OfContainers(PollRead)) /\ WF_beatVars(OfContainers(PollFlush))
    /\ \A d \in Deployments : WF_beatVars(OfContainers(PollCheck(d)))
    /\ \A w \in Workers : WF_beatVars(OfContainers(WorkerStep(w)))
    /\ \A t \in Tasks : WF_beatVars(OfContainers(Redeliver(t) /\ Abandoned(t)))
    /\ \A t \in Tasks : SF_beatVars(OfContainers(\E w \in Workers : Deliver(w, t)))
    /\ \A s \in Sweepers : WF_beatVars(OfProviders(Sweep(s)))
    /\ \A s \in Sessions : SF_beatVars(OfProviders(Proceed(s)))

BeatSpec == BeatInit /\ [][BeatNext]_beatVars /\ BeatFair
=============================================================================
