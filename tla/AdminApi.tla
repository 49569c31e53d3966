------------------------------ MODULE AdminApi ------------------------------
(* The requests of operators about routing policies and about prompts.  They   *)
(* share no row, so a behaviour is of the requests about one of the two,       *)
(* `about`, while the other rests as it begins.                                *)
EXTENDS RoutingPolicies, PromptVersions

VARIABLE about

apiVars == <<about, vars, promptVars>>

AdminInit ==
    /\ about \in {"policies", "prompts"}
    /\ Init
    /\ PromptInit

AdminNext ==
    /\ UNCHANGED about
    /\ \/ about = "policies" /\ Next /\ UNCHANGED promptVars
       \/ about = "prompts" /\ PromptNext /\ UNCHANGED vars

\* As in FairSpec of RoutingPolicies.
AdminFair ==
    \A t \in Requests :
        SF_apiVars(about = "policies" /\ Serve(t) /\ UNCHANGED <<about, promptVars>>)

AdminSpec == AdminInit /\ [][AdminNext]_apiVars /\ AdminFair
=============================================================================
