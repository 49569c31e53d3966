------------------------------ MODULE MCConsole ------------------------------
(* The fleet of the map: a hosted provider, and two local ones, of which one   *)
(* was registered by the worker for the deployment of model m.                 *)
EXTENDS Console
MCProviders ==
    {[id |-> 1, type |-> "openai", name |-> "cloud", health |-> "healthy", active |-> TRUE, of |-> 0],
     [id |-> 2, type |-> "vllm", name |-> "m", health |-> "down", active |-> TRUE, of |-> 0],
     [id |-> 3, type |-> "vllm", name |-> "Local vllm :8001", health |-> "degraded", active |-> TRUE, of |-> 1]}
MCDeployments == {[id |-> 1, ref |-> "m", type |-> "vllm", status |-> "running"]}
MCPointable == {<<"gateway">>, <<"prov", 3>>}

\* Entries of the side bar, and the pages below one of them.
MCNavItems == {<<"deployments">>, <<"dashboard">>}
MCPaths == MCNavItems \cup {<<"deployments", "new">>, <<"deployments", "id">>}

\* What a configuration file cannot hold.
MCSteps == {-1, 2}
MCEndValue == -5
MCContents == {[w |-> 4, h |-> 2], [w |-> 8, h |-> 6]}
MCPointSets == {{}, {1}, {0, 2}}
MCDefaultSize == [w |-> 6, h |-> 3]
MCBandFrom == -2
=============================================================================
