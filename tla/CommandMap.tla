----------------------------- MODULE CommandMap -----------------------------
(* The map of the command centre: buildTopology (components/command-center/    *)
(* topology.ts) makes nodes and edges of the providers and the deployments,    *)
(* and Scene2D draws them in an animation loop that closes over the topology   *)
(* of one commit while the ids that particles fly to are a ref that every      *)
(* render replaces; the node that is hovered or selected stands out of them.   *)
(* Positions, colours and figures are left out.                                *)
EXTENDS Naturals, Sequences, FiniteSets

CONSTANTS Providers,    \* rows [id, type, name, health, active]
          Deployments,  \* rows [id, ref, type, status]
          MaxParticles, \* bound: particles in the air (140 in the code)
          Pointable,    \* bound: the nodes the mouse goes to
          NoNode        \* null

ASSUME MapAssumption == MaxParticles \in Nat

VARIABLES
    fleet,      \* providers.data and deployments.data
    rendered,   \* the fleet of the last render: its ids are nodesRef.current
    drawn,      \* the fleet whose topology the animation loop closes over
    particles,  \* the particles of that loop: where they go, how far, since when
    selectedId, hoveredId   \* of CommandCenter

mapVars == <<fleet, rendered, drawn, particles, selectedId, hoveredId>>

LocalTypes == {"ollama", "vllm"}

HealthToState(health, active) ==
    IF ~active THEN "offline"
    ELSE CASE health = "healthy" -> "healthy"
           [] health = "degraded" -> "warning"
           [] health = "down" -> "critical"
           [] OTHER -> "offline"

DeploymentToState(status) ==
    CASE status = "running" -> "healthy"
      [] status = "starting" -> "high-load"
      [] status = "error" -> "critical"
      [] OTHER -> "offline"

\* buildTopology.
Backbone == {"clients", "gateway", "evaluation", "cache", "observability", "database", "gpu"}

\* A model node is a provider that is not local, a deployment, or a local provider
\* that no deployment is named after.
ProviderNode(p) == [id |-> <<"prov", p.id>>, type |-> p.type, state |-> HealthToState(p.health, p.active)]
DeploymentNode(d) == [id |-> <<"dep", d.id>>, type |-> d.type, state |-> DeploymentToState(d.status)]
FallsBack(p, f) == ~\E d \in f.deployments : d.ref = p.name
ModelNodes(f) ==
    {ProviderNode(p) : p \in {q \in f.providers : q.type \notin LocalTypes \/ FallsBack(q, f)}}
    \cup {DeploymentNode(d) : d \in f.deployments}

ProviderNodeIds(f) == {m.id : m \in ModelNodes(f)}
NodeIds(f) == {<<b>> : b \in Backbone} \cup ProviderNodeIds(f)

Edge(from, to) == [from |-> from, to |-> to]
\* Mutant: a model is not connected to the evaluation.
ModelEdgesUnevaluated(m) ==
    {Edge(<<"gateway">>, m.id), Edge(m.id, <<"database">>)}
    \cup IF m.type \in LocalTypes THEN {Edge(<<"gpu">>, m.id)} ELSE {}

ModelEdges(m) ==
    {Edge(<<"gateway">>, m.id), Edge(m.id, <<"evaluation">>), Edge(m.id, <<"database">>)}
    \cup IF m.type \in LocalTypes THEN {Edge(<<"gpu">>, m.id)} ELSE {}
BackboneEdges == {Edge(<<"clients">>, <<"gateway">>), Edge(<<"gateway">>, <<"cache">>),
                  Edge(<<"gateway">>, <<"observability">>), Edge(<<"evaluation">>, <<"database">>)}
Edges(f) == BackboneEdges \cup UNION {ModelEdges(m) : m \in ModelNodes(f)}

IsEmpty(f) == f.providers = {} /\ f.deployments = {}

\* The figures of the toolbar.
ActiveModels(f) == Cardinality({m \in ModelNodes(f) : m.state = "healthy"})
Alerts(f) == Cardinality({m \in ModelNodes(f) : m.state \in {"critical", "warning"}})

\* Mutant: the edges that lead to the focus only.
NeighborSetInto(focus, f) == {focus} \cup {e.from : e \in {x \in Edges(f) : x.to = focus}}

\* neighborSet of draw, for a focus.
NeighborSet(focus, f) ==
    {focus} \cup {e.to : e \in {x \in Edges(f) : x.from = focus}}
            \cup {e.from : e \in {x \in Edges(f) : x.to = focus}}
Focus == IF hoveredId # NoNode THEN hoveredId ELSE selectedId
Dim(n) == Focus # NoNode /\ n \notin NeighborSet(Focus, drawn)

\* The node of the inspector: the selected one, while the last render has it.
SelectedNode == IF selectedId \in NodeIds(rendered) THEN selectedId ELSE NoNode

\* Scene2D's PATH, through the model node the particle goes to.
Path(via) == <<<<"clients">>, <<"gateway">>, via, <<"evaluation">>, <<"database">>>>
Segments == 4

Fleets == [providers : SUBSET Providers, deployments : SUBSET Deployments]
\* The nodes that the topology of some fleet has.
AllIds == {<<b>> : b \in Backbone} \cup {<<"prov", p.id>> : p \in Providers}
          \cup {<<"dep", d.id>> : d \in Deployments}

MapTypeOK ==
    /\ {fleet, rendered, drawn} \subseteq Fleets
    /\ \A p \in particles : p.via \in AllIds /\ p.seg \in 1..Segments /\ p.young \in BOOLEAN
    /\ Cardinality(particles) <= MaxParticles
    /\ {selectedId, hoveredId} \subseteq AllIds \cup {NoNode}

MapInit ==
    /\ fleet \in Fleets /\ ~IsEmpty(fleet)
    /\ rendered = fleet /\ drawn = fleet
    /\ particles = {}
    /\ selectedId = NoNode /\ hoveredId = NoNode

picked == <<selectedId, hoveredId>>

-----------------------------------------------------------------------------
\* An answer of one of the two queries: a row comes or goes.
FleetChanges ==
    /\ rendered = fleet
    /\ \/ \E p \in Providers : fleet' = [fleet EXCEPT !.providers = (@ \ {p}) \cup ({p} \ @)]
       \/ \E d \in Deployments : fleet' = [fleet EXCEPT !.deployments = (@ \ {d}) \cup ({d} \ @)]
    /\ UNCHANGED <<rendered, drawn, particles, picked>>

\* CommandCenter renders: useLiveTraffic puts the new ids in nodesRef at once.
RenderMap ==
    /\ rendered # fleet /\ drawn = rendered
    /\ rendered' = fleet
    /\ UNCHANGED <<fleet, drawn, particles, picked>>

\* Mutant: the particles outlive the loop.
RunDrawEffectKeeping ==
    /\ drawn # rendered
    /\ drawn' = rendered
    /\ UNCHANGED <<fleet, rendered, particles, picked>>

\* The effect of Scene2D runs after the commit: a new loop without particles.  An
\* empty fleet takes the scene away.
RunDrawEffect ==
    /\ drawn # rendered
    /\ drawn' = rendered /\ particles' = {}
    /\ UNCHANGED <<fleet, rendered, picked>>

\* Mutant: no limit.
SpawnParticleAlways(via) ==
    /\ ~IsEmpty(drawn) /\ via \in ProviderNodeIds(rendered)
    /\ particles' = particles \cup {[via |-> via, seg |-> 1, young |-> drawn # rendered]}
    /\ UNCHANGED <<fleet, rendered, drawn, picked>>

\* A frame spawns a particle to one of nodesRef.current ...
SpawnParticle(via) ==
    /\ ~IsEmpty(drawn) /\ via \in ProviderNodeIds(rendered)
    /\ Cardinality(particles) < MaxParticles
    /\ particles' = particles \cup {[via |-> via, seg |-> 1, young |-> drawn # rendered]}
    /\ UNCHANGED <<fleet, rendered, drawn, picked>>

\* ... or brings one to the next segment of its way, or to its end.  A particle needs
\* at least 0.6 s for a segment and the effect runs within frames of the commit:
\* one that was spawned in between is still on its first.
AdvanceParticle(p) ==
    /\ p \in particles
    /\ p.young => drawn = rendered
    /\ particles' = (particles \ {p}) \cup
                      IF p.seg = Segments THEN {} ELSE {[p EXCEPT !.seg = @ + 1]}
    /\ UNCHANGED <<fleet, rendered, drawn, picked>>

\* A render of CommandCenter gives Scene2D a new traffic object, and the effect runs.
Redraw == drawn = rendered /\ particles' = {} /\ UNCHANGED <<fleet, rendered, drawn>>

\* The mouse comes over another node, or over none (`pick`).
HoverNode(n) ==
    /\ ~IsEmpty(drawn) /\ n \in (NodeIds(drawn) \cap Pointable) \cup {NoNode} /\ n # hoveredId
    /\ hoveredId' = n /\ Redraw /\ UNCHANGED selectedId

\* A click selects what the mouse is over.
ClickNode ==
    /\ ~IsEmpty(drawn)
    /\ selectedId' = IF hoveredId \in NodeIds(drawn) THEN hoveredId ELSE NoNode
    /\ selectedId' # selectedId /\ Redraw /\ UNCHANGED hoveredId

\* The inspector is closed with its button; the mouse has left the map to get there, which
\* no handler hears.
CloseInspector ==
    /\ SelectedNode # NoNode /\ selectedId' = NoNode /\ Redraw /\ UNCHANGED hoveredId

MapNext ==
    \/ FleetChanges \/ RenderMap \/ RunDrawEffect
    \/ \E via \in AllIds : SpawnParticle(via)
    \/ \E p \in particles : AdvanceParticle(p)
    \/ \E n \in Pointable \cup {NoNode} : HoverNode(n)
    \/ ClickNode \/ CloseInspector

MapSpec == MapInit /\ [][MapNext]_mapVars

-----------------------------------------------------------------------------
\* The loop looks a position up for both ends of the segment a particle is on and
\* does not check that there is one (`posMap.get(id)!`, Scene2D.tsx:60): the ids
\* of a render never get ahead of the topology the loop knows.
ParticlesOnMap ==
    \A p \in particles : {Path(p.via)[p.seg], Path(p.via)[p.seg + 1]} \subseteq NodeIds(drawn)

\* Particles fly along edges that are drawn, from the clients to the database, and
\* no edge ends in nothing.
ParticlesFollowEdges ==
    /\ UNION {{e.from, e.to} : e \in Edges(drawn)} \subseteq NodeIds(drawn)
    /\ \A p \in particles : Edge(Path(p.via)[p.seg], Path(p.via)[p.seg + 1]) \in Edges(drawn)
                            \/ p.young

\* The focus and what it is joined to stand out together: every edge drawn bright
\* ends in two nodes that are not dimmed (Scene2D.tsx:92-116, 159-167).
FocusStandsOut ==
    \A e \in Edges(drawn) : Focus \in {e.from, e.to} => ~Dim(e.from) /\ ~Dim(e.to)

\* "Prefer deployment rows for local inference; fall back to provider rows"
\* (topology.ts:186): the provider that the worker registers for a deployment
\* (named after its runtime and its port, workers/tasks/deployment.py) is not drawn
\* beside it.
DrawnOnce ==
    \A p \in rendered.providers : p.type \in LocalTypes /\ p.of \in {d.id : d \in rendered.deployments}
        => <<"prov", p.id>> \notin ProviderNodeIds(rendered)
=============================================================================
