----------------------------- MODULE QueryPages -----------------------------
(* The pages of the console as views over react-query (providers.tsx, hooks/,  *)
(* app/(app)/): which queries a page observes under the filter the user has    *)
(* chosen, and what each of its panels says for the state those queries are    *)
(* in.  An answer is the set of rows it lists; a query remembers which filter  *)
(* it asked for.  A retry of a fetch that fails changes nothing a page shows   *)
(* and is left to LiveList, as are the moves between pages; the browser is     *)
(* online.  Endpoints are told apart by name and filter.                       *)
EXTENDS Naturals, FiniteSets

CONSTANTS Ids,       \* what a list may hold
          NoId       \* nothing selected, no row

ASSUME PagesAssumption == NoId \notin Ids

VARIABLES
    page,       \* the page shown
    filter,     \* what its inputs select
    cache,      \* the queries of the client, by key
    stored,     \* the rows the server holds behind the page's lists
    selected,   \* selectedId, selected or pendingDelete of the page
    removing,   \* the deletion in flight (useDeletePolicy, useDeletePrompt, useDeleteDeployment)
    removed     \* the rows whose deletion was confirmed to the page

pagesVars == <<page, filter, cache, stored, selected, removing, removed>>

-----------------------------------------------------------------------------
(* The queries behind the pages, by their keys: hooks/.                        *)

Key(endpoint, f) == <<endpoint, f>>
UseDashboard == Key("summary", "all")
UseDashboardTimeseries == Key("timeseries", "24h")
UseCostBreakdown(f) == Key("breakdown", f)
UseCostOverTime(f) == Key("over-time", f)
UseCostForecast == Key("forecast", "all")
UseLogsAnyFilter(f) == Key("logs", "all")       \* mutant: the filter left out of the key

UseLogs(f) == Key("logs", f)
UseTraces(f) == Key("traces", f)
UseBenchmarks == Key("benchmarks", "all")
UseBenchmarkDatasets == Key("datasets", "all")
UseProviders == Key("providers", "all")
UseDeployments == Key("deployments", "all")
UsePolicies == Key("policies", "all")
UsePrompts == Key("prompts", "all")
UseExperiments == Key("experiments", "all")
UseEvaluations == Key("evaluations", "all")

Filters(p) == CASE p = "logs" -> {"all", "live"}
                [] p = "observability" -> {"all", "error"}
                [] p = "cost" -> {"30d", "24h"}
                [] OTHER -> {"all"}
FirstFilter(p) == IF p = "cost" THEN "30d" ELSE "all"

\* The observers a page mounts.
Observes(p, f) ==
    CASE p = "dashboard" -> {UseDashboard, UseDashboardTimeseries}
      [] p = "cost" -> {UseCostBreakdown(f), UseCostOverTime(f), UseCostForecast}
      [] p = "benchmarks" -> {UseBenchmarks, UseBenchmarkDatasets}
      [] p = "infrastructure" -> {UseProviders, UseDeployments, UseDashboard}
      [] p = "logs" -> {UseLogs(f)}
      [] p = "observability" -> {UseTraces(f)}
      [] p = "deployments" -> {UseDeployments}
      [] p = "deployment" -> {UseDeployments}
      [] p = "providers" -> {UseProviders}
      [] p = "routing" -> {UsePolicies}
      [] p = "prompts" -> {UsePrompts}
      [] p = "experiments" -> {UseExperiments}
      [] p \in {"evaluations", "leaderboard"} -> {UseEvaluations}

PageNames == {"dashboard", "cost", "benchmarks", "infrastructure", "logs", "observability",
              "deployments", "deployment", "providers", "routing", "prompts", "experiments",
              "evaluations", "leaderboard"}

\* The lists from which a page deletes.
Deletes(p) == p \in {"routing", "prompts", "deployments", "deployment"}

-----------------------------------------------------------------------------
(* A query: whether it has data and which, for which filter they were asked,   *)
(* whether it is in error, and its fetch ("asked", then "answered" with the    *)
(* rows the server had).                                                       *)

Idle == [stage |-> "idle", got |-> {}, asks |-> "none"]
Ask(f) == [stage |-> "asked", got |-> {}, asks |-> f]
Fresh(f) == [has |-> FALSE, data |-> {}, of |-> "none", failed |-> FALSE, fetch |-> Ask(f)]

Loading(k) == ~cache[k].has /\ ~cache[k].failed /\ cache[k].fetch # Idle   \* isLoading
Failed(k) == cache[k].failed                                                \* isError
Rows(k) == cache[k].data

PagesTypeOK ==
    /\ page \in PageNames /\ filter \in Filters(page)
    /\ Observes(page, filter) \subseteq DOMAIN cache
    /\ \A k \in DOMAIN cache :
         /\ cache[k].data \subseteq Ids /\ cache[k].fetch.got \subseteq Ids
         /\ cache[k].fetch.stage \in {"idle", "asked", "answered"}
         /\ cache[k].failed => cache[k].fetch = Idle \/ cache[k].has
         /\ ~cache[k].has => cache[k].data = {}
    /\ stored \subseteq Ids /\ selected \in Ids \cup {NoId}
    /\ removing \in [id : Ids \cup {NoId}, stage : {"idle", "sent", "done", "refetch"}]
    /\ removed \subseteq Ids

-----------------------------------------------------------------------------
(* What the pages say: a set of panels with the query each one is about.       *)

Panel(name, k, shows) == [panel |-> name, key |-> k, shows |-> shows]
Listed(name, k) == Panel(name, k, IF Rows(k) = {} THEN "nothing" ELSE "rows")
Section(name, k) == IF Failed(k) THEN Panel(name, k, "error") ELSE Listed(name, k)

\* The pages of one query: the spinner, the error, or the list.
OneList(name, k) == IF Loading(k) THEN {Panel(name, k, "loading")} ELSE {Section(name, k)}

DashboardPanels ==
    {Listed("model_usage", UseDashboard), Listed("request_volume", UseDashboardTimeseries),
     Listed("cost_over_time", UseDashboardTimeseries),
     Listed("errors_over_time", UseDashboardTimeseries)}
DashboardPage ==
    IF Loading(UseDashboard) THEN {Panel("page", UseDashboard, "loading")}
    ELSE IF Failed(UseDashboard) THEN {Panel("page", UseDashboard, "error")}
    ELSE DashboardPanels

CostAnalyticsPage ==
    LET breakdown == UseCostBreakdown(filter)
        overTime == UseCostOverTime(filter)
    IN IF Loading(breakdown) /\ Loading(overTime) THEN {Panel("page", breakdown, "loading")}
       ELSE {Listed("cost_by_model", breakdown), Listed("cost_over_time", overTime)}
            \cup (IF Failed(breakdown) THEN {Panel("page", breakdown, "error")} ELSE {})

RecentRuns == Section("recent_runs", UseBenchmarks)
BenchmarksPage ==
    IF Loading(UseBenchmarkDatasets) /\ Loading(UseBenchmarks)
    THEN {Panel("page", UseBenchmarks, "loading")}
    ELSE {Section("datasets", UseBenchmarkDatasets), RecentRuns}

\* Mutant: loading only while both queries load.
InfrastructurePageLoadingAnd ==
    IF Loading(UseProviders) /\ Loading(UseDeployments) THEN {Panel("map", UseProviders, "loading")}
    ELSE IF Failed(UseProviders) \/ Failed(UseDeployments) THEN {Panel("map", UseProviders, "error")}
    ELSE IF Rows(UseProviders) = {} /\ Rows(UseDeployments) = {}
         THEN {Panel("map", UseProviders, "nothing"), Panel("map", UseDeployments, "nothing")}
         ELSE {Panel("map", UseProviders, "rows")}

\* CommandCenter over useCommandCenter; the summary only fills figures in.
InfrastructurePage ==
    IF Loading(UseProviders) \/ Loading(UseDeployments) THEN {Panel("map", UseProviders, "loading")}
    ELSE IF Failed(UseProviders) \/ Failed(UseDeployments) THEN {Panel("map", UseProviders, "error")}
    ELSE IF Rows(UseProviders) = {} /\ Rows(UseDeployments) = {}
         THEN {Panel("map", UseProviders, "nothing"), Panel("map", UseDeployments, "nothing")}
         ELSE {Panel("map", UseProviders, "rows")}

\* The detail of a log entry slides in and stays, whatever the list becomes; that
\* of a trace is of the trace selected or else of the first one listed.
LogDetail == IF selected = NoId \/ Loading(UseLogs(filter)) THEN {}
             ELSE {Panel("entry", UseLogs(filter), "detail")}
LogsPage == OneList("entries", UseLogs(filter)) \cup LogDetail
TraceDetail == IF Failed(UseTraces(filter)) \/ Rows(UseTraces(filter)) = {} THEN {}
               ELSE {Panel("waterfall", UseTraces(filter), "detail")}
ObservabilityPage == OneList("traces", UseTraces(filter)) \cup TraceDetail
RoutingPage == OneList("policies", UsePolicies)
PromptsPage == OneList("prompts", UsePrompts)
ExperimentsPage == OneList("experiments", UseExperiments)
EvaluationsPage == OneList("evaluations", UseEvaluations)
LeaderboardPage == OneList("ranking", UseEvaluations)
ProvidersPage == OneList("providers", UseProviders)

\* An error stands above the rows that are known.
DeploymentCards == IF Rows(UseDeployments) = {} THEN {} ELSE {Panel("cards", UseDeployments, "rows")}
DeploymentsPage ==
    IF Loading(UseDeployments) THEN {Panel("deployments", UseDeployments, "loading")}
    ELSE DeploymentCards
         \cup IF Failed(UseDeployments) THEN {Panel("deployments", UseDeployments, "error")}
              ELSE IF DeploymentCards = {} THEN {Panel("deployments", UseDeployments, "nothing")} ELSE {}

\* The page of one deployment finds it in the list of all; selected is its id.
DeploymentDetailPage ==
    IF Loading(UseDeployments) THEN {Panel("page", UseDeployments, "loading")}
    ELSE {Panel("page", UseDeployments, IF selected \in Rows(UseDeployments) THEN "rows" ELSE "not_found")}

View ==
    CASE page = "dashboard" -> DashboardPage
      [] page = "cost" -> CostAnalyticsPage
      [] page = "benchmarks" -> BenchmarksPage
      [] page = "infrastructure" -> InfrastructurePage
      [] page = "logs" -> LogsPage
      [] page = "observability" -> ObservabilityPage
      [] page = "deployments" -> DeploymentsPage
      [] page = "deployment" -> DeploymentDetailPage
      [] page = "providers" -> ProvidersPage
      [] page = "routing" -> RoutingPage
      [] page = "prompts" -> PromptsPage
      [] page = "experiments" -> ExperimentsPage
      [] page = "evaluations" -> EvaluationsPage
      [] page = "leaderboard" -> LeaderboardPage

\* The rows a user can click on.
OnScreen == UNION {Rows(v.key) : v \in {w \in View : w.shows = "rows"}}

-----------------------------------------------------------------------------
(* Behaviour.                                                                  *)

\* The list that a deletion on this page invalidates.
ListKey == CHOOSE k \in Observes(page, filter) : TRUE

PagesInit ==
    /\ page \in PageNames /\ filter = FirstFilter(page)
    /\ cache = [k \in Observes(page, filter) |-> Fresh(filter)]
    /\ stored \in IF Deletes(page) THEN SUBSET Ids ELSE {{}}
    /\ selected \in IF page = "deployment" THEN Ids ELSE {NoId}
    /\ removing = [id |-> NoId, stage |-> "idle"] /\ removed = {}

\* Mutant: the error is kept.
AskedInError(q) == [q EXCEPT !.fetch = Ask(filter)]

\* A fetch that starts without data forgets the error.
Asked(q) == [q EXCEPT !.fetch = Ask(filter), !.failed = q.failed /\ q.has]

\* The user changes the filter: a key not seen before is fetched, one in error
\* without data again, and one with data if it is stale by now.
SetFilter(f) ==
    /\ f \in Filters(page) \ {filter}
    /\ filter' = f
    /\ \E stale \in BOOLEAN :
         cache' = [k \in DOMAIN cache \cup Observes(page, f) |->
                     IF k \notin DOMAIN cache THEN Fresh(f)
                     ELSE IF k \in Observes(page, f) \ Observes(page, filter)
                             /\ cache[k].fetch = Idle /\ (stale \/ ~cache[k].has)
                          THEN [Asked(cache[k]) EXCEPT !.fetch = Ask(f)]
                     ELSE cache[k]]
    /\ UNCHANGED <<page, stored, selected, removing, removed>>

\* The retry button of an ErrorState, and the queries that poll: the log explorer
\* in live mode, and the summary of the command centre.
Retries(k) == \E v \in View : v.key = k /\ v.shows = "error" /\ page # "infrastructure"
Polls(k) == \/ page = "logs" /\ filter = "live" /\ k = UseLogs("live")
            \/ page = "infrastructure" /\ k = UseDashboard
Refetch(k) ==
    /\ k \in Observes(page, filter) /\ cache[k].fetch = Idle
    /\ Retries(k) \/ Polls(k)
    /\ cache' = [cache EXCEPT ![k] = Asked(@)]
    /\ UNCHANGED <<page, filter, stored, selected, removing, removed>>

\* The endpoint reads the rows that are stored, where the page deletes some; what
\* another page is answered may be any rows, when the answer arrives; the
\* forecast is a figure and lists none.
AnswerQuery(k) ==
    /\ Deletes(page) /\ cache[k].fetch.stage = "asked"
    /\ cache' = [cache EXCEPT ![k].fetch = [@ EXCEPT !.stage = "answered", !.got = stored]]
    /\ UNCHANGED <<page, filter, stored, selected, removing, removed>>
Answers(k) == IF Deletes(page) THEN {cache[k].fetch.got}
              ELSE IF k = UseCostForecast THEN {{}} ELSE SUBSET Ids

\* A deletion is settled when the refetch its onSuccess returns has ended.
EndsDeletion(k) == removing' = IF removing.stage = "refetch" /\ k = ListKey
                               THEN [id |-> NoId, stage |-> "idle"] ELSE removing

SettleQuery(k) ==
    /\ cache[k].fetch.stage = IF Deletes(page) THEN "answered" ELSE "asked"
    /\ \E got \in Answers(k) :
         cache' = [cache EXCEPT ![k] = [has |-> TRUE, data |-> got, of |-> @.fetch.asks,
                                        failed |-> FALSE, fetch |-> Idle]]
    /\ EndsDeletion(k)
    /\ UNCHANGED <<page, filter, stored, selected, removed>>

QueryFails(k) ==
    /\ cache[k].fetch # Idle
    /\ cache' = [cache EXCEPT ![k].failed = TRUE, ![k].fetch = Idle]
    /\ EndsDeletion(k)
    /\ UNCHANGED <<page, filter, stored, selected, removed>>

\* A row is clicked: a trace, a log entry, the bin of a deployment; or the panel or
\* the dialog is closed.
Select(id) ==
    /\ page \in {"observability", "logs", "deployments"} /\ id # selected
    /\ id \in OnScreen \/ (id = NoId /\ page # "observability")
    /\ selected' = id
    /\ UNCHANGED <<page, filter, cache, stored, removing, removed>>

\* The bin of a policy or a prompt, disabled while a deletion is pending.
RemoveRow(id) ==
    /\ page \in {"routing", "prompts"} /\ id \in OnScreen
    /\ removing.stage = "idle"
    /\ removing' = [id |-> id, stage |-> "sent"]
    /\ UNCHANGED <<page, filter, cache, stored, selected, removed>>

ServerRemoves ==
    /\ removing.stage = "sent" /\ removing.id \in stored
    /\ stored' = stored \ {removing.id}
    /\ removing' = [removing EXCEPT !.stage = "done"]
    /\ UNCHANGED <<page, filter, cache, selected, removed>>

\* onSuccess returns invalidateQueries, which drops a fetch in flight and waits
\* for a new one.
InvalidateList == cache' = [cache EXCEPT ![ListKey] = Asked(@)]
\* Mutant: onSuccess does not return the promise.
RemoveDoneAtOnce ==
    /\ removing.stage = "done"
    /\ removed' = removed \cup {removing.id}
    /\ InvalidateList
    /\ removing' = [id |-> NoId, stage |-> "idle"]
    /\ UNCHANGED <<page, filter, stored, selected>>

RemoveDone ==
    /\ removing.stage = "done"
    /\ removed' = removed \cup {removing.id}
    /\ InvalidateList
    /\ removing' = [removing EXCEPT !.stage = "refetch"]
    /\ UNCHANGED <<page, filter, stored, selected>>

RemoveFails ==
    /\ removing.stage \in {"sent", "done"}
    /\ removing' = [id |-> NoId, stage |-> "idle"]
    /\ UNCHANGED <<page, filter, cache, stored, selected, removed>>

\* Others add rows and remove them.
ServerChanges ==
    /\ Deletes(page) /\ removing.stage = "idle" /\ removed = {}
    /\ stored' \in SUBSET Ids /\ stored' # stored
    /\ UNCHANGED <<page, filter, cache, selected, removing, removed>>

PagesNext ==
    \/ \E f \in Filters(page) : SetFilter(f)
    \/ \E k \in DOMAIN cache : Refetch(k) \/ AnswerQuery(k) \/ SettleQuery(k) \/ QueryFails(k)
    \/ \E id \in Ids \cup {NoId} : Select(id)
    \/ \E id \in Ids : RemoveRow(id)
    \/ ServerRemoves \/ RemoveDone \/ RemoveFails \/ ServerChanges

PagesSpec == PagesInit /\ [][PagesNext]_pagesVars

-----------------------------------------------------------------------------
\* A panel that says there is nothing speaks of an answer that listed nothing, and
\* not of a query that is loading or in error.  Set aside are the panels that
\* look at the data alone: the charts of the dashboard's series and of the cost
\* page, and the two panels of the benchmarks page while the other query loads.
DataAlone == {"request_volume", "cost_over_time", "errors_over_time", "cost_by_model",
              "datasets", "recent_runs"}
NothingMeansEmpty ==
    \A v \in View : v.shows = "nothing" /\ v.panel \notin DataAlone =>
        cache[v.key].has /\ cache[v.key].data = {} /\ ~cache[v.key].failed

\* The rows on the screen answer the filter on the screen, whatever order the
\* answers to earlier filters come in.
RowsOfFilter ==
    \A v \in View : v.shows = "rows" /\ v.key[1] \in {"logs", "traces", "breakdown", "over-time"} =>
        cache[v.key].of = filter

\* No page offers a row for deletion again whose deletion was confirmed to it: the
\* buttons stay disabled until the list has been fetched again, and a list that
\* could not be fetched is not shown.
DeletedOnce ==
    [][removing.stage = "idle" /\ removing'.stage = "sent" => removing'.id \notin removed]_pagesVars

\* The comment at benchmarks/page.tsx:29, "Only the datasets panel gates on its
\* own load": it says nothing of the datasets before they are loaded.
DatasetsPanelGates ==
    \A v \in View : v.panel = "datasets" /\ v.shows = "nothing" => cache[v.key].has
=============================================================================
