------------------------------ MODULE LiveList ------------------------------
(* The deployment list of the console: the row that the worker commits and     *)
(* announces on the topic "deployments", the react-query cache of the query    *)
(* ["deployments"] behind every page that shows it (hooks/useDeployments.ts),  *)
(* and the requests the pages send.  It composes LiveSocket, which brings the  *)
(* announcements, with react-query as providers.tsx configures it (staleTime,  *)
(* one retry, none for an answer below 500) and apiFetch (lib/api.ts).         *)
(* What is announced on other topics goes to other callbacks and is left out.  *)
(* Data is the number of commits it reflects; MaxVersion bounds them and       *)
(* MaxActions the requests of the user.                                        *)
EXTENDS Integers, LiveSocket

CONSTANTS Feed,        \* the topic "deployments"
          Shows,       \* the pages that observe the query
          MaxVersion,  \* bound: commits
          MaxActions   \* bound: actions the user sends

ASSUME FeedAssumption == Feed \in Topics /\ Shows \subseteq Pages /\ {MaxVersion, MaxActions} \subseteq Nat

VARIABLES
    row,        \* the version the database holds
    worker,     \* what the worker is about: "idle", "committed" (to be
                \* announced) or "announced" (to be committed: the poll)
    shown,      \* query.state.data, Nothing before the first answer
    invalid,    \* query.state.isInvalidated
    failed,     \* query.state.status is "error"
    fetch,      \* the fetch in flight
    action,     \* the mutation of useDeploymentAction
    actions,    \* how many actions the user has sent
    owed        \* the version of the last call for a refetch

listVars == <<row, worker, shown, invalid, failed, fetch, action, actions, owed>>
vars == <<socketVars, listVars>>
queryVars == <<shown, invalid, failed, fetch, owed>>

Nothing == -1
Idle == [stage |-> "idle", got |-> Nothing, tries |-> 0]
Asked(n) == [stage |-> "asked", got |-> Nothing, tries |-> n]

ListTypeOK ==
    /\ TypeOK
    /\ row \in 0..MaxVersion /\ worker \in {"idle", "committed", "announced"}
    /\ shown \in {Nothing} \cup 0..MaxVersion /\ owed \in 0..MaxVersion
    /\ invalid \in BOOLEAN /\ failed \in BOOLEAN
    /\ fetch \in [stage : {"idle", "asked", "answered", "waiting"},
                  got : {Nothing} \cup 0..MaxVersion, tries : 0..1]
    /\ action \in [stage : {"idle", "sent", "accepted"}, got : {Nothing} \cup 0..MaxVersion]
    /\ actions \in 0..MaxActions

NoAction == [stage |-> "idle", got |-> Nothing]

\* The first page observes the query, or not, with an empty cache.
ListInit ==
    /\ Init
    /\ row = 0 /\ worker = "idle" /\ owed = 0
    /\ shown = Nothing /\ invalid = FALSE /\ failed = FALSE
    /\ fetch = IF page \in Shows THEN Asked(0) ELSE Idle
    /\ action = NoAction /\ actions = 0

-----------------------------------------------------------------------------
(* react-query: one query, its observers, its retryer.                         *)

Observed == page \in Shows

\* Mutant: a fetch in flight is joined whether or not there is data.
InvalidateJoins ==
    /\ owed' = IF Observed /\ shown # Nothing THEN row ELSE owed
    /\ invalid' = TRUE
    /\ fetch' = IF Observed /\ fetch = Idle THEN Asked(0) ELSE fetch
    /\ UNCHANGED <<shown, failed>>

\* invalidateQueries: an observed query is fetched again, and the fetch in
\* flight is dropped if there is data already (else the first load is joined).
Invalidate ==
    /\ owed' = IF Observed /\ shown # Nothing THEN row ELSE owed
    /\ invalid' = TRUE
    /\ fetch' = IF Observed /\ (fetch = Idle \/ shown # Nothing) THEN Asked(0) ELSE fetch
    /\ UNCHANGED <<shown, failed>>

\* A page that observes the query mounts: an empty or invalid query is fetched,
\* and one older than staleTime; a fetch in flight is joined.
Mount ==
    /\ \/ /\ fetch = Idle
          /\ fetch' = Asked(0)
       \/ /\ fetch # Idle \/ (shown # Nothing /\ ~invalid)
          /\ UNCHANGED fetch
    /\ UNCHANGED <<shown, invalid, failed, owed>>

\* The user opens another page, or the context has changed.
CommitPage(next) ==
    /\ Commit(next)
    /\ IF next # page /\ next \in Shows THEN Mount ELSE UNCHANGED queryVars
    /\ UNCHANGED <<row, worker, action, actions>>

\* GET /deployments reads the rows.
Answer ==
    /\ fetch.stage = "asked"
    /\ fetch' = [fetch EXCEPT !.stage = "answered", !.got = row]
    /\ UNCHANGED <<socketVars, row, worker, shown, invalid, failed, action, actions, owed>>

\* The answer arrives: the data is replaced and no longer invalid.
Settle ==
    /\ fetch.stage = "answered"
    /\ shown' = fetch.got
    /\ invalid' = FALSE /\ failed' = FALSE
    /\ fetch' = Idle
    /\ UNCHANGED <<socketVars, row, worker, action, actions, owed>>

\* The fetch fails: a network fault or a 5xx is tried once more after a second,
\* any 4xx (apiFetch's own 408 too) is final.
Fail(status) ==
    /\ fetch.stage \in {"asked", "answered"}
    /\ IF status = "server" /\ fetch.tries < 1
       THEN /\ fetch' = [stage |-> "waiting", got |-> Nothing, tries |-> 1]
            /\ UNCHANGED failed
       ELSE fetch' = Idle /\ failed' = TRUE
    /\ UNCHANGED <<socketVars, row, worker, shown, invalid, action, actions, owed>>

Retry ==
    /\ fetch.stage = "waiting"
    /\ fetch' = Asked(fetch.tries)
    /\ UNCHANGED <<socketVars, row, worker, shown, invalid, failed, action, actions, owed>>

\* useDeploymentLiveSync: a frame of the feed invalidates the query.
Deliver ==
    /\ OnMessage(Feed)
    /\ IF Feed \in subscriptions THEN Invalidate ELSE UNCHANGED queryVars
    /\ UNCHANGED <<row, worker, action, actions>>

-----------------------------------------------------------------------------
(* The user's actions (useDeploymentAction) and the worker.                    *)

Act ==
    /\ page \in Shows /\ action = NoAction /\ actions < MaxActions
    /\ actions' = actions + 1
    /\ action' = [NoAction EXCEPT !.stage = "sent"]
    /\ UNCHANGED <<socketVars, row, worker, queryVars>>

\* The endpoint queues the job and answers with the row as it is.
Accept ==
    /\ action.stage = "sent"
    /\ action' = [stage |-> "accepted", got |-> row]
    /\ UNCHANGED <<socketVars, row, worker, actions, queryVars>>

\* Mutant: the answer of the action is put in the cache.
ActionDoneSeeds ==
    /\ action.stage = "accepted"
    /\ action' = NoAction
    /\ owed' = IF Observed /\ shown # Nothing THEN row ELSE owed
    /\ invalid' = TRUE /\ shown' = action.got
    /\ fetch' = IF Observed /\ (fetch = Idle \/ shown # Nothing) THEN Asked(0) ELSE fetch
    /\ UNCHANGED <<failed, socketVars, row, worker, actions>>

\* onSuccess, which runs wherever the user is by now: the answer is not put in
\* the cache.
ActionDone ==
    /\ action.stage = "accepted"
    /\ action' = NoAction
    /\ Invalidate
    /\ UNCHANGED <<socketVars, row, worker, actions>>

\* onError, or the 30 s of apiFetch, whatever became of the request.
ActionFails ==
    /\ action # NoAction
    /\ action' = NoAction
    /\ UNCHANGED <<socketVars, row, worker, actions, queryVars>>

\* _set_status and _delete commit, then announce.
WorkerCommits ==
    /\ worker = "idle" /\ row < MaxVersion
    /\ row' = row + 1 /\ worker' = "committed"
    /\ UNCHANGED <<socketVars, queryVars, action, actions>>

WorkerAnnounces ==
    /\ worker = "committed"
    /\ worker' = "idle"
    /\ Publish(Feed)
    /\ UNCHANGED <<row, queryVars, action, actions>>

\* The poll announces inside the transaction it commits afterwards.
PollAnnounces ==
    /\ worker = "idle" /\ row < MaxVersion
    /\ worker' = "announced"
    /\ Publish(Feed)
    /\ UNCHANGED <<row, queryVars, action, actions>>

PollCommits ==
    /\ worker = "announced"
    /\ row' = row + 1 /\ worker' = "idle"
    /\ UNCHANGED <<socketVars, queryVars, action, actions>>

\* publish is fail-open: Redis down, the announcement is dropped.
AnnouncementLost ==
    /\ RedisFails /\ worker = "committed"
    /\ worker' = "idle"
    /\ UNCHANGED <<socketVars, row, queryVars, action, actions>>

OnSocket == (Connection \/ Unmount) /\ UNCHANGED listVars

ListNext ==
    \/ \E next \in Pages : CommitPage(next)
    \/ OnSocket
    \/ Deliver
    \/ Answer \/ Settle \/ Retry
    \/ \E status \in {"server", "client"} : Fail(status)
    \/ Act \/ Accept \/ ActionDone \/ ActionFails
    \/ WorkerCommits \/ WorkerAnnounces \/ PollAnnounces \/ PollCommits \/ AnnouncementLost

\* Every request is answered or fails, and the timer of the retry fires; nothing
\* is asked of the socket or of the user.
Fairness == WF_vars(Answer) /\ WF_vars(Settle) /\ WF_vars(Retry)

ListSpec == ListInit /\ [][ListNext]_vars /\ Fairness

-----------------------------------------------------------------------------
\* The list never goes back to an older state of the deployments: not with the
\* answer of a fetch that a later call replaced, and not with the answer of an
\* action, "deliberately" kept out of the cache because it "would visibly revert
\* the row" (useDeployments.ts:113-116).
NoStepBack == [][shown # Nothing => shown' >= shown]_vars

\* An announcement or an accepted action that reaches a loaded list brings it to
\* the state of that moment or to an error, even when it comes in the middle of
\* a fetch (useDeployments.ts:119-124, 163-168).
OwedShown == [](shown # Nothing /\ shown < owed => <>(shown >= owed \/ failed))
=============================================================================
