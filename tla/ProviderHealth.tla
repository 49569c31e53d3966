--------------------------- MODULE ProviderHealth ---------------------------
(***************************************************************************)
(* The health status of providers (services/provider_health_service.py,    *)
(* workers/tasks/telemetry.py, api/v1/providers.py): the sweep that the    *)
(* scheduler starts, single checks, and what operators do meanwhile.       *)
(*                                                                         *)
(* A sweep is one session and one transaction.  It loads the active        *)
(* providers, probes them one after the other, and writes each verdict as  *)
(* it comes; the rows it has written stay locked until it has probed the   *)
(* last one.  The session writes the attributes that differ from what it   *)
(* loaded: always the time of the check, the status only if it is another  *)
(* than the one loaded.                                                    *)
(***************************************************************************)
EXTENDS Naturals, FiniteSetsExt

CONSTANTS
    Providers,    \* ids, in the order of list_all
    Urls,         \* base URLs
    Sweepers,     \* workers that take the scheduled sweep
    Checkers,     \* single checks, of the endpoint or the task
    MaxTurns      \* bound: changes made by operators, endpoints and failures

ASSUME HealthAssumption == Providers \subseteq Nat /\ MaxTurns \in Nat

VARIABLES
    row,         \* committed rows of providers
    answer,      \* what each endpoint makes of a probe
    session,     \* sessions of the sweeps and the checks
    turns        \* changes so far

healthVars == <<row, answer, session, turns>>

Sessions == Sweepers \cup Checkers

\* A probe may raise, too: credentials that cannot be decrypted, a plugin that fails.
Verdicts == {"healthy", "down"}
Answers == Verdicts \cup {"raises"}
HealthStatuses == Verdicts \cup {"unknown"}

ProviderRow ==
    [here : {"new", "there", "gone"}, active : BOOLEAN, url : Urls, status : HealthStatuses]

\* The row as the session loaded it, the verdict of the last probe, and what the
\* session has written of each row: nothing, its status too, or all but the status.
Session ==
    [step : {"idle", "probe", "write", "commit"}, todo : SUBSET Providers,
     loaded : [Providers -> ProviderRow], verdict : HealthStatuses,
     wrote : [Providers -> HealthStatuses \cup {"nothing", "kept"}]]

SomeUrl == CHOOSE u \in Urls : TRUE

NoRow(here) == [here |-> here, active |-> FALSE, url |-> SomeUrl, status |-> "unknown"]

Resting ==
    [step |-> "idle", todo |-> {}, loaded |-> [p \in Providers |-> NoRow("new")],
     verdict |-> "unknown", wrote |-> [p \in Providers |-> "nothing"]]

HealthTypeOK ==
    /\ row \in [Providers -> ProviderRow]
    /\ answer \in [Urls -> Answers]
    /\ session \in [Sessions -> Session]
    /\ turns \in 0..MaxTurns

HealthInit ==
    /\ row = [p \in Providers |-> NoRow("new")]
    /\ answer = [u \in Urls |-> "healthy"]
    /\ session = [s \in Sessions |-> Resting]
    /\ turns = 0

There(p) == row[p].here = "there"

\* The row of p is not locked by a session other than s.
Unlocked(p, s) == \A t \in Sessions \ {s} : session[t].wrote[p] = "nothing"

End(s) == session' = [session EXCEPT ![s] = Resting]

-----------------------------------------------------------------------------
(* check, check_all *)

\* A session begins with the providers in S, as their rows are.
Load(s, S) ==
    /\ session[s].step = "idle"
    /\ session' = [session EXCEPT ![s] =
         [Resting EXCEPT !.step = IF S = {} THEN "commit" ELSE "probe", !.todo = S,
                         !.loaded = [p \in Providers |-> IF p \in S THEN row[p] ELSE @[p]]]]
    /\ UNCHANGED <<row, answer, turns>>

ActiveProviders == {p \in Providers : There(p) /\ row[p].active}

\* Mutant: what has a verdict is not swept again.
SweepUnknown(s) == Load(s, {p \in ActiveProviders : row[p].status = "unknown"})

Sweep(s) == Load(s, ActiveProviders)

CheckOne(s, p) == There(p) /\ Load(s, {p})

\* The provider that s is at, and the session e of s when it is done with it.
Current(s) == Min(session[s].todo)

After(s, e) ==
    LET left == e.todo \ {Current(s)} IN
    [e EXCEPT !.todo = left, !.loaded[Current(s)] = NoRow("new"),
              !.step = IF left = {} THEN "commit" ELSE "probe"]

\* A sweep passes over a provider whose probe raises; a single check ends.
Probe(s) ==
    LET said == answer[session[s].loaded[Current(s)].url] IN
    /\ session[s].step = "probe"
    /\ \/ /\ said # "raises"
          /\ session' = [session EXCEPT ![s].verdict = said, ![s].step = "write"]
       \/ /\ said = "raises" /\ s \in Sweepers
          /\ session' = [session EXCEPT ![s] = After(s, @)]
       \/ said = "raises" /\ s \in Checkers /\ End(s)
    /\ UNCHANGED <<row, answer, turns>>

\* The update of a row that is gone fails the flush, and with it the transaction;
\* the handler of the sweep reads an expired attribute, so its session ends, too.
Write(s) ==
    LET p == Current(s)
        what == IF session[s].verdict = session[s].loaded[p].status
                THEN "kept" ELSE session[s].verdict
    IN
    /\ session[s].step = "write"
    /\ Unlocked(p, s)
    /\ \/ There(p) /\ session' = [session EXCEPT ![s] = After(s, [@ EXCEPT !.wrote[p] = what])]
       \/ ~There(p) /\ End(s)
    /\ UNCHANGED <<row, answer, turns>>

Commit(s) ==
    /\ session[s].step = "commit"
    /\ row' = [p \in Providers |->
         IF session[s].wrote[p] \in HealthStatuses
         THEN [row[p] EXCEPT !.status = session[s].wrote[p]] ELSE row[p]]
    /\ End(s)
    /\ UNCHANGED <<answer, turns>>

Proceed(s) == Probe(s) \/ Write(s) \/ Commit(s)

-----------------------------------------------------------------------------
(* What happens meanwhile *)

Turn == turns < MaxTurns /\ turns' = turns + 1

\* create_provider
Connect(p, u) ==
    /\ Turn
    /\ row[p].here = "new"
    /\ row' = [row EXCEPT ![p] =
         [here |-> "there", active |-> TRUE, url |-> u, status |-> "unknown"]]
    /\ UNCHANGED <<answer, session>>

\* update_provider, which waits for a session that has written the row.
Patch(p, u, on) ==
    /\ Turn
    /\ There(p) /\ \A s \in Sessions : Unlocked(p, s)
    /\ row' = [row EXCEPT ![p].url = u, ![p].active = on]
    /\ UNCHANGED <<answer, session>>

\* delete_provider
Remove(p) ==
    /\ Turn
    /\ There(p) /\ \A s \in Sessions : Unlocked(p, s)
    /\ row' = [row EXCEPT ![p] = NoRow("gone")]
    /\ UNCHANGED <<answer, session>>

\* An endpoint comes up, goes down, or begins to make its probe raise.
Change(u, a) ==
    /\ Turn
    /\ answer' = [answer EXCEPT ![u] = a]
    /\ UNCHANGED <<row, session>>

\* The process of a session dies, or its connection.
Lose(s) ==
    /\ Turn
    /\ session[s].step # "idle"
    /\ End(s)
    /\ UNCHANGED <<row, answer>>

HealthNext ==
    \/ \E s \in Sweepers : Sweep(s)
    \/ \E s \in Checkers, p \in Providers : CheckOne(s, p)
    \/ \E s \in Sessions : Proceed(s) \/ Lose(s)
    \/ \E p \in Providers, u \in Urls : Connect(p, u) \/ \E on \in BOOLEAN : Patch(p, u, on)
    \/ \E p \in Providers : Remove(p)
    \/ \E u \in Urls, a \in Answers : Change(u, a)

HealthSpec == HealthInit /\ [][HealthNext]_healthVars

\* The scheduler starts sweeps, probes are answered or time out, and the database
\* gives a lock to who waits for it.
HealthFair ==
    /\ \A s \in Sweepers : WF_healthVars(Sweep(s))
    /\ \A s \in Sessions : SF_healthVars(Proceed(s))

-----------------------------------------------------------------------------
(* Properties *)

\* "Celery beat: refresh every active provider's health": when nothing changes any more
\* every active provider is shown as its endpoint is, whatever stale verdicts were
\* written before, over newer ones or for an address that it no longer has.
HealthSettles ==
    <>[](\A p \in ActiveProviders :
           answer[row[p].url] \in Verdicts => row[p].status = answer[row[p].url])

-----------------------------------------------------------------------------
(* What the code says of itself and does not do *)

\* "Probe one provider and persist the outcome": when a single check is committed, the
\* status of its provider is the verdict it answers with.  (It is not written when it is
\* the status that the session loaded, also if the row has another one by now.)
OutcomePersisted ==
    [][\A s \in Checkers, p \in Providers :
         session[s].step = "commit" /\ session[s].wrote[p] # "nothing" /\ Commit(s)
           => row'[p].status = session[s].verdict]_healthVars

\* "One bad provider, not the sweep": a sweep that has written a verdict commits it,
\* unless its process is lost.
SweepIsolated ==
    [][\A s \in Sweepers, p \in Providers :
         session[s].wrote[p] # "nothing" /\ session'[s].wrote[p] = "nothing"
           => session[s].step = "commit" \/ turns' # turns]_healthVars
=============================================================================
