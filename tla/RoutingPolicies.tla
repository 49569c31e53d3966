--------------------------- MODULE RoutingPolicies --------------------------
(***************************************************************************)
(* The routing policies of one project (api/v1/routing_policies.py,        *)
(* repositories/routing.py, services/routing_config_service.py).           *)
(*                                                                         *)
(* Every request is one transaction of PostgreSQL at READ COMMITTED: a     *)
(* statement sees what was committed before it, a write locks its row      *)
(* until the transaction ends and waits for a row another one has locked.  *)
(* The session reads a policy once and writes only the attributes that     *)
(* differ from what it read.  A partial unique index lets at most one      *)
(* policy of the project be active; an insert into it waits for every      *)
(* transaction whose outcome decides whether there is a conflict.          *)
(***************************************************************************)
EXTENDS Naturals, FiniteSets

CONSTANTS
    Policies,     \* ids of policies
    Models,       \* model ids
    Allowlists,   \* the allow-lists requests carry
    Requests,     \* concurrent requests
    MaxChanges,   \* bound: changes of the catalog
    None

ASSUME RoutingAssumption ==
    /\ Allowlists \subseteq SUBSET Models
    /\ MaxChanges \in Nat
    /\ None \notin Policies /\ None \notin Requests

VARIABLES
    policy,    \* committed rows
    used,      \* ids that were given to a policy
    new,       \* rows as their transaction left them, where one has them locked
    lock,      \* the transaction that has each row locked
    catalog,   \* models registered under an active provider
    changes,   \* changes of the catalog so far
    txn        \* the transaction of each request

vars == <<policy, used, new, lock, catalog, changes, txn>>

Row == [active: BOOLEAN, allow: SUBSET Models]

Kinds == {"create", "update", "activate", "delete"}

Steps == {"load", "resolve", "target", "deactivate", "write", "index", "recheck",
          "commit", "rollback"}

Txn == [kind: Kinds, step: Steps, p: Policies, allow: SUBSET Models,
        row: Row \cup {None}, targets: SUBSET Policies]

ASSUME NoneAssumption == None \notin Row \cup Txn

TypeOK ==
    /\ policy \in [Policies -> Row \cup {None}]
    /\ used \in SUBSET Policies
    /\ new \in [Policies -> Row \cup {None}]
    /\ lock \in [Policies -> {t \in Requests : txn[t] # None} \cup {None}]
    /\ catalog \in SUBSET Models
    /\ changes \in 0..MaxChanges
    /\ txn \in [Requests -> Txn \cup {None}]

Init ==
    /\ policy = [p \in Policies |-> None]
    /\ used = {}
    /\ new = policy
    /\ lock = [p \in Policies |-> None]
    /\ catalog = Models
    /\ changes = 0
    /\ txn = [t \in Requests |-> None]

Active(row) == row # None /\ row.active

At(t, s) == txn[t] # None /\ txn[t].step = s

On(t, k, s) == At(t, s) /\ txn[t].kind = k

Goto(t, s) == txn' = [txn EXCEPT ![t].step = s]

Free(t, p) == lock[p] \in {None, t}

\* The row as transaction t sees it.
Seen(t, p) == IF lock[p] = t THEN new[p] ELSE policy[p]

Put(t, p, row) ==
    /\ lock' = [lock EXCEPT ![p] = t]
    /\ new' = [new EXCEPT ![p] = row]

Resolves(allow) == allow \subseteq catalog

-----------------------------------------------------------------------------
\* Providers are switched on and off, models come and go (another component).
CatalogChanges ==
    /\ changes < MaxChanges
    /\ \E c \in SUBSET Models : c # catalog /\ catalog' = c
    /\ changes' = changes + 1
    /\ UNCHANGED <<policy, used, new, lock, txn>>

\* A request names a policy that exists or once did; a creation gets a new id.  New
\* ids are as good as each other, so one of them stands for all.
Begin(t, k, p, allow) ==
    /\ txn[t] = None
    /\ (k = "create") <=> (p \notin used)
    /\ k = "create" => p = CHOOSE q \in Policies : q \notin used
    /\ used' = used \cup {p}
    /\ txn' = [txn EXCEPT ![t] =
         [kind |-> k, step |-> "load", p |-> p, allow |-> allow, row |-> None,
          targets |-> {}]]
    /\ UNCHANGED <<policy, new, lock, catalog, changes>>

Others(t) == Policies \ {txn[t].p}

\* create_policy: no policy has the name, and every model of the list resolves.
LoadCreate(t) ==
    /\ On(t, "create", "load")
    /\ \/ Resolves(txn[t].allow) /\ Goto(t, "write")
       \/ /\ ~Resolves(txn[t].allow) \/ \E q \in Policies : policy[q] # None
          /\ Goto(t, "rollback")
    /\ UNCHANGED <<policy, used, new, lock, catalog, changes>>

\* The other requests read their policy; the active one is not deleted.
Load(t) ==
    /\ At(t, "load") /\ txn[t].kind # "create"
    /\ LET row == policy[txn[t].p] IN
       txn' = [txn EXCEPT ![t].row = row,
                 ![t].step = CASE row = None -> "rollback"
                               [] txn[t].kind = "delete" /\ Active(row) -> "rollback"
                               [] txn[t].kind = "activate" -> "resolve"
                               [] OTHER -> "write"]
    /\ UNCHANGED <<policy, used, new, lock, catalog, changes>>

Resolve(t) ==
    /\ At(t, "resolve")
    /\ Goto(t, IF Resolves(txn[t].row.allow) THEN "target" ELSE "rollback")
    /\ UNCHANGED <<policy, used, new, lock, catalog, changes>>

-----------------------------------------------------------------------------
(* RoutingPolicyRepository.activate *)

\* The update finds the other active policies of the project.
Target(t) ==
    /\ At(t, "target")
    /\ txn' = [txn EXCEPT ![t].step = "deactivate",
                 ![t].targets = {q \in Others(t) : Active(policy[q])}]
    /\ UNCHANGED <<policy, used, new, lock, catalog, changes>>

\* Mutant: the deactivation is committed on its own.
DeactivateCommits(t) ==
    /\ At(t, "deactivate")
    /\ \A q \in txn[t].targets : Free(t, q)
    /\ policy' = [q \in Policies |->
         IF q \in txn[t].targets /\ Active(policy[q])
         THEN [policy[q] EXCEPT !.active = FALSE] ELSE policy[q]]
    /\ Goto(t, "write")
    /\ UNCHANGED <<used, new, lock, catalog, changes>>

\* It waits for their locks and looks at them again.
Deactivate(t) ==
    LET hit == {q \in txn[t].targets : Active(policy[q])} IN
    /\ At(t, "deactivate")
    /\ \A q \in txn[t].targets : Free(t, q)
    /\ lock' = [q \in Policies |-> IF q \in hit THEN t ELSE lock[q]]
    /\ new' = [q \in Policies |->
                 IF q \in hit THEN [policy[q] EXCEPT !.active = FALSE] ELSE new[q]]
    /\ Goto(t, "write")
    /\ UNCHANGED <<policy, used, catalog, changes>>

\* Setting the attribute of a policy that was read as active writes nothing.
SetActive(t) ==
    LET p == txn[t].p IN
    /\ On(t, "activate", "write")
    /\ \/ /\ txn[t].row.active
          /\ Goto(t, "commit") /\ UNCHANGED <<lock, new>>
       \/ /\ ~txn[t].row.active /\ Free(t, p)
          /\ IF policy[p] = None
             THEN Goto(t, "rollback") /\ UNCHANGED <<lock, new>>
             ELSE Put(t, p, [policy[p] EXCEPT !.active = TRUE]) /\ Goto(t, "index")
    /\ UNCHANGED <<policy, used, catalog, changes>>

\* The index has no verdict while another transaction decides over q.
Undecided(t, q) == ~Free(t, q) /\ (Active(policy[q]) \/ Active(new[q]))

\* Mutant: there is no partial unique index.
Unindexed(t) ==
    /\ At(t, "index")
    /\ Goto(t, "commit")
    /\ UNCHANGED <<policy, used, new, lock, catalog, changes>>

Index(t) ==
    /\ At(t, "index")
    /\ \A q \in Others(t) : ~Undecided(t, q)
    /\ Goto(t, IF \E q \in Others(t) : Active(Seen(t, q)) THEN "rollback" ELSE "commit")
    /\ UNCHANGED <<policy, used, new, lock, catalog, changes>>

-----------------------------------------------------------------------------
(* create_policy, update_policy, delete_policy *)

\* A policy with its name may have come in between.
Insert(t) ==
    /\ On(t, "create", "write")
    /\ \/ Put(t, txn[t].p, [active |-> FALSE, allow |-> txn[t].allow]) /\ Goto(t, "commit")
       \/ /\ \E q \in Policies : policy[q] # None
          /\ Goto(t, "rollback") /\ UNCHANGED <<lock, new>>
    /\ UNCHANGED <<policy, used, catalog, changes>>

\* Only a policy that was read as active has its new list resolved.
Update(t) ==
    LET p == txn[t].p IN
    /\ On(t, "update", "write") /\ Free(t, p)
    /\ IF policy[p] = None
       THEN Goto(t, "rollback") /\ UNCHANGED <<lock, new>>
       ELSE /\ Put(t, p, [policy[p] EXCEPT !.allow = txn[t].allow])
            /\ Goto(t, IF txn[t].row.active THEN "recheck" ELSE "commit")
    /\ UNCHANGED <<policy, used, catalog, changes>>

Recheck(t) ==
    /\ At(t, "recheck")
    /\ Goto(t, IF Resolves(txn[t].allow) THEN "commit" ELSE "rollback")
    /\ UNCHANGED <<policy, used, new, lock, catalog, changes>>

Delete(t) ==
    LET p == txn[t].p IN
    /\ On(t, "delete", "write") /\ Free(t, p)
    /\ Put(t, p, None)
    /\ Goto(t, "commit")
    /\ UNCHANGED <<policy, used, catalog, changes>>

-----------------------------------------------------------------------------
(* Deadlocks, and get_session *)

\* The transactions that t waits for.
WaitsFor(t) ==
    {lock[q] : q \in {q \in Policies :
        /\ ~Free(t, q)
        /\ \/ At(t, "deactivate") /\ q \in txn[t].targets
           \/ At(t, "write") /\ txn[t].kind # "create" /\ q = txn[t].p
                /\ ~(txn[t].kind = "activate" /\ txn[t].row.active)
           \/ At(t, "index") /\ q \in Others(t) /\ Undecided(t, q)}}

\* Of transactions that wait for each other PostgreSQL aborts one.
DeadlockVictim(t) ==
    /\ \E S \in SUBSET Requests :
         /\ t \in S
         /\ \A u \in S : WaitsFor(u) \cap S # {} /\ \E v \in S : u \in WaitsFor(v)
    /\ Goto(t, "rollback")
    /\ UNCHANGED <<policy, used, new, lock, catalog, changes>>

Unlock(t) == lock' = [p \in Policies |-> IF lock[p] = t THEN None ELSE lock[p]]

Commit(t) ==
    /\ At(t, "commit")
    /\ policy' = [p \in Policies |-> Seen(t, p)]
    /\ Unlock(t)
    /\ txn' = [txn EXCEPT ![t] = None]
    /\ UNCHANGED <<used, new, catalog, changes>>

\* Mutant: the transaction of a refused request is left open.
RollbackLeaks(t) ==
    /\ At(t, "rollback")
    /\ txn' = [txn EXCEPT ![t] = None]
    /\ UNCHANGED <<policy, used, new, lock, catalog, changes>>

Rollback(t) ==
    /\ At(t, "rollback")
    /\ new' = [p \in Policies |-> IF lock[p] = t THEN policy[p] ELSE new[p]]
    /\ Unlock(t)
    /\ txn' = [txn EXCEPT ![t] = None]
    /\ UNCHANGED <<policy, used, catalog, changes>>

-----------------------------------------------------------------------------
Serve(t) ==
    \/ LoadCreate(t) \/ Load(t) \/ Resolve(t)
    \/ Target(t) \/ Deactivate(t) \/ SetActive(t) \/ Index(t)
    \/ Insert(t) \/ Update(t) \/ Recheck(t) \/ Delete(t)
    \/ DeadlockVictim(t) \/ Commit(t) \/ Rollback(t)

Next ==
    \/ CatalogChanges
    \/ \E t \in Requests : Serve(t)
    \/ \E t \in Requests, k \in Kinds, p \in Policies, allow \in Allowlists :
         Begin(t, k, p, allow)

Spec == Init /\ [][Next]_vars

\* The server runs its requests, and the database gives a lock to who waits for it.
FairSpec == Spec /\ \A t \in Requests : SF_vars(Serve(t))

-----------------------------------------------------------------------------
(* Properties *)

\* Concurrent activations never leave two policies of a project active.
OneActive ==
    \A p, q \in Policies : Active(policy[p]) /\ Active(policy[q]) => p = q

\* Nobody sees the project between two policies: a policy stops being active only in
\* the step that makes another one active.  The one exception is a policy that was
\* deleted, or activated again, on the strength of a state that was overtaken.
TakeoverComplete ==
    [][\A p \in Policies :
         Active(policy[p]) /\ policy'[p] # None /\ ~Active(policy'[p]) =>
           \/ \E q \in Policies : Active(policy'[q])
           \/ \E t \in Requests : txn[t] # None /\ txn[t].kind = "activate"
                                    /\ txn[t].row # None /\ txn[t].row.active]_vars

\* Every request gets an answer, also where activations wait for each other's rows:
\* who is refused gives his locks back.
RequestsEnd == \A t \in Requests : txn[t] # None ~> txn[t] = None

-----------------------------------------------------------------------------
(* What the code says of itself and does not do: see the findings *)

\* "Make `policy` the single active policy for its project": an activation that
\* succeeds leaves its policy active, or deleted by a request beside it.
ActivationActivates ==
    [][\A t \in Requests :
         On(t, "activate", "commit") /\ txn'[t] = None
           => policy'[txn[t].p] = None \/ Active(policy'[txn[t].p])]_vars
=============================================================================
