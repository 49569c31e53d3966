--------------------------- MODULE AdminApiProofs ---------------------------
(***************************************************************************)
(* Theorems about the requests of operators, for every number of policies, *)
(* models, versions and concurrent requests.                               *)
(*                                                                         *)
(* Of RoutingPolicies: OneActive is not inductive, as what excludes a      *)
(* second active policy is said about transactions that have not           *)
(* committed.  Turning says that only an activation past its write makes   *)
(* an inactive row active, and Sure that between the index check of an     *)
(* activation and its commit no other row is active, nor becomes so by a   *)
(* commit that is under way.                                               *)
(*                                                                         *)
(* Of PromptVersions: none of the three invariants is inductive, as a      *)
(* commit adds a version that its transaction numbered long before.  Ready *)
(* says what a request still knows of what it has read (history only grows *)
(* while the prompt is there), Held what its locks keep from the others    *)
(* until it commits.                                                       *)
(*                                                                         *)
(* AdminApi takes both over to the requests side by side.                  *)
(***************************************************************************)
EXTENDS AdminApi, TLAPS

-----------------------------------------------------------------------------
(* Routing policies                                                        *)

Reads ==
    \A t \in Requests : txn[t] # None =>
        /\ txn[t].kind # "create" /\ txn[t].step \notin {"load", "rollback"}
             => txn[t].row # None
        /\ txn[t].step \in {"resolve", "target", "deactivate", "index"}
             => txn[t].kind = "activate"
        /\ txn[t].step = "recheck" => txn[t].kind = "update"

Fresh ==
    /\ \A p \in Policies : p \notin used => policy[p] = None /\ lock[p] = None
    /\ \A t \in Requests : txn[t] # None => txn[t].p \in used

Creating(t) == On(t, "create", "load") \/ On(t, "create", "write")

\* Nobody else has found or locked the row that a creation is about to insert.
Creations ==
    \A t \in Requests : Creating(t) =>
        /\ policy[txn[t].p] = None /\ lock[txn[t].p] = None
        /\ \A u \in Requests \ {t} : txn[u] # None /\ txn[u].p = txn[t].p
              => txn[u].kind # "create" /\ txn[u].row = None

\* t has made p active, which it is not yet for the others.
Turns(t, p) == lock[p] = t /\ Active(new[p]) /\ ~Active(policy[p])

Turning ==
    \A t \in Requests, p \in Policies : Turns(t, p) =>
        /\ txn[t].kind = "activate" /\ p = txn[t].p
        /\ txn[t].step \in {"index", "commit", "rollback"}

Sure ==
    \A t \in Requests, p, q \in Policies : Turns(t, p) /\ At(t, "commit") /\ q # p =>
        /\ ~Active(Seen(t, q))
        /\ lock[q] \notin {None, t} /\ At(lock[q], "commit") => ~Active(new[q])

IInv == TypeOK /\ Reads /\ Fresh /\ Creations /\ Turning /\ Sure /\ OneActive

USE RoutingAssumption, NoneAssumption

-----------------------------------------------------------------------------
(* Types *)

Running == {u \in Requests : txn[u] # None}

LEMMA GotoType ==
    ASSUME txn \in [Requests -> Txn \cup {None}], NEW t \in Running, NEW s \in Steps, Goto(t, s)
    PROVE  txn' \in [Requests -> Txn \cup {None}] /\ Running' = Running
<1>1. txn[t] \in Txn
  BY DEF Running
<1>2. [txn[t] EXCEPT !.step = s] \in Txn
  BY <1>1 DEF Txn
<1>3. txn' = [txn EXCEPT ![t] = [txn[t] EXCEPT !.step = s]]
  BY DEF Goto
<1>4. [txn[t] EXCEPT !.step = s] # None
  BY <1>2
<1>. QED  BY <1>2, <1>3, <1>4 DEF Running

LEMMA PutType ==
    ASSUME TypeOK, NEW t \in Running, NEW p \in Policies, NEW row \in Row \cup {None},
           Put(t, p, row), Running' = Running
    PROVE  lock' \in [Policies -> Running' \cup {None}] /\ new' \in [Policies -> Row \cup {None}]
BY DEF Put, TypeOK, Running

LEMMA EndType ==
    ASSUME TypeOK, NEW t \in Running, Unlock(t), txn' = [txn EXCEPT ![t] = None]
    PROVE  /\ txn' \in [Requests -> Txn \cup {None}]
           /\ lock' \in [Policies -> Running' \cup {None}]
BY DEF Unlock, TypeOK, Running

LEMMA RowType ==
    ASSUME NEW row \in Row
    PROVE  /\ \A b \in BOOLEAN : [row EXCEPT !.active = b] \in Row
           /\ \A a \in SUBSET Models : [row EXCEPT !.allow = a] \in Row
BY DEF Row

\* Only a running request waits, so only a running one is aborted.
LEMMA VictimRuns ==
    ASSUME NEW t \in Requests, DeadlockVictim(t)
    PROVE  t \in Running /\ Goto(t, "rollback")
<1>1. WaitsFor(t) # {}
  BY DEF DeadlockVictim
<1>. QED  BY <1>1 DEF DeadlockVictim, WaitsFor, At, Running

-----------------------------------------------------------------------------
\* A step leaves every variable in its type, and every lock with a running request.
LEMMA TypeStep ==
    ASSUME TypeOK, Reads, Fresh, [Next]_vars
    PROVE  TypeOK'
<1>1. CASE UNCHANGED vars
  BY <1>1 DEF vars, TypeOK
<1>2. CASE CatalogChanges
  <2>1. changes' \in 0..MaxChanges
    BY <1>2 DEF CatalogChanges, TypeOK
  <2>. QED  BY <1>2, <2>1 DEF CatalogChanges, TypeOK
<1>3. ASSUME NEW t \in Requests, NEW k \in Kinds, NEW p \in Policies, NEW allow \in Allowlists,
             Begin(t, k, p, allow)
      PROVE  TypeOK'
  <2>1. [kind |-> k, step |-> "load", p |-> p, allow |-> allow, row |-> None,
         targets |-> {}] \in Txn
    BY DEF Txn, Steps
  <2>2. txn' \in [Requests -> Txn \cup {None}] /\ Running \subseteq Running'
    BY <1>3, <2>1 DEF Begin, TypeOK, Running
  <2>3. used' \in SUBSET Policies
    BY <1>3 DEF Begin, TypeOK
  <2>. QED  BY <1>3, <2>2, <2>3 DEF Begin, TypeOK, Running
<1>4. ASSUME NEW t \in Requests, LoadCreate(t)
      PROVE  TypeOK'
  <2>1. \E s \in Steps : t \in Running /\ Goto(t, s)
    BY <1>4 DEF LoadCreate, At, On, Running, Steps
  <2>2. txn' \in [Requests -> Txn \cup {None}] /\ Running' = Running
    BY <2>1, GotoType DEF TypeOK
  <2>. QED  BY <1>4, <2>2 DEF LoadCreate, TypeOK, Running
<1>5. ASSUME NEW t \in Requests, Load(t)
      PROVE  TypeOK'
  <2>. DEFINE row == policy[txn[t].p]
              next == CASE row = None -> "rollback"
                        [] txn[t].kind = "delete" /\ Active(row) -> "rollback"
                        [] txn[t].kind = "activate" -> "resolve"
                        [] OTHER -> "write"
              new_txn == [txn[t] EXCEPT !.row = row, !.step = next]
  <2>1. txn[t] \in Txn
    BY <1>5 DEF Load, At, TypeOK
  <2>2. next \in Steps /\ row \in Row \cup {None}
    BY <2>1 DEF TypeOK, Txn, Steps
  <2>3. txn' = [txn EXCEPT ![t].row = row, ![t].step = next]
    BY <1>5 DEF Load
  <2>. HIDE DEF row, next
  <2>5. new_txn \in Txn
    BY <2>1, <2>2 DEF Txn
  <2>. HIDE DEF new_txn
  <2>4. txn' \in [Requests -> Txn \cup {None}] /\ Running' = Running
    <3>1. txn' = [txn EXCEPT ![t] = new_txn]
      BY <2>1, <2>3 DEF new_txn, TypeOK
    <3>. QED  BY <2>1, <2>5, <3>1 DEF TypeOK, Running
  <2>. QED  BY <1>5, <2>4 DEF Load, TypeOK, Running
<1>6. ASSUME NEW t \in Requests, Resolve(t)
      PROVE  TypeOK'
  <2>1. \E s \in Steps : t \in Running /\ Goto(t, s)
    BY <1>6 DEF Resolve, At, On, Running, Steps
  <2>2. txn' \in [Requests -> Txn \cup {None}] /\ Running' = Running
    BY <2>1, GotoType DEF TypeOK
  <2>. QED  BY <1>6, <2>2 DEF Resolve, TypeOK, Running
<1>7. ASSUME NEW t \in Requests, Target(t)
      PROVE  TypeOK'
  <2>. DEFINE found == {q \in Others(t) : Active(policy[q])}
              new_txn == [txn[t] EXCEPT !.step = "deactivate", !.targets = found]
  <2>1. txn[t] \in Txn
    BY <1>7 DEF Target, At, TypeOK
  <2>2. new_txn \in Txn
    BY <2>1 DEF Txn, Steps, Others
  <2>3. txn' = [txn EXCEPT ![t] = new_txn]
    BY <1>7 DEF Target
  <2>. HIDE DEF new_txn
  <2>4. txn' \in [Requests -> Txn \cup {None}] /\ Running' = Running
    BY <2>1, <2>2, <2>3 DEF TypeOK, Running
  <2>. QED  BY <1>7, <2>4 DEF Target, TypeOK, Running
<1>8. ASSUME NEW t \in Requests, Deactivate(t)
      PROVE  TypeOK'
  <2>1. t \in Running /\ Goto(t, "write")
    BY <1>8 DEF Deactivate, At, Running
  <2>2. txn' \in [Requests -> Txn \cup {None}] /\ Running' = Running
    BY <2>1, GotoType DEF TypeOK, Steps
  <2>3. \A q \in Policies : Active(policy[q]) => [policy[q] EXCEPT !.active = FALSE] \in Row
    BY RowType DEF Active, TypeOK
  <2>4. lock' \in [Policies -> Running' \cup {None}] /\ new' \in [Policies -> Row \cup {None}]
    BY <1>8, <2>1, <2>2, <2>3 DEF Deactivate, TypeOK, Running
  <2>. QED  BY <1>8, <2>2, <2>4 DEF Deactivate, TypeOK, Running
<1>9. ASSUME NEW t \in Requests, SetActive(t)
      PROVE  TypeOK'
  <2>1. \E s \in Steps : t \in Running /\ Goto(t, s)
    BY <1>9 DEF SetActive, At, On, Running, Steps
  <2>2. txn' \in [Requests -> Txn \cup {None}] /\ Running' = Running
    BY <2>1, GotoType DEF TypeOK
  <2>3. txn[t].p \in Policies /\ txn[t].allow \in SUBSET Models
    BY <2>1 DEF TypeOK, Txn, Running
  <2>6. policy[txn[t].p] \in Row \cup {None}
    BY <2>3 DEF TypeOK
  <2>4. \/ UNCHANGED <<lock, new>>
        \/ \E row \in Row \cup {None} : Put(t, txn[t].p, row)
    BY <1>9, <2>6, RowType DEF SetActive
  <2>5. lock' \in [Policies -> Running' \cup {None}] /\ new' \in [Policies -> Row \cup {None}]
    BY <2>1, <2>2, <2>3, <2>4, PutType DEF TypeOK, Running
  <2>. QED  BY <1>9, <2>2, <2>5 DEF SetActive, TypeOK, Running
<1>10. ASSUME NEW t \in Requests, Index(t)
       PROVE  TypeOK'
  <2>1. \E s \in Steps : t \in Running /\ Goto(t, s)
    BY <1>10 DEF Index, At, On, Running, Steps
  <2>2. txn' \in [Requests -> Txn \cup {None}] /\ Running' = Running
    BY <2>1, GotoType DEF TypeOK
  <2>. QED  BY <1>10, <2>2 DEF Index, TypeOK, Running
<1>11. ASSUME NEW t \in Requests, Insert(t)
       PROVE  TypeOK'
  <2>1. \E s \in Steps : t \in Running /\ Goto(t, s)
    BY <1>11 DEF Insert, At, On, Running, Steps
  <2>2. txn' \in [Requests -> Txn \cup {None}] /\ Running' = Running
    BY <2>1, GotoType DEF TypeOK
  <2>3. txn[t].p \in Policies /\ txn[t].allow \in SUBSET Models
    BY <2>1 DEF TypeOK, Txn, Running
  <2>4. \/ UNCHANGED <<lock, new>>
        \/ \E row \in Row \cup {None} : Put(t, txn[t].p, row)
    BY <1>11, <2>3, RowType DEF Insert, TypeOK, Row
  <2>5. lock' \in [Policies -> Running' \cup {None}] /\ new' \in [Policies -> Row \cup {None}]
    BY <2>1, <2>2, <2>3, <2>4, PutType DEF TypeOK, Running
  <2>. QED  BY <1>11, <2>2, <2>5 DEF Insert, TypeOK, Running
<1>12. ASSUME NEW t \in Requests, Update(t)
       PROVE  TypeOK'
  <2>1. \E s \in Steps : t \in Running /\ Goto(t, s)
    BY <1>12 DEF Update, At, On, Running, Steps
  <2>2. txn' \in [Requests -> Txn \cup {None}] /\ Running' = Running
    BY <2>1, GotoType DEF TypeOK
  <2>3. txn[t].p \in Policies /\ txn[t].allow \in SUBSET Models
    BY <2>1 DEF TypeOK, Txn, Running
  <2>4. \/ UNCHANGED <<lock, new>>
        \/ \E row \in Row \cup {None} : Put(t, txn[t].p, row)
    BY <1>12, <2>3, RowType DEF Update, TypeOK, Row
  <2>5. lock' \in [Policies -> Running' \cup {None}] /\ new' \in [Policies -> Row \cup {None}]
    BY <2>1, <2>2, <2>3, <2>4, PutType DEF TypeOK, Running
  <2>. QED  BY <1>12, <2>2, <2>5 DEF Update, TypeOK, Running
<1>13. ASSUME NEW t \in Requests, Recheck(t)
       PROVE  TypeOK'
  <2>1. \E s \in Steps : t \in Running /\ Goto(t, s)
    BY <1>13 DEF Recheck, At, On, Running, Steps
  <2>2. txn' \in [Requests -> Txn \cup {None}] /\ Running' = Running
    BY <2>1, GotoType DEF TypeOK
  <2>. QED  BY <1>13, <2>2 DEF Recheck, TypeOK, Running
<1>14. ASSUME NEW t \in Requests, Delete(t)
       PROVE  TypeOK'
  <2>1. \E s \in Steps : t \in Running /\ Goto(t, s)
    BY <1>14 DEF Delete, At, On, Running, Steps
  <2>2. txn' \in [Requests -> Txn \cup {None}] /\ Running' = Running
    BY <2>1, GotoType DEF TypeOK
  <2>3. txn[t].p \in Policies /\ txn[t].allow \in SUBSET Models
    BY <2>1 DEF TypeOK, Txn, Running
  <2>4. \/ UNCHANGED <<lock, new>>
        \/ \E row \in Row \cup {None} : Put(t, txn[t].p, row)
    BY <1>14, <2>3, RowType DEF Delete, TypeOK, Row
  <2>5. lock' \in [Policies -> Running' \cup {None}] /\ new' \in [Policies -> Row \cup {None}]
    BY <2>1, <2>2, <2>3, <2>4, PutType DEF TypeOK, Running
  <2>. QED  BY <1>14, <2>2, <2>5 DEF Delete, TypeOK, Running
<1>15. ASSUME NEW t \in Requests, DeadlockVictim(t)
       PROVE  TypeOK'
  <2>1. t \in Running /\ Goto(t, "rollback")
    BY <1>15, VictimRuns
  <2>2. txn' \in [Requests -> Txn \cup {None}] /\ Running' = Running
    BY <2>1, GotoType DEF TypeOK, Steps
  <2>. QED  BY <1>15, <2>2 DEF DeadlockVictim, TypeOK, Running
<1>16. ASSUME NEW t \in Requests, Commit(t)
       PROVE  TypeOK'
  <2>1. t \in Running
    BY <1>16 DEF Commit, At, Running
  <2>2. txn' \in [Requests -> Txn \cup {None}] /\ lock' \in [Policies -> Running' \cup {None}]
    BY <1>16, <2>1, EndType DEF Commit
  <2>3. policy' \in [Policies -> Row \cup {None}]
    BY <1>16 DEF Commit, Seen, TypeOK
  <2>. QED  BY <1>16, <2>2, <2>3 DEF Commit, TypeOK, Running
<1>17. ASSUME NEW t \in Requests, Rollback(t)
       PROVE  TypeOK'
  <2>1. t \in Running
    BY <1>17 DEF Rollback, At, Running
  <2>2. txn' \in [Requests -> Txn \cup {None}] /\ lock' \in [Policies -> Running' \cup {None}]
    BY <1>17, <2>1, EndType DEF Rollback
  <2>3. new' \in [Policies -> Row \cup {None}]
    BY <1>17 DEF Rollback, TypeOK
  <2>. QED  BY <1>17, <2>2, <2>3 DEF Rollback, TypeOK, Running
<1>. QED
  BY <1>1, <1>2, <1>3, <1>4, <1>5, <1>6, <1>7, <1>8, <1>9, <1>10, <1>11, <1>12, <1>13,
     <1>14, <1>15, <1>16, <1>17 DEF Next, Serve
-----------------------------------------------------------------------------
\* What a request has read stays what it read, and a new id is nobody else's.
LEMMA FreshStep ==
    ASSUME TypeOK, Reads, Fresh, Creations, [Next]_vars
    PROVE  Reads' /\ Fresh' /\ Creations'
<1>. USE DEF TypeOK, Txn, Kinds, Steps, Reads, Fresh, Creations, Creating, At, On, Active
<1>1. CASE UNCHANGED vars
  BY <1>1 DEF vars
<1>2. CASE CatalogChanges
  BY <1>2 DEF CatalogChanges
<1>3. ASSUME NEW t \in Requests, NEW k \in Kinds, NEW p \in Policies, NEW allow \in Allowlists,
             Begin(t, k, p, allow)
      PROVE  Reads' /\ Fresh' /\ Creations'
  BY <1>3 DEF Begin
<1>4. ASSUME NEW t \in Requests, LoadCreate(t)
      PROVE  Reads' /\ Fresh' /\ Creations'
  BY <1>4 DEF LoadCreate, Goto
<1>5. ASSUME NEW t \in Requests, Load(t)
      PROVE  Reads' /\ Fresh' /\ Creations'
  <2>1. Reads'
    BY <1>5 DEF Load
  <2>2. Fresh'
    BY <1>5 DEF Load
  <2>3. Creations'
    <3>1. \A u \in Requests : Creating(u)' => Creating(u) /\ u # t
      BY <1>5 DEF Load
    <3>2. policy[txn[t].p] = None => txn'[t].row = None
      BY <1>5 DEF Load
    <3>3. /\ UNCHANGED <<policy, lock>>
          /\ \A u \in Requests : (txn'[u] = None <=> txn[u] = None)
          /\ \A u \in Requests : txn[u] # None => txn'[u].p = txn[u].p
                                                  /\ txn'[u].kind = txn[u].kind
          /\ \A u \in Requests \ {t} : txn'[u] = txn[u]
      <4>1. UNCHANGED <<policy, lock>> /\ \A u \in Requests \ {t} : txn'[u] = txn[u]
        BY <1>5 DEF Load
      <4>2. /\ txn[t] # None /\ txn'[t] # None
            /\ txn'[t].p = txn[t].p /\ txn'[t].kind = txn[t].kind
        <5>1. txn[t] \in Txn /\ txn'[t] \in Txn \cup {None}
          BY <1>5, TypeStep DEF Load
        <5>. QED  BY <1>5, <5>1, NoneAssumption DEF Load
      <4>. QED  BY <4>1, <4>2
    <3>. QED  BY <3>1, <3>2, <3>3
  <2>. QED  BY <2>1, <2>2, <2>3
<1>6. ASSUME NEW t \in Requests, Resolve(t)
      PROVE  Reads' /\ Fresh' /\ Creations'
  BY <1>6 DEF Resolve, Goto
<1>7. ASSUME NEW t \in Requests, Target(t)
      PROVE  Reads' /\ Fresh' /\ Creations'
  BY <1>7 DEF Target
<1>8. ASSUME NEW t \in Requests, Deactivate(t)
      PROVE  Reads' /\ Fresh' /\ Creations'
  BY <1>8 DEF Deactivate, Goto
<1>9. ASSUME NEW t \in Requests, SetActive(t)
      PROVE  Reads' /\ Fresh' /\ Creations'
  BY <1>9 DEF SetActive, Goto, Put
<1>10. ASSUME NEW t \in Requests, Index(t)
       PROVE  Reads' /\ Fresh' /\ Creations'
  BY <1>10 DEF Index, Goto
<1>11. ASSUME NEW t \in Requests, Insert(t)
       PROVE  Reads' /\ Fresh' /\ Creations'
  BY <1>11 DEF Insert, Goto, Put
<1>12. ASSUME NEW t \in Requests, Update(t)
       PROVE  Reads' /\ Fresh' /\ Creations'
  BY <1>12 DEF Update, Goto, Put
<1>13. ASSUME NEW t \in Requests, Recheck(t)
       PROVE  Reads' /\ Fresh' /\ Creations'
  BY <1>13 DEF Recheck, Goto
<1>14. ASSUME NEW t \in Requests, Delete(t)
       PROVE  Reads' /\ Fresh' /\ Creations'
  BY <1>14 DEF Delete, Goto, Put
<1>15. ASSUME NEW t \in Requests, DeadlockVictim(t)
       PROVE  Reads' /\ Fresh' /\ Creations'
  <2>1. txn[t] # None
    BY <1>15, VictimRuns DEF Running
  <2>2. WaitsFor(t) # {}
    BY <1>15 DEF DeadlockVictim
  <2>3. ~Creating(t)
    BY <2>2 DEF WaitsFor
  <2>. QED  BY <1>15, <2>1, <2>3 DEF DeadlockVictim, Goto
<1>16. ASSUME NEW t \in Requests, Commit(t)
       PROVE  Reads' /\ Fresh' /\ Creations'
  BY <1>16 DEF Commit, Unlock, Seen
<1>17. ASSUME NEW t \in Requests, Rollback(t)
       PROVE  Reads' /\ Fresh' /\ Creations'
  BY <1>17 DEF Rollback, Unlock
<1>. HIDE DEF Reads, Fresh, Creations
<1>. QED
  BY <1>1, <1>2, <1>3, <1>4, <1>5, <1>6, <1>7, <1>8, <1>9, <1>10, <1>11, <1>12, <1>13,
     <1>14, <1>15, <1>16, <1>17 DEF Next, Serve
-----------------------------------------------------------------------------
\* The verdict of the index: no other row is active, none is about to be, and an
\* activation that had its own verdict before is still to commit, so there is none.
LEMMA SureIndex ==
    ASSUME IInv, NEW t \in Requests, Index(t)
    PROVE  Sure'
<1>. USE DEF IInv, Turns
<1>1. /\ UNCHANGED <<policy, new, lock>>
      /\ txn[t] # None /\ txn[t].step = "index"
      /\ \A u \in Requests : u # t => txn'[u] = txn[u]
      /\ txn'[t].p = txn[t].p
  BY DEF Index, At, Goto, TypeOK, Txn
<1>2. ASSUME NEW u \in Requests, NEW p \in Policies, NEW q \in Policies,
             Turns(u, p)', At(u, "commit")', q # p
      PROVE  /\ ~Active(Seen(u, q))'
             /\ lock'[q] \notin {None, u} /\ At(lock[q], "commit")' => ~Active(new'[q])
  <2>0. Turns(u, p)
    BY <1>1, <1>2
  <2>1. CASE u = t
    <3>1. p = txn[t].p /\ q \in Others(t)
      BY <2>0, <2>1, <1>2 DEF Turning, Others
    <3>2. txn'[t].step = "commit"
      BY <1>2, <2>1 DEF At
    <3>3. ~Undecided(t, q) /\ ~Active(Seen(t, q))
      BY <3>1, <3>2, <1>1 DEF Index, Goto, TypeOK, Txn
    <3>. QED  BY <1>1, <2>1, <3>3 DEF Undecided, Free, Seen
  <2>2. CASE u # t
    <3>1. At(u, "commit")
      BY <1>1, <1>2, <2>2 DEF At
    <3>2. ~Active(Seen(u, q))
      BY <3>1, <2>0, <1>2 DEF Sure
    <3>3. ASSUME lock[q] = t, Active(new[q]), txn'[t].step = "commit"
          PROVE  FALSE
      <4>1. ~Active(policy[q])
        BY <3>2, <3>3, <2>2 DEF Seen
      <4>2. q = txn[t].p
        BY <4>1, <3>3 DEF Turning
      <4>3. p \in Others(t) /\ Undecided(t, p)
        BY <4>2, <1>2, <2>0, <2>2 DEF Others, Undecided, Free, TypeOK
      <4>. QED  BY <4>3, <3>3, <1>1 DEF Index, Goto, TypeOK, Txn
    <3>4. lock[q] \notin {None, u} /\ At(lock[q], "commit")' => ~Active(new[q])
      <4>1. CASE lock[q] = t
        BY <4>1, <3>3, <1>1 DEF At
      <4>2. CASE lock[q] # t
        BY <4>2, <3>1, <2>0, <1>1, <1>2 DEF Sure, At, TypeOK
      <4>. QED  BY <4>1, <4>2
    <3>. QED  BY <1>1, <3>2, <3>4 DEF Seen
  <2>. QED  BY <2>1, <2>2
<1>. QED  BY <1>2 DEF Sure

\* An edit leaves a policy as active as it is.
LEMMA SureUpdate ==
    ASSUME IInv, NEW t \in Requests, Update(t)
    PROVE  Turning' /\ Sure'
<1>. DEFINE p == txn[t].p
<1>1. txn[t] \in Txn /\ txn[t].kind = "update" /\ txn[t].step = "write" /\ p \in Policies
      /\ lock[p] \in {None, t}
  BY DEF Update, On, At, IInv, TypeOK, Txn, Free
<1>2. \E s \in Steps : txn' = [txn EXCEPT ![t] = [txn[t] EXCEPT !.step = s]]
  BY <1>1 DEF Update, Goto, Steps
<1>3. /\ UNCHANGED policy
      /\ \A u \in Requests : u # t => txn'[u] = txn[u]
      /\ txn'[t] # None /\ txn'[t].kind = "update"
  BY <1>1, <1>2, NoneAssumption DEF Update, IInv, TypeOK, Txn
<1>4. \A q \in Policies : q # p => lock'[q] = lock[q] /\ new'[q] = new[q]
  BY <1>1 DEF Update, Put, IInv, TypeOK
<1>5. \/ UNCHANGED <<lock, new>>
      \/ lock'[p] = t /\ (Active(new'[p]) <=> Active(policy[p]))
  <2>1. CASE policy[p] = None
    BY <2>1 DEF Update
  <2>2. CASE policy[p] # None
    <3>1. policy[p] \in Row /\ txn[t].allow \in SUBSET Models
      BY <1>1, <2>2 DEF IInv, TypeOK, Txn
    <3>2. lock'[p] = t /\ new'[p] = [policy[p] EXCEPT !.allow = txn[t].allow]
      BY <1>1, <2>2 DEF Update, Put, IInv, TypeOK
    <3>3. new'[p] # None /\ new'[p].active = policy[p].active
      BY <3>1, <3>2, RowType, NoneAssumption DEF Row
    <3>. QED  BY <2>2, <3>2, <3>3 DEF Active
  <2>. QED  BY <2>1, <2>2
<1>. HIDE DEF p
<1>6. ASSUME NEW u \in Requests, NEW q \in Policies, Turns(u, q)'
      PROVE  Turns(u, q) /\ u # t
  BY <1>1, <1>3, <1>4, <1>5, <1>6 DEF Turns, IInv, Turning, Active
<1>7. Turning'
  BY <1>3, <1>4, <1>6 DEF IInv, Turning
<1>8. ASSUME NEW u \in Requests, NEW q \in Policies, NEW r \in Policies,
             Turns(u, q)', At(u, "commit")', r # q
      PROVE  /\ ~Active(Seen(u, r))'
             /\ lock'[r] \notin {None, u} /\ At(lock[r], "commit")' => ~Active(new'[r])
  <2>1. Turns(u, q) /\ u # t /\ At(u, "commit")
    BY <1>3, <1>4, <1>6, <1>8 DEF At
  <2>2. /\ ~Active(Seen(u, r))
        /\ lock[r] \notin {None, u} /\ At(lock[r], "commit") => ~Active(new[r])
    BY <2>1, <1>8 DEF IInv, Sure
  <2>3. CASE r # p
    <3>1. lock'[r] = lock[r] /\ new'[r] = new[r] /\ policy'[r] = policy[r]
      BY <1>3, <1>4, <2>3
    <3>2. ~Active(Seen(u, r))'
      BY <3>1, <2>2 DEF Seen
    <3>3. CASE lock[r] # t
      BY <3>1, <3>2, <3>3, <2>2, <1>3, <1>4 DEF At, IInv, TypeOK
    <3>4. CASE lock[r] = t
      <4>1. ~Active(policy[r])
        BY <2>1, <2>2, <3>4 DEF Seen
      <4>2. ~Active(new[r])
        BY <4>1, <3>4, <1>1 DEF IInv, Turning, Turns
      <4>. QED  BY <3>1, <3>2, <4>2
    <3>. QED  BY <3>3, <3>4
  <2>4. CASE r = p
    <3>1. lock[p] # u /\ lock'[p] # u
      BY <1>1, <1>5, <2>1, <2>4 DEF IInv, TypeOK
    <3>2. ~Active(policy[p])
      BY <3>1, <2>2, <2>4 DEF Seen
    <3>3. lock'[p] = t => ~Active(new'[p])
      BY <1>1, <1>5, <3>2 DEF IInv, Turning, Turns
    <3>. QED  BY <1>1, <1>3, <1>4, <1>5, <2>4, <3>1, <3>2, <3>3 DEF Seen
  <2>. QED  BY <2>3, <2>4
<1>. QED  BY <1>7, <1>8 DEF Sure

-----------------------------------------------------------------------------
\* No step makes a second policy active, or lets a commit under way do so.
LEMMA ActiveStep ==
    ASSUME IInv, [Next]_vars
    PROVE  Turning' /\ Sure' /\ OneActive'
<1>. USE DEF IInv, TypeOK, Txn, Kinds, Steps, Reads, Creations, Creating, Turning, Turns,
             Sure, OneActive, Seen, At, On, Active, Free
<1>1. CASE UNCHANGED vars
  BY <1>1 DEF vars
<1>2. CASE CatalogChanges
  BY <1>2 DEF CatalogChanges
<1>3. ASSUME NEW t \in Requests, NEW k \in Kinds, NEW p \in Policies, NEW allow \in Allowlists,
             Begin(t, k, p, allow)
      PROVE  Turning' /\ Sure' /\ OneActive'
  BY <1>3 DEF Begin
<1>4. ASSUME NEW t \in Requests, LoadCreate(t)
      PROVE  Turning' /\ Sure' /\ OneActive'
  BY <1>4 DEF LoadCreate, Goto
<1>5. ASSUME NEW t \in Requests, Load(t)
      PROVE  Turning' /\ Sure' /\ OneActive'
  BY <1>5 DEF Load
<1>6. ASSUME NEW t \in Requests, Resolve(t)
      PROVE  Turning' /\ Sure' /\ OneActive'
  BY <1>6 DEF Resolve, Goto
<1>7. ASSUME NEW t \in Requests, Target(t)
      PROVE  Turning' /\ Sure' /\ OneActive'
  BY <1>7 DEF Target
<1>8. ASSUME NEW t \in Requests, Deactivate(t)
      PROVE  Turning' /\ Sure' /\ OneActive'
  BY <1>8 DEF Deactivate, Goto
<1>9. ASSUME NEW t \in Requests, SetActive(t)
      PROVE  Turning' /\ Sure' /\ OneActive'
  BY <1>9 DEF SetActive, Goto, Put
<1>10. ASSUME NEW t \in Requests, Index(t)
       PROVE  Turning' /\ Sure' /\ OneActive'
  <2>1. Turning'
    BY <1>10 DEF Index, Goto
  <2>2. OneActive'
    BY <1>10 DEF Index, Goto
  <2>3. Sure'
    BY <1>10, SureIndex
  <2>. QED  BY <2>1, <2>2, <2>3
<1>11. ASSUME NEW t \in Requests, Insert(t)
       PROVE  Turning' /\ Sure' /\ OneActive'
  BY <1>11 DEF Insert, Goto, Put
<1>12. ASSUME NEW t \in Requests, Update(t)
       PROVE  Turning' /\ Sure' /\ OneActive'
  <2>1. Turning'
    BY <1>12, SureUpdate
  <2>2. OneActive'
    BY <1>12 DEF Update
  <2>3. Sure'
    BY <1>12, SureUpdate
  <2>. QED  BY <2>1, <2>2, <2>3
<1>13. ASSUME NEW t \in Requests, Recheck(t)
       PROVE  Turning' /\ Sure' /\ OneActive'
  BY <1>13 DEF Recheck, Goto
<1>14. ASSUME NEW t \in Requests, Delete(t)
       PROVE  Turning' /\ Sure' /\ OneActive'
  BY <1>14 DEF Delete, Goto, Put
<1>15. ASSUME NEW t \in Requests, DeadlockVictim(t)
       PROVE  Turning' /\ Sure' /\ OneActive'
  BY <1>15 DEF DeadlockVictim, Goto
<1>16. ASSUME NEW t \in Requests, Commit(t)
       PROVE  Turning' /\ Sure' /\ OneActive'
  BY <1>16 DEF Commit, Unlock
<1>17. ASSUME NEW t \in Requests, Rollback(t)
       PROVE  Turning' /\ Sure' /\ OneActive'
  BY <1>17 DEF Rollback, Unlock
<1>. HIDE DEF Turning, Sure, OneActive
<1>. QED
  BY <1>1, <1>2, <1>3, <1>4, <1>5, <1>6, <1>7, <1>8, <1>9, <1>10, <1>11, <1>12, <1>13,
     <1>14, <1>15, <1>16, <1>17 DEF Next, Serve
-----------------------------------------------------------------------------
(* The theorems *)

LEMMA InitIInv == Init => IInv
BY DEF Init, IInv, TypeOK, Reads, Fresh, Creations, Creating, Turning, Turns, Sure,
   OneActive, At, On, Active

LEMMA StepIInv == IInv /\ [Next]_vars => IInv'
BY TypeStep, FreshStep, ActiveStep DEF IInv

\* The inductive invariant holds in every reachable state: what a transaction that has
\* not committed holds back excludes a second active policy.
THEOREM Invariant == Spec => []IInv
BY InitIInv, StepIInv, PTL DEF Spec

\* Rows, locks and transactions keep their shape, and a lock its running request.
THEOREM TypeCorrect == Spec => []TypeOK
<1>1. IInv => TypeOK
  BY DEF IInv
<1>. QED  BY <1>1, Invariant, PTL

\* However many requests activate, edit, create and delete policies at once, at most
\* one policy is active after every commit.
THEOREM OneActiveCorrect == Spec => []OneActive
<1>1. IInv => OneActive
  BY DEF IInv
<1>. QED  BY <1>1, Invariant, PTL

-----------------------------------------------------------------------------
(* The takeover *)

\* Setting is_active on a row makes it active.
LEMMA SwitchedOn ==
    ASSUME NEW row \in Row
    PROVE  Active([row EXCEPT !.active = TRUE])
<1>1. [row EXCEPT !.active = TRUE] \in Row /\ [row EXCEPT !.active = TRUE].active
  BY DEF Row
<1>. QED  BY <1>1 DEF Active

\* Only an activation past its deactivations is about to switch a policy off.
Supersedes ==
    \A t \in Requests, p \in Policies :
        lock[p] = t /\ Active(policy[p]) /\ new[p] # None /\ ~Active(new[p]) =>
            /\ txn[t].kind = "activate"
            /\ txn[t].step \in {"write", "index", "commit", "rollback"}

\* An activation that gets as far as its commit has switched its own policy on, or
\* found it on.
Overtakes ==
    \A t \in Requests : On(t, "activate", "index") \/ On(t, "activate", "commit") =>
        \/ txn[t].row.active
        \/ lock[txn[t].p] = t /\ Active(new[txn[t].p])

\* A step keeps what is known of activations under way.
LEMMA TakeoverStep ==
    ASSUME IInv, Supersedes, Overtakes, [Next]_vars
    PROVE  Supersedes' /\ Overtakes'
<1>. USE DEF IInv, TypeOK, Txn, Row, Kinds, Steps, Reads, Creations, Creating, Supersedes,
             Overtakes, Seen, At, On, Active, Free
<1>1. CASE UNCHANGED vars
  BY <1>1 DEF vars
<1>2. CASE CatalogChanges
  BY <1>2 DEF CatalogChanges
<1>3. ASSUME NEW t \in Requests, NEW k \in Kinds, NEW p \in Policies, NEW allow \in Allowlists,
             Begin(t, k, p, allow)
      PROVE  Supersedes' /\ Overtakes'
  BY <1>3 DEF Begin
<1>4. ASSUME NEW t \in Requests, LoadCreate(t)
      PROVE  Supersedes' /\ Overtakes'
  BY <1>4 DEF LoadCreate, Goto
<1>5. ASSUME NEW t \in Requests, Load(t)
      PROVE  Supersedes' /\ Overtakes'
  <2>1. Supersedes'
    BY <1>5 DEF Load
  <2>2. Overtakes'
    BY <1>5 DEF Load
  <2>. QED  BY <2>1, <2>2
<1>6. ASSUME NEW t \in Requests, Resolve(t)
      PROVE  Supersedes' /\ Overtakes'
  BY <1>6 DEF Resolve, Goto
<1>7. ASSUME NEW t \in Requests, Target(t)
      PROVE  Supersedes' /\ Overtakes'
  BY <1>7 DEF Target
<1>8. ASSUME NEW t \in Requests, Deactivate(t)
      PROVE  Supersedes' /\ Overtakes'
  BY <1>8 DEF Deactivate, Goto
<1>9. ASSUME NEW t \in Requests, SetActive(t)
      PROVE  Supersedes' /\ Overtakes'
  <2>. DEFINE own == txn[t].p
  <2>1. /\ \E s \in {"commit", "rollback", "index"} :
             txn' = [txn EXCEPT ![t] = [txn[t] EXCEPT !.step = s]]
        /\ txn[t] \in Txn /\ txn[t].kind = "activate" /\ own \in Policies
        /\ UNCHANGED policy
    BY <1>9 DEF SetActive, Goto
  <2>2. CASE txn[t].row.active /\ UNCHANGED <<lock, new>>
    BY <2>1, <2>2
  <2>3. CASE UNCHANGED <<lock, new>> /\ Goto(t, "rollback")
    BY <2>1, <2>3 DEF Goto
  <2>4. CASE /\ Put(t, own, [policy[own] EXCEPT !.active = TRUE])
             /\ policy[own] # None /\ lock[own] \in {None, t}
    <3>1. Active([policy[own] EXCEPT !.active = TRUE])
      <4>1. policy[own] \in Row
        BY <2>1, <2>4
      <4>. QED  BY <4>1, SwitchedOn
    <3>2. /\ lock'[own] = t /\ new'[own] = [policy[own] EXCEPT !.active = TRUE]
          /\ \A q \in Policies \ {own} : lock'[q] = lock[q] /\ new'[q] = new[q]
      BY <2>1, <2>4 DEF Put
    <3>3. Active(new'[own])
      <4>. HIDE DEF Active
      <4>. QED  BY <3>1, <3>2
    <3>4. Supersedes'
      BY <2>1, <3>2, <3>3
    <3>5. \A u \in Requests \ {t} : txn'[u] = txn[u] /\ (txn[u] # None => txn[u].p \in Policies)
      BY <2>1
    <3>6. Overtakes'
      BY <2>1, <2>4, <3>2, <3>3, <3>5
    <3>. QED  BY <3>4, <3>6
  <2>. QED
    BY <1>9, <2>2, <2>3, <2>4 DEF SetActive
<1>10. ASSUME NEW t \in Requests, Index(t)
       PROVE  Supersedes' /\ Overtakes'
  BY <1>10 DEF Index, Goto
<1>11. ASSUME NEW t \in Requests, Insert(t)
       PROVE  Supersedes' /\ Overtakes'
  BY <1>11 DEF Insert, Goto, Put
<1>12. ASSUME NEW t \in Requests, Update(t)
       PROVE  Supersedes' /\ Overtakes'
  BY <1>12 DEF Update, Goto, Put
<1>13. ASSUME NEW t \in Requests, Recheck(t)
       PROVE  Supersedes' /\ Overtakes'
  BY <1>13 DEF Recheck, Goto
<1>14. ASSUME NEW t \in Requests, Delete(t)
       PROVE  Supersedes' /\ Overtakes'
  BY <1>14 DEF Delete, Goto, Put
<1>15. ASSUME NEW t \in Requests, DeadlockVictim(t)
       PROVE  Supersedes' /\ Overtakes'
  BY <1>15 DEF DeadlockVictim, Goto
<1>16. ASSUME NEW t \in Requests, Commit(t)
       PROVE  Supersedes' /\ Overtakes'
  BY <1>16 DEF Commit, Unlock
<1>17. ASSUME NEW t \in Requests, Rollback(t)
       PROVE  Supersedes' /\ Overtakes'
  BY <1>17 DEF Rollback, Unlock
<1>. HIDE DEF Supersedes, Overtakes
<1>. QED
  BY <1>1, <1>2, <1>3, <1>4, <1>5, <1>6, <1>7, <1>8, <1>9, <1>10, <1>11, <1>12, <1>13,
     <1>14, <1>15, <1>16, <1>17 DEF Next, Serve

\* Every step that switches a policy off is the commit of an activation.
LEMMA TakeoverAction ==
    ASSUME IInv, Supersedes, Overtakes, [Next]_vars, NEW p \in Policies,
           Active(policy[p]), policy'[p] # None, ~Active(policy'[p])
    PROVE  \/ \E q \in Policies : Active(policy'[q])
           \/ \E t \in Requests : txn[t] # None /\ txn[t].kind = "activate"
                                    /\ txn[t].row # None /\ txn[t].row.active
<1>1. policy' # policy
  OBVIOUS
<1>2. PICK t \in Requests : Commit(t)
  BY <1>1 DEF Next, Serve, vars, CatalogChanges, Begin, LoadCreate, Load, Resolve, Target,
     Deactivate, SetActive, Index, Insert, Update, Recheck, Delete, DeadlockVictim, Rollback
<1>3. \A q \in Policies : policy'[q] = Seen(t, q)
  BY <1>2 DEF Commit
<1>4. lock[p] = t /\ new[p] # None /\ ~Active(new[p])
  BY <1>3 DEF Seen
<1>5. On(t, "activate", "commit")
  BY <1>2, <1>4 DEF Commit, Supersedes, On, At
<1>6. txn[t].p \in Policies /\ txn[t].row # None
  BY <1>5 DEF On, At, IInv, TypeOK, Txn, Reads
<1>7. CASE txn[t].row.active
  BY <1>5, <1>6, <1>7 DEF On, At
<1>8. CASE ~txn[t].row.active
  BY <1>3, <1>5, <1>6, <1>8 DEF Overtakes, Seen
<1>. QED  BY <1>7, <1>8

\* A project passes from one active policy to the next in one step: nobody sees it
\* without one, but for the activations that had read a policy that is overtaken.
THEOREM TakeoverCorrect == Spec => TakeoverComplete
<1>1. Init => Supersedes /\ Overtakes
  BY DEF Init, Supersedes, Overtakes, On, At, Active
<1>2. IInv /\ Supersedes /\ Overtakes /\ [Next]_vars => Supersedes' /\ Overtakes'
  BY TakeoverStep
<1>3. IInv /\ Supersedes /\ Overtakes /\ [Next]_vars =>
        [\A p \in Policies :
           Active(policy[p]) /\ policy'[p] # None /\ ~Active(policy'[p]) =>
             \/ \E q \in Policies : Active(policy'[q])
             \/ \E t \in Requests : txn[t] # None /\ txn[t].kind = "activate"
                                      /\ txn[t].row # None /\ txn[t].row.active]_vars
  BY TakeoverAction
<1>. QED  BY <1>1, <1>2, <1>3, Invariant, PTL DEF Spec, TakeoverComplete

-----------------------------------------------------------------------------
(* Prompts and their versions                                              *)

\* Nobody has asked for anything before the prompt is there, and a prompt that is not
\* there has nothing.
Absent ==
    /\ prompt = "none" => \A r \in Editors : edit[r] = NoEdit
    /\ prompt # "there" => history = {} /\ refs = {}

Counted ==
    /\ \E n \in 0..MaxVersions : Numbers = 1..n
    /\ \A v, w \in history : v.number = w.number => v = w

\* The steps that each kind of request takes, and what it names.
ShapedFor(r) ==
    /\ edit[r].step = "require" => edit[r].kind # "record"
    /\ edit[r].step \in {"source", "compare"} => edit[r].kind = "rollback"
    /\ edit[r].step = "number" => Adds(r)
    /\ edit[r].step \in {"load", "versions", "prompt"} => edit[r].kind = "delete"
    /\ edit[r].kind = "append" => edit[r].of = 0
    /\ edit[r].kind = "record" => edit[r].of \in 1..MaxVersions

Shaped == \A r \in Editors : ShapedFor(r)

ReadyFor(r) ==
    prompt = "there" =>
        /\ Adds(r) /\ edit[r].step \in {"insert", "commit"}
             => edit[r].number > 0 /\ 1..(edit[r].number - 1) \subseteq Numbers
        /\ edit[r].step = "compare" => edit[r].of \in Numbers
        /\ edit[r].kind = "rollback" =>
             /\ edit[r].step = "number" => edit[r].of + 1 \in Numbers
             /\ edit[r].step \in {"insert", "commit"} => edit[r].of + 1 < edit[r].number

Ready == \A r \in Editors : ReadyFor(r)

Held ==
    /\ \A r \in Editors : Inserted(r) => prompt = "there" /\ edit[r].number \notin Numbers
    /\ \A q, r \in Editors : Inserted(q) /\ Inserted(r) => q = r
    /\ \A q, r \in Editors, n \in 1..MaxVersions :
         Refers(r, n) => n \in Numbers /\ ~HoldsVersion(q, n)
    /\ \A q, r \in Editors : Drops(r) => ~Inserted(q) /\ (Drops(q) => q = r)
    /\ \A r \in Editors : Drops(r) => refs = {}
    /\ \A r \in Editors : edit[r].step = "prompt" => edit[r].loaded \cap refs = {}

PromptIInv == PromptTypeOK /\ Absent /\ Counted /\ Shaped /\ Ready /\ Held
          /\ RollbackReverts /\ ReferencesStay

USE VersionsAssumption

-----------------------------------------------------------------------------
(* What the number read is *)

LEMMA LatestIs ==
    ASSUME NEW n \in Nat, Numbers = 1..n
    PROVE  Latest = n
<1>. DEFINE S == Numbers \cup {0}
<1>1. S = 0..n
  OBVIOUS
<1>. HIDE DEF S
<1>2. n \in S /\ \A y \in S : n >= y
  BY <1>1
<1>3. \A x \in S : (\A y \in S : x >= y) => x = n
  BY <1>1, <1>2
<1>4. Max(S) = n
  BY <1>2, <1>3 DEF Max
<1>. QED  BY <1>4 DEF Latest, S

LEMMA NextNumber ==
    ASSUME NEW n \in Nat, NEW k \in Nat, k > 0, k \notin 1..n, 1..(k - 1) \subseteq 1..n
    PROVE  k = n + 1
OBVIOUS

LEMMA NumbersType ==
    ASSUME PromptTypeOK
    PROVE  Numbers \subseteq 1..MaxVersions
BY DEF PromptTypeOK, Version, Numbers

-----------------------------------------------------------------------------
(* Steps of one request *)

LEMMA Moves ==
    ASSUME PromptTypeOK, NEW r \in Editors, NEW s \in EditSteps, Step(r, s)
    PROVE  /\ edit' \in [Editors -> Edit]
           /\ edit'[r] = [edit[r] EXCEPT !.step = s]
           /\ \A q \in Peers(r) : edit'[q] = edit[q]
<1>1. edit[r] \in Edit
  BY DEF PromptTypeOK
<1>2. [edit[r] EXCEPT !.step = s] \in Edit
  BY <1>1 DEF Edit
<1>. QED  BY <1>2 DEF Step, PromptTypeOK, Peers

LEMMA Refused ==
    ASSUME PromptTypeOK, NEW r \in Editors, Refuse(r)
    PROVE  /\ edit' \in [Editors -> Edit]
           /\ edit'[r] = NoEdit
           /\ \A q \in Peers(r) : edit'[q] = edit[q]
<1>1. NoEdit \in Edit
  BY DEF NoEdit, Edit, EditKinds, EditSteps
<1>. QED  BY <1>1 DEF Refuse, PromptTypeOK, Peers

\* A request that moves on without taking a lock.
LEMMA MoveKeeps ==
    ASSUME PromptIInv, NEW r \in Editors, UNCHANGED <<prompt, history, refs>>,
           edit' \in [Editors -> Edit], \A q \in Peers(r) : edit'[q] = edit[q],
           prompt # "none", ShapedFor(r)', ReadyFor(r)',
           edit'[r].step \notin {"prompt", "commit"}
    PROVE  PromptIInv'
<1>1. Numbers' = Numbers
  BY DEF Numbers
<1>2. PromptTypeOK'
  BY DEF PromptIInv, PromptTypeOK
<1>3. Absent'
  BY DEF PromptIInv, Absent
<1>4. Counted'
  BY <1>1 DEF PromptIInv, Counted
<1>5. Shaped'
  BY DEF PromptIInv, Shaped, ShapedFor, Peers, Adds
<1>6. Ready'
  BY <1>1 DEF PromptIInv, Ready, ReadyFor, Peers, Adds
<1>7. Held'
  BY <1>1 DEF PromptIInv, Held, Inserted, Adds, Refers, Drops, HoldsVersion, Peers
<1>8. RollbackReverts' /\ ReferencesStay'
  BY <1>1 DEF PromptIInv, RollbackReverts, ReferencesStay
<1>. QED  BY <1>2, <1>3, <1>4, <1>5, <1>6, <1>7, <1>8 DEF PromptIInv

LEMMA RefuseKeeps ==
    ASSUME PromptIInv, NEW r \in Editors, Refuse(r), UNCHANGED <<prompt, history, refs>>,
           prompt # "none"
    PROVE  PromptIInv'
<1>1. /\ edit' \in [Editors -> Edit]
      /\ edit'[r] = NoEdit
      /\ \A q \in Peers(r) : edit'[q] = edit[q]
  BY Refused DEF PromptIInv
<1>2. ShapedFor(r)' /\ ReadyFor(r)' /\ edit'[r].step = "idle"
  BY <1>1 DEF ShapedFor, ReadyFor, NoEdit, Adds
<1>. QED  BY <1>1, <1>2, MoveKeeps

\* Only a request that has begun takes a step, and none has before the prompt is there.
LEMMA Begun ==
    ASSUME PromptIInv, NEW r \in Editors, edit[r].step # "idle"
    PROVE  prompt # "none"
BY DEF PromptIInv, Absent, NoEdit

-----------------------------------------------------------------------------
(* Steps that take no lock *)

LEMMA AskKeeps ==
    ASSUME PromptIInv, NEW r \in Editors, NEW k \in EditKinds, NEW n \in 0..MaxVersions,
           Ask(r, k, n)
    PROVE  PromptIInv'
<1>. DEFINE s == IF k = "record" THEN "insert" ELSE "require"
            e == [kind |-> k, step |-> s, of |-> n, number |-> 0, loaded |-> {}]
<1>0. s \in {"insert", "require"} /\ (s = "insert" <=> k = "record")
  OBVIOUS
<1>9. edit' = [edit EXCEPT ![r] = e]
  BY DEF Ask
<1>. HIDE DEF s
<1>1. e \in Edit
  BY <1>0 DEF Edit, EditSteps
<1>2. /\ edit' \in [Editors -> Edit] /\ edit'[r] = e
      /\ \A q \in Peers(r) : edit'[q] = edit[q]
  BY <1>9, <1>1 DEF PromptIInv, PromptTypeOK, Peers
<1>3. k = "append" => n = 0
  BY DEF Ask
<1>4. k = "record" => n \in 1..MaxVersions
  BY NumbersType DEF Ask, PromptIInv
<1>5. e.step \in {"insert", "require"} /\ e.kind = k /\ e.of = n
        /\ (e.step = "insert" <=> k = "record")
  BY <1>0
<1>6. ShapedFor(r)' /\ ReadyFor(r)'
  BY <1>2, <1>3, <1>4, <1>5 DEF ShapedFor, ReadyFor, Adds
<1>. QED  BY <1>2, <1>5, <1>6, MoveKeeps DEF Ask

LEMMA RequireKeeps ==
    ASSUME PromptIInv, NEW r \in Editors, Require(r)
    PROVE  PromptIInv'
<1>. DEFINE s == CASE edit[r].kind = "append" -> "number"
                   [] edit[r].kind = "rollback" -> "source"
                   [] OTHER -> "load"
<1>1. CASE Refuse(r)
  BY <1>1, Begun, RefuseKeeps DEF Require
<1>2. CASE Step(r, s)
  <2>1. s \in EditSteps
    BY DEF EditSteps
  <2>2. /\ edit' \in [Editors -> Edit] /\ edit'[r] = [edit[r] EXCEPT !.step = s]
        /\ \A q \in Peers(r) : edit'[q] = edit[q]
    BY <1>2, <2>1, Moves DEF PromptIInv
  <2>3. edit[r] \in Edit
    BY DEF PromptIInv, PromptTypeOK
  <2>4. edit[r].kind # "record" /\ edit[r].step = "require"
    BY DEF PromptIInv, Shaped, ShapedFor, Require
  <2>5. ShapedFor(r)' /\ ReadyFor(r)'
    BY <2>2, <2>3, <2>4 DEF ShapedFor, ReadyFor, Adds, PromptIInv, Shaped, Edit, EditKinds
  <2>. QED  BY <2>2, <2>5, <2>3, MoveKeeps, Begun DEF Require, Edit
<1>. QED  BY <1>1, <1>2 DEF Require

LEMMA FindSourceKeeps ==
    ASSUME PromptIInv, NEW r \in Editors, FindSource(r)
    PROVE  PromptIInv'
<1>1. CASE Refuse(r)
  BY <1>1, Begun, RefuseKeeps DEF FindSource
<1>2. CASE edit[r].of \in Numbers /\ Step(r, "compare")
  <2>1. /\ edit' \in [Editors -> Edit] /\ edit'[r] = [edit[r] EXCEPT !.step = "compare"]
        /\ \A q \in Peers(r) : edit'[q] = edit[q]
    BY <1>2, Moves DEF PromptIInv, EditSteps
  <2>2. edit[r] \in Edit /\ Numbers' = Numbers
    BY DEF PromptIInv, PromptTypeOK, FindSource, Numbers
  <2>3. ShapedFor(r)' /\ ReadyFor(r)'
    BY <1>2, <2>1, <2>2 DEF FindSource, ShapedFor, ReadyFor, Adds, PromptIInv, Shaped, Edit
  <2>. QED  BY <2>1, <2>2, <2>3, MoveKeeps, Begun DEF FindSource, Edit
<1>. QED  BY <1>1, <1>2 DEF FindSource

LEMMA CompareKeeps ==
    ASSUME PromptIInv, NEW r \in Editors, Compare(r)
    PROVE  PromptIInv'
<1>1. CASE Refuse(r)
  BY <1>1, Begun, RefuseKeeps DEF Compare
<1>2. CASE edit[r].of # Latest /\ Step(r, "number")
  <2>1. /\ edit' \in [Editors -> Edit] /\ edit'[r] = [edit[r] EXCEPT !.step = "number"]
        /\ \A q \in Peers(r) : edit'[q] = edit[q]
    BY <1>2, Moves DEF PromptIInv, EditSteps
  <2>2. edit[r] \in Edit /\ Numbers' = Numbers
    BY DEF PromptIInv, PromptTypeOK, Compare, Numbers
  <2>3. PICK n \in 0..MaxVersions : Numbers = 1..n
    BY DEF PromptIInv, Counted
  <2>4. Latest = n
    BY <2>3, LatestIs
  <2>5. prompt = "there" => edit[r].of + 1 \in Numbers
    BY <1>2, <2>3, <2>4 DEF Compare, PromptIInv, Ready, ReadyFor
  <2>6. ShapedFor(r)'
    BY <2>1, <2>2 DEF Compare, ShapedFor, Adds, PromptIInv, Shaped, Edit
  <2>7. ReadyFor(r)'
    BY <2>1, <2>2, <2>5 DEF Compare, ReadyFor, Adds, Edit
  <2>. QED  BY <2>1, <2>2, <2>6, <2>7, MoveKeeps, Begun DEF Compare, Edit
<1>. QED  BY <1>1, <1>2 DEF Compare

LEMMA ReadNumberKeeps ==
    ASSUME PromptIInv, NEW r \in Editors, ReadNumber(r)
    PROVE  PromptIInv'
<1>. DEFINE e == [edit[r] EXCEPT !.number = Latest + 1, !.step = "insert"]
<1>1. PICK n \in 0..MaxVersions : Numbers = 1..n
  BY DEF PromptIInv, Counted
<1>2. Latest = n
  BY <1>1, LatestIs
<1>3. edit[r] \in Edit /\ Numbers' = Numbers
  BY DEF PromptIInv, PromptTypeOK, ReadNumber, Numbers
<1>4. e.kind = edit[r].kind /\ e.of = edit[r].of /\ e.number = n + 1 /\ e.step = "insert"
  BY <1>2, <1>3 DEF Edit
<1>5. e \in Edit
  <2>1. n + 1 \in 0..MaxVersions /\ "insert" \in EditSteps
    BY <1>2 DEF ReadNumber, EditSteps
  <2>. QED  BY <2>1, <1>2, <1>3 DEF Edit
<1>6. /\ edit' \in [Editors -> Edit] /\ edit'[r] = e
      /\ \A q \in Peers(r) : edit'[q] = edit[q]
  BY <1>5 DEF ReadNumber, PromptIInv, PromptTypeOK, Peers
<1>7. ShapedFor(r)'
  BY <1>4, <1>6 DEF ReadNumber, ShapedFor, Adds, PromptIInv, Shaped
<1>. HIDE DEF e
<1>8. ReadyFor(r)'
  <2>1. 1..(e.number - 1) = Numbers /\ e.number > 0
    BY <1>1, <1>4
  <2>2. e.of \in Nat
    BY <1>3, <1>4 DEF Edit
  <2>3. ASSUME prompt = "there", e.kind = "rollback"
        PROVE  e.of + 1 < e.number
    <3>1. edit[r].of + 1 \in 1..n
      BY <1>1, <1>4, <2>3 DEF ReadNumber, PromptIInv, Ready, ReadyFor
    <3>. QED  BY <3>1, <1>4, <2>2
  <2>. QED  BY <2>1, <2>3, <1>3, <1>4, <1>6 DEF ReadNumber, ReadyFor, Adds
<1>. QED  BY <1>4, <1>6, <1>7, <1>8, MoveKeeps, Begun DEF ReadNumber

LEMMA LoadVersionsKeeps ==
    ASSUME PromptIInv, NEW r \in Editors, LoadVersions(r)
    PROVE  PromptIInv'
<1>. DEFINE e == [edit[r] EXCEPT !.loaded = Numbers, !.step = "versions"]
<1>1. edit[r] \in Edit /\ edit[r].kind = "delete"
  BY DEF PromptIInv, PromptTypeOK, LoadVersions, Shaped, ShapedFor
<1>2. e \in Edit /\ e.kind = "delete" /\ e.step = "versions"
  BY <1>1, NumbersType DEF Edit, EditSteps, PromptIInv
<1>3. /\ edit' \in [Editors -> Edit] /\ edit'[r] = e
      /\ \A q \in Peers(r) : edit'[q] = edit[q]
  BY <1>2 DEF LoadVersions, PromptIInv, PromptTypeOK, Peers
<1>4. ShapedFor(r)' /\ ReadyFor(r)'
  BY <1>2, <1>3 DEF ShapedFor, ReadyFor, Adds
<1>. QED  BY <1>2, <1>3, <1>4, MoveKeeps, Begun DEF LoadVersions

-----------------------------------------------------------------------------
(* Steps that take locks *)

LEMMA InsertKeeps ==
    ASSUME PromptIInv, NEW r \in Editors, InsertVersion(r)
    PROVE  PromptIInv'
<1>1. CASE Refuse(r)
  BY <1>1, Begun, RefuseKeeps DEF InsertVersion
<1>2. CASE prompt = "there" /\ edit[r].number \notin Numbers /\ Step(r, "commit")
  <2>1. /\ edit' \in [Editors -> Edit] /\ edit'[r] = [edit[r] EXCEPT !.step = "commit"]
        /\ \A q \in Peers(r) : edit'[q] = edit[q]
    BY <1>2, Moves DEF PromptIInv, EditSteps
  <2>2. edit[r] \in Edit /\ Numbers' = Numbers /\ UNCHANGED <<prompt, history, refs>>
    BY DEF PromptIInv, PromptTypeOK, InsertVersion, Numbers
  <2>3. /\ edit'[r].step = "commit" /\ edit'[r].kind = edit[r].kind
        /\ edit'[r].number = edit[r].number /\ edit'[r].of = edit[r].of
    BY <2>1, <2>2 DEF Edit
  <2>4. edit[r].number > 0 /\ 1..(edit[r].number - 1) \subseteq Numbers
    BY <1>2 DEF InsertVersion, PromptIInv, Ready, ReadyFor
  <2>11. edit[r].kind \in {"append", "rollback"} /\ edit[r].step = "insert"
    BY DEF InsertVersion, Adds
  <2>12. edit'[r].kind \in {"append", "rollback"} /\ \A q \in Peers(r) : edit'[q] = edit[q]
    BY <2>1, <2>3, <2>11
  \* Whoever has inserted a version has inserted the one after the latest, too.
  <2>5. \A q \in Peers(r) : ~Inserted(q)
    <3>1. SUFFICES ASSUME NEW q \in Peers(r), Inserted(q)
                   PROVE  edit[q].number = edit[r].number
      BY DEF InsertVersion
    <3>2. edit[q].number \notin Numbers /\ edit[q].number > 0 /\ edit[q].number \in Nat
          /\ 1..(edit[q].number - 1) \subseteq Numbers
      BY <1>2, <3>1 DEF Peers, PromptIInv, Held, Ready, ReadyFor, Inserted, PromptTypeOK, Edit
    <3>3. PICK n \in 0..MaxVersions : Numbers = 1..n
      BY DEF PromptIInv, Counted
    <3>4. edit[r].number \in Nat
      BY <2>2 DEF Edit
    <3>. QED  BY <1>2, <2>4, <3>2, <3>3, <3>4, NextNumber
  <2>6. \A q \in Peers(r) : ~Drops(q)
    BY DEF InsertVersion
  <2>7. PromptTypeOK' /\ Absent' /\ Counted' /\ RollbackReverts' /\ ReferencesStay'
    BY <1>2, <2>1, <2>2
       DEF PromptIInv, PromptTypeOK, Absent, Counted, RollbackReverts, ReferencesStay
  <2>8. Shaped'
    BY <2>3, <2>11, <2>12 DEF PromptIInv, Shaped, ShapedFor, Adds, Peers
  <2>9. Ready'
    BY <2>1, <2>2, <2>3, <2>4, <2>11 DEF PromptIInv, Ready, ReadyFor, Adds, Peers
  <2>10. Held'
    <3>1. \A q \in Editors : Inserted(q)' <=> q = r
      BY <2>3, <2>5, <2>11, <2>12 DEF Inserted, Adds, Peers
    <3>2. \A q \in Editors : ~Drops(q)'
      BY <2>3, <2>6, <2>12 DEF Drops, Peers
    <3>3. \A q \in Editors, n \in 1..MaxVersions :
            /\ Refers(q, n)' => Refers(q, n)
            /\ HoldsVersion(q, n)' => HoldsVersion(q, n)
      BY <2>3, <2>12 DEF Refers, HoldsVersion, Drops, Peers
    <3>4. \A q \in Editors : edit'[q].step = "prompt" => edit[q].step = "prompt" /\ edit'[q] = edit[q]
      BY <2>1, <2>3 DEF Peers
    <3>. QED  BY <1>2, <2>2, <2>3, <3>1, <3>2, <3>3, <3>4 DEF PromptIInv, Held
  <2>. QED  BY <2>7, <2>8, <2>9, <2>10 DEF PromptIInv
<1>. QED  BY <1>1, <1>2 DEF InsertVersion

LEMMA RecordKeeps ==
    ASSUME PromptIInv, NEW r \in Editors, Record(r)
    PROVE  PromptIInv'
<1>1. CASE Refuse(r)
  BY <1>1, Begun, RefuseKeeps DEF Record
<1>2. CASE edit[r].of \in Numbers /\ Step(r, "commit")
  <2>1. /\ edit' \in [Editors -> Edit] /\ edit'[r] = [edit[r] EXCEPT !.step = "commit"]
        /\ \A q \in Peers(r) : edit'[q] = edit[q]
    BY <1>2, Moves DEF PromptIInv, EditSteps
  <2>2. edit[r] \in Edit /\ Numbers' = Numbers /\ UNCHANGED <<prompt, history, refs>>
    BY DEF PromptIInv, PromptTypeOK, Record, Numbers
  <2>3. /\ edit'[r].step = "commit" /\ edit'[r].kind = "record" /\ edit[r].kind = "record"
        /\ edit'[r].of = edit[r].of /\ edit[r].step = "insert"
    BY <2>1, <2>2 DEF Edit, Record
  <2>4. PromptTypeOK' /\ Absent' /\ Counted' /\ RollbackReverts' /\ ReferencesStay'
    BY <1>2, <2>1, <2>2, Begun
       DEF PromptIInv, PromptTypeOK, Absent, Counted, RollbackReverts, ReferencesStay, Record
  <2>5. Shaped'
    BY <2>1, <2>3 DEF PromptIInv, Shaped, ShapedFor, Adds, Peers
  <2>6. Ready'
    BY <2>1, <2>2, <2>3 DEF PromptIInv, Ready, ReadyFor, Adds, Peers
  <2>7. Held'
    <3>1. \A q \in Editors : /\ Inserted(q)' => Inserted(q) /\ edit'[q] = edit[q]
                             /\ Drops(q)' => Drops(q)
                             /\ edit'[q].step = "prompt" => edit[q].step = "prompt" /\ edit'[q] = edit[q]
      BY <2>1, <2>3 DEF Inserted, Drops, Adds, Peers
    <3>2. \A q \in Editors, n \in 1..MaxVersions :
            /\ HoldsVersion(q, n)' => HoldsVersion(q, n) /\ q # r
            /\ Refers(q, n)' => Refers(q, n) \/ (q = r /\ n = edit[r].of)
      BY <2>1, <2>3 DEF Refers, HoldsVersion, Drops, Peers
    <3>3. \A q \in Peers(r) : ~HoldsVersion(q, edit[r].of)
      BY DEF Record
    <3>. QED  BY <1>2, <2>2, <3>1, <3>2, <3>3 DEF PromptIInv, Held, Peers
  <2>. QED  BY <2>4, <2>5, <2>6, <2>7 DEF PromptIInv
<1>. QED  BY <1>1, <1>2 DEF Record

LEMMA DropVersionsKeeps ==
    ASSUME PromptIInv, NEW r \in Editors, DropVersions(r)
    PROVE  PromptIInv'
<1>1. CASE Refuse(r)
  BY <1>1, Begun, RefuseKeeps DEF DropVersions
<1>2. CASE edit[r].loaded \cap refs = {} /\ Step(r, "prompt")
  <2>1. /\ edit' \in [Editors -> Edit] /\ edit'[r] = [edit[r] EXCEPT !.step = "prompt"]
        /\ \A q \in Peers(r) : edit'[q] = edit[q]
    BY <1>2, Moves DEF PromptIInv, EditSteps
  <2>2. edit[r] \in Edit /\ Numbers' = Numbers /\ UNCHANGED <<prompt, history, refs>>
    BY DEF PromptIInv, PromptTypeOK, DropVersions, Numbers
  <2>3. edit[r].kind = "delete" /\ edit[r].step = "versions"
    BY DEF DropVersions, PromptIInv, Shaped, ShapedFor
  <2>4. /\ edit'[r].step = "prompt" /\ edit'[r].kind = "delete"
        /\ edit'[r].loaded = edit[r].loaded
    BY <2>1, <2>2, <2>3 DEF Edit
  <2>5. PromptTypeOK' /\ Absent' /\ Counted' /\ RollbackReverts' /\ ReferencesStay'
    BY <1>2, <2>1, <2>2, Begun
       DEF PromptIInv, PromptTypeOK, Absent, Counted, RollbackReverts, ReferencesStay, DropVersions
  <2>6. Shaped'
    BY <2>1, <2>4 DEF PromptIInv, Shaped, ShapedFor, Adds, Peers
  <2>7. Ready'
    BY <2>1, <2>2, <2>4 DEF PromptIInv, Ready, ReadyFor, Adds, Peers
  <2>8. Held'
    <3>1. \A q \in Editors : /\ Inserted(q)' => Inserted(q) /\ edit'[q] = edit[q]
                             /\ Drops(q)' => Drops(q)
                             /\ q # r => edit'[q] = edit[q]
      BY <2>1, <2>4 DEF Inserted, Drops, Adds, Peers
    <3>2. \A q \in Editors, n \in 1..MaxVersions :
            /\ Refers(q, n)' => Refers(q, n) /\ q # r
            /\ HoldsVersion(q, n)' => HoldsVersion(q, n) \/ (q = r /\ n \in edit[r].loaded)
      BY <2>1, <2>4 DEF Refers, HoldsVersion, Drops, Peers
    <3>3. \A q \in Peers(r), n \in edit[r].loaded : ~Refers(q, n)
      BY DEF DropVersions, Deletable
    <3>4. edit'[r].loaded \cap refs = {}
      BY <1>2, <2>4
    <3>. QED  BY <2>2, <3>1, <3>2, <3>3, <3>4 DEF PromptIInv, Held, Peers
  <2>. QED  BY <2>5, <2>6, <2>7, <2>8 DEF PromptIInv
<1>. QED  BY <1>1, <1>2 DEF DropVersions

LEMMA DropPromptKeeps ==
    ASSUME PromptIInv, NEW r \in Editors, DropPrompt(r)
    PROVE  PromptIInv'
<1>. DEFINE since == Numbers \ edit[r].loaded
<1>1. CASE Refuse(r)
  BY <1>1, Begun, RefuseKeeps DEF DropPrompt
<1>2. CASE since \cap refs = {} /\ Step(r, "commit")
  <2>1. /\ edit' \in [Editors -> Edit] /\ edit'[r] = [edit[r] EXCEPT !.step = "commit"]
        /\ \A q \in Peers(r) : edit'[q] = edit[q]
    BY <1>2, Moves DEF PromptIInv, EditSteps
  <2>2. edit[r] \in Edit /\ Numbers' = Numbers /\ UNCHANGED <<prompt, history, refs>>
    BY DEF PromptIInv, PromptTypeOK, DropPrompt, Numbers
  <2>3. edit[r].kind = "delete" /\ edit[r].step = "prompt"
    BY DEF DropPrompt, PromptIInv, Shaped, ShapedFor
  <2>4. edit'[r].step = "commit" /\ edit'[r].kind = "delete"
    BY <2>1, <2>2, <2>3 DEF Edit
  <2>5. PromptTypeOK' /\ Absent' /\ Counted' /\ RollbackReverts' /\ ReferencesStay'
    BY <1>2, <2>1, <2>2, Begun
       DEF PromptIInv, PromptTypeOK, Absent, Counted, RollbackReverts, ReferencesStay, DropPrompt
  <2>6. Shaped'
    BY <2>1, <2>4 DEF PromptIInv, Shaped, ShapedFor, Adds, Peers
  <2>7. Ready'
    BY <2>1, <2>2, <2>4 DEF PromptIInv, Ready, ReadyFor, Adds, Peers
  \* What it has loaded nobody refers to, nor to what came since.
  <2>8. refs = {}
    BY <1>2, <2>3 DEF PromptIInv, Held, ReferencesStay
  <2>9. \A q \in Peers(r), n \in 1..MaxVersions : ~Refers(q, n)
    <3>1. SUFFICES ASSUME NEW q \in Peers(r), NEW n \in 1..MaxVersions, Refers(q, n)
                   PROVE  FALSE
      OBVIOUS
    <3>2. n \in Numbers /\ ~HoldsVersion(r, n)
      BY <3>1 DEF PromptIInv, Held, Peers
    <3>3. n \in since
      BY <2>3, <3>2 DEF HoldsVersion
    <3>. QED  BY <3>1, <3>3 DEF DropPrompt, Deletable
  <2>10. Held'
    <3>1. \A q \in Peers(r) : ~Inserted(q) /\ ~Drops(q)
      BY DEF DropPrompt
    <3>2. \A q \in Editors : /\ ~Inserted(q)'
                             /\ Drops(q)' <=> q = r
                             /\ edit'[q].step = "prompt" => edit'[q] = edit[q]
      BY <2>1, <2>4, <3>1 DEF Inserted, Drops, Adds, Peers
    <3>3. \A q \in Editors, n \in 1..MaxVersions : ~Refers(q, n)'
      <4>1. \A n \in 1..MaxVersions : ~Refers(r, n)'
        BY <2>4 DEF Refers
      <4>2. \A q \in Peers(r), n \in 1..MaxVersions : ~Refers(q, n)'
        BY <2>1, <2>9 DEF Refers
      <4>. QED  BY <4>1, <4>2 DEF Peers
    <3>. QED  BY <2>2, <2>8, <3>2, <3>3 DEF PromptIInv, Held
  <2>. QED  BY <2>5, <2>6, <2>7, <2>10 DEF PromptIInv
<1>. QED  BY <1>1, <1>2 DEF DropPrompt

-----------------------------------------------------------------------------
(* Commits *)

LEMMA CommitVersionKeeps ==
    ASSUME PromptIInv, NEW r \in Editors, CommitVersion(r)
    PROVE  PromptIInv'
<1>. DEFINE k == edit[r].number
            v == [number |-> k, source |-> edit[r].of]
<1>1. /\ edit' \in [Editors -> Edit] /\ edit'[r] = NoEdit
      /\ \A q \in Peers(r) : edit'[q] = edit[q]
  BY Refused DEF CommitVersion, PromptIInv
<1>2. edit[r] \in Edit /\ UNCHANGED <<prompt, refs>> /\ history' = history \cup {v}
  BY DEF PromptIInv, PromptTypeOK, CommitVersion
<1>3. prompt = "there" /\ k \notin Numbers /\ k > 0 /\ k \in 0..MaxVersions
      /\ 1..(k - 1) \subseteq Numbers /\ edit[r].of \in 0..MaxVersions
  BY <1>2 DEF CommitVersion, PromptIInv, Held, Ready, ReadyFor, Inserted, Edit
<1>4. v \in Version /\ Numbers' = Numbers \cup {k}
  <2>1. v \in Version
    BY <1>3 DEF Version
  <2>2. v.number = k
    OBVIOUS
  <2>. HIDE DEF v
  <2>3. Numbers' = {w.number : w \in history \cup {v}}
    BY <1>2 DEF Numbers
  <2>. QED  BY <2>1, <2>2, <2>3 DEF Numbers
<1>5. PICK n \in 0..MaxVersions : Numbers = 1..n
  BY DEF PromptIInv, Counted
<1>6. k = n + 1
  <2>1. k \in Nat /\ n \in Nat /\ k > 0 /\ k \notin 1..n /\ 1..(k - 1) \subseteq 1..n
    BY <1>3, <1>5
  <2>. HIDE DEF k
  <2>. QED  BY <2>1, NextNumber
<1>7. PromptTypeOK'
  BY <1>1, <1>2, <1>4 DEF PromptIInv, PromptTypeOK
<1>8. Absent'
  BY <1>2, <1>3 DEF Absent
<1>9. Counted'
  <2>1. Numbers' = 1..k
    BY <1>4, <1>5, <1>6
  <2>2. \A w \in history : w.number # k
    BY <1>3 DEF Numbers
  <2>3. v.number = k
    OBVIOUS
  <2>4. \A w, x \in history' : w.number = x.number => w = x
    BY <1>2, <2>2, <2>3 DEF PromptIInv, Counted
  <2>. QED  BY <2>1, <2>4, <1>3 DEF Counted
<1>10. Shaped'
  BY <1>1 DEF PromptIInv, Shaped, ShapedFor, Adds, Peers, NoEdit
<1>11. Ready'
  BY <1>1, <1>2, <1>4 DEF PromptIInv, Ready, ReadyFor, Adds, Peers, NoEdit
<1>12. Held'
  <2>1. \A q \in Editors : /\ ~Inserted(q)'
                           /\ Drops(q)' => Drops(q)
                           /\ edit'[q].step = "prompt" => edit'[q] = edit[q]
    BY <1>1 DEF CommitVersion, PromptIInv, Held, Inserted, Drops, Adds, Peers, NoEdit
  <2>2. \A q \in Editors, m \in 1..MaxVersions :
          /\ HoldsVersion(q, m)' => HoldsVersion(q, m)
          /\ Refers(q, m)' => Refers(q, m)
    BY <1>1 DEF Refers, HoldsVersion, Drops, Peers, NoEdit
  <2>. QED  BY <1>2, <1>4, <2>1, <2>2 DEF PromptIInv, Held
\* A rollback is of a version before the one it saw as the latest.
<1>13. RollbackReverts'
  <2>1. edit[r].of # 0 => edit[r].of + 1 < k
    BY <1>3 DEF CommitVersion, PromptIInv, Ready, ReadyFor, Inserted, Adds, Shaped, ShapedFor
  <2>2. v.source = edit[r].of /\ v.number = k
    OBVIOUS
  <2>. QED  BY <1>2, <2>1, <2>2 DEF PromptIInv, RollbackReverts
<1>14. ReferencesStay'
  BY <1>2, <1>4 DEF PromptIInv, ReferencesStay
<1>. QED  BY <1>7, <1>8, <1>9, <1>10, <1>11, <1>12, <1>13, <1>14 DEF PromptIInv

LEMMA CommitRecordKeeps ==
    ASSUME PromptIInv, NEW r \in Editors, CommitRecord(r)
    PROVE  PromptIInv'
<1>. DEFINE k == edit[r].of
<1>1. /\ edit' \in [Editors -> Edit] /\ edit'[r] = NoEdit
      /\ \A q \in Peers(r) : edit'[q] = edit[q]
  BY Refused DEF CommitRecord, PromptIInv
<1>2. UNCHANGED <<prompt, history>> /\ refs' = refs \cup {k} /\ Numbers' = Numbers
  BY DEF CommitRecord, Numbers
<1>3. k \in 1..MaxVersions /\ Refers(r, k)
  BY DEF CommitRecord, Refers, PromptIInv, Shaped, ShapedFor
<1>4. k \in Numbers /\ \A q \in Editors : ~HoldsVersion(q, k)
  BY <1>3 DEF PromptIInv, Held
<1>5. prompt = "there"
  <2>1. history # {}
    BY <1>4 DEF Numbers
  <2>. QED  BY <2>1 DEF PromptIInv, Absent
<1>6. PromptTypeOK'
  BY <1>1, <1>2, <1>3 DEF PromptIInv, PromptTypeOK
<1>7. Absent' /\ Counted' /\ RollbackReverts' /\ ReferencesStay'
  BY <1>2, <1>4, <1>5 DEF PromptIInv, Absent, Counted, RollbackReverts, ReferencesStay
<1>8. Shaped'
  BY <1>1 DEF PromptIInv, Shaped, ShapedFor, Adds, Peers, NoEdit
<1>9. Ready'
  BY <1>1, <1>2 DEF PromptIInv, Ready, ReadyFor, Adds, Peers, NoEdit
<1>10. Held'
  <2>1. \A q \in Editors : /\ Inserted(q)' => Inserted(q) /\ edit'[q] = edit[q]
                           /\ Drops(q)' => Drops(q)
                           /\ edit'[q].step = "prompt" => edit'[q] = edit[q]
    BY <1>1 DEF Inserted, Drops, Adds, Peers, NoEdit
  <2>2. \A q \in Editors, m \in 1..MaxVersions :
          /\ HoldsVersion(q, m)' => HoldsVersion(q, m)
          /\ Refers(q, m)' => Refers(q, m)
    BY <1>1 DEF Refers, HoldsVersion, Drops, Peers, NoEdit
  <2>3. \A q \in Editors : ~Drops(q)
    BY <1>4 DEF HoldsVersion
  <2>4. \A q \in Editors : edit[q].step = "prompt" => k \notin edit[q].loaded
    BY <1>4 DEF HoldsVersion, PromptIInv, Shaped, ShapedFor
  <2>. QED  BY <1>2, <2>1, <2>2, <2>3, <2>4 DEF PromptIInv, Held
<1>. QED  BY <1>6, <1>7, <1>8, <1>9, <1>10 DEF PromptIInv

LEMMA CommitDeleteKeeps ==
    ASSUME PromptIInv, NEW r \in Editors, CommitDelete(r)
    PROVE  PromptIInv'
<1>1. /\ edit' \in [Editors -> Edit] /\ edit'[r] = NoEdit
      /\ \A q \in Peers(r) : edit'[q] = edit[q]
  BY Refused DEF CommitDelete, PromptIInv
<1>2. prompt' = "gone" /\ history' = {} /\ refs' = {}
  BY DEF CommitDelete, PromptIInv, Held
<1>3. Numbers' = {} /\ Numbers' = 1..0
  BY <1>2 DEF Numbers
<1>4. PromptTypeOK' /\ Absent' /\ Ready' /\ RollbackReverts' /\ ReferencesStay'
  BY <1>1, <1>2
     DEF PromptTypeOK, Absent, Ready, ReadyFor, RollbackReverts, ReferencesStay
<1>5. Counted'
  BY <1>2, <1>3 DEF Counted
<1>6. Shaped'
  BY <1>1 DEF PromptIInv, Shaped, ShapedFor, Adds, Peers, NoEdit
<1>7. Held'
  <2>1. \A q \in Editors : ~Inserted(q)' /\ ~Drops(q)'
    BY <1>1 DEF CommitDelete, PromptIInv, Held, Inserted, Drops, Adds, Peers, NoEdit
  <2>2. \A q \in Editors, n \in 1..MaxVersions : ~Refers(q, n)
    BY DEF CommitDelete, PromptIInv, Held, HoldsVersion
  <2>3. \A q \in Editors, n \in 1..MaxVersions : ~Refers(q, n)'
    BY <1>1, <2>2 DEF Refers, Peers, NoEdit
  <2>. QED  BY <1>2, <2>1, <2>3 DEF Held
<1>. QED  BY <1>4, <1>5, <1>6, <1>7 DEF PromptIInv

LEMMA CreateKeeps ==
    ASSUME PromptIInv, CreatePrompt
    PROVE  PromptIInv'
<1>. DEFINE v == [number |-> 1, source |-> 0]
<1>1. /\ prompt' = "there" /\ history' \in {{}, {v}} /\ refs' = {} /\ refs = {}
      /\ edit' = edit /\ \A r \in Editors : edit[r] = NoEdit
  BY DEF CreatePrompt, PromptIInv, Absent
<1>2. v \in Version
  BY DEF CreatePrompt, Version
<1>3. CASE history' = {}
  <2>1. Numbers' = 1..0
    BY <1>3 DEF Numbers
  <2>2. PromptTypeOK' /\ Absent' /\ RollbackReverts' /\ ReferencesStay'
    BY <1>1, <1>3 DEF PromptIInv, PromptTypeOK, Absent, RollbackReverts, ReferencesStay
  <2>3. Counted'
    BY <1>3, <2>1 DEF Counted
  <2>4. Shaped' /\ Ready' /\ Held'
    BY <1>1 DEF PromptIInv, Shaped, ShapedFor, Ready, ReadyFor, Held, Inserted, Drops, Refers,
                HoldsVersion, Adds, NoEdit
  <2>. QED  BY <2>2, <2>3, <2>4 DEF PromptIInv
<1>4. CASE history' = {v}
  <2>1. Numbers' = 1..1
    BY <1>4 DEF Numbers
  <2>2. PromptTypeOK' /\ Absent' /\ ReferencesStay'
    BY <1>1, <1>2, <1>4 DEF PromptIInv, PromptTypeOK, Absent, ReferencesStay
  <2>3. Counted' /\ RollbackReverts'
    BY <1>4, <2>1 DEF Counted, RollbackReverts, CreatePrompt
  <2>4. Shaped' /\ Ready' /\ Held'
    BY <1>1 DEF PromptIInv, Shaped, ShapedFor, Ready, ReadyFor, Held, Inserted, Drops, Refers,
                HoldsVersion, Adds, NoEdit
  <2>. QED  BY <2>2, <2>3, <2>4 DEF PromptIInv
<1>. QED  BY <1>1, <1>3, <1>4

LEMMA ExperimentKeeps ==
    ASSUME PromptIInv, DeleteExperiment
    PROVE  PromptIInv'
<1>1. refs' \subseteq refs /\ UNCHANGED <<prompt, history, edit>> /\ Numbers' = Numbers
  BY DEF DeleteExperiment, Numbers
<1>2. PromptTypeOK' /\ Absent' /\ Counted' /\ RollbackReverts' /\ ReferencesStay'
  BY <1>1 DEF PromptIInv, PromptTypeOK, Absent, Counted, RollbackReverts, ReferencesStay
<1>3. Shaped' /\ Ready'
  BY <1>1 DEF PromptIInv, Shaped, ShapedFor, Ready, ReadyFor, Adds
<1>4. Held'
  BY <1>1 DEF PromptIInv, Held, Inserted, Drops, Refers, HoldsVersion, Adds
<1>. QED  BY <1>2, <1>3, <1>4 DEF PromptIInv

-----------------------------------------------------------------------------
(* The inductive invariant *)

LEMMA InitHolds == PromptInit => PromptIInv
<1>. SUFFICES ASSUME PromptInit PROVE PromptIInv
  OBVIOUS
<1>1. Numbers = 1..0
  BY DEF PromptInit, Numbers
<1>2. NoEdit \in Edit
  BY DEF NoEdit, Edit, EditKinds, EditSteps
<1>3. \A r \in Editors : edit[r] = NoEdit
  BY DEF PromptInit
<1>4. PromptTypeOK /\ Absent /\ RollbackReverts /\ ReferencesStay
  BY <1>2, <1>3 DEF PromptInit, PromptTypeOK, Absent, RollbackReverts, ReferencesStay
<1>5. Counted
  BY <1>1 DEF PromptInit, Counted
<1>6. Shaped /\ Ready /\ Held
  BY <1>3 DEF Shaped, ShapedFor, Ready, ReadyFor, Held, Inserted, Drops, Refers,
              HoldsVersion, Adds, NoEdit
<1>. QED  BY <1>4, <1>5, <1>6 DEF PromptIInv

LEMMA NextKeeps == PromptIInv /\ [PromptNext]_promptVars => PromptIInv'
<1>. SUFFICES ASSUME PromptIInv, [PromptNext]_promptVars PROVE PromptIInv'
  OBVIOUS
<1>1. CASE CreatePrompt
  BY <1>1, CreateKeeps
<1>2. CASE DeleteExperiment
  BY <1>2, ExperimentKeeps
<1>3. ASSUME NEW r \in Editors, ServeEdit(r)
      PROVE  PromptIInv'
  <2>1. CASE Fail(r)
    BY <2>1, Begun, RefuseKeeps DEF Fail
  <2>. QED  BY <1>3, <2>1, RequireKeeps, FindSourceKeeps, CompareKeeps, ReadNumberKeeps,
               InsertKeeps, CommitVersionKeeps, LoadVersionsKeeps, DropVersionsKeeps,
               DropPromptKeeps, CommitDeleteKeeps, RecordKeeps, CommitRecordKeeps
            DEF ServeEdit
<1>4. ASSUME NEW r \in Editors, NEW k \in EditKinds, NEW n \in 0..MaxVersions, Ask(r, k, n)
      PROVE  PromptIInv'
  BY <1>4, AskKeeps
<1>5. CASE UNCHANGED promptVars
  <2>1. Numbers' = Numbers /\ UNCHANGED <<prompt, history, refs, edit>>
    BY <1>5 DEF promptVars, Numbers
  <2>2. PromptTypeOK' /\ Absent' /\ Counted' /\ RollbackReverts' /\ ReferencesStay'
    BY <2>1 DEF PromptIInv, PromptTypeOK, Absent, Counted, RollbackReverts, ReferencesStay
  <2>3. Shaped' /\ Ready'
    BY <2>1 DEF PromptIInv, Shaped, ShapedFor, Ready, ReadyFor, Adds
  <2>4. Held'
    BY <2>1 DEF PromptIInv, Held, Inserted, Drops, Refers, HoldsVersion, Adds
  <2>. QED  BY <2>2, <2>3, <2>4 DEF PromptIInv
<1>. QED  BY <1>1, <1>2, <1>3, <1>4, <1>5 DEF PromptNext

LEMMA Inductive == PromptSpec => []PromptIInv
BY InitHolds, NextKeeps, PTL DEF PromptSpec

-----------------------------------------------------------------------------
(* Theorems *)

\* The prompt, its history and its requests keep their shape.
THEOREM PromptTypeCorrect == PromptSpec => []PromptTypeOK
<1>1. PromptIInv => PromptTypeOK
  BY DEF PromptIInv
<1>. QED  BY <1>1, Inductive, PTL

\* However many requests append to a prompt at once, its versions are numbered from 1
\* without a gap, and no two alike.
THEOREM VersionsCountUpCorrect == PromptSpec => []VersionsCountUp
<1>1. PromptIInv => VersionsCountUp
  BY LatestIs DEF PromptIInv, Counted, VersionsCountUp
<1>. QED  BY <1>1, Inductive, PTL

\* A rollback copies a version that was not the latest one when it was appended.
THEOREM RollbackRevertsCorrect == PromptSpec => []RollbackReverts
<1>1. PromptIInv => RollbackReverts
  BY DEF PromptIInv
<1>. QED  BY <1>1, Inductive, PTL

\* No deletion of a prompt, whatever is appended or recorded beside it, leaves a run
\* that refers to a version that is gone.
THEOREM ReferencesStayCorrect == PromptSpec => []ReferencesStay
<1>1. PromptIInv => ReferencesStay
  BY DEF PromptIInv
<1>. QED  BY <1>1, Inductive, PTL
-----------------------------------------------------------------------------
(* The requests side by side                                               *)

\* A step of AdminApi is a step of the policies' requests or of the prompt's; what
\* is known of each half is kept by both.
AdminInv == IInv /\ Supersedes /\ Overtakes /\ PromptIInv

LEMMA AdminInitInv == AdminInit => AdminInv
<1>1. Init => Supersedes /\ Overtakes
  BY DEF Init, Supersedes, Overtakes, On, At, Active
<1>. QED  BY <1>1, InitIInv, InitHolds DEF AdminInit, AdminInv

LEMMA AdminStepOfHalves == [AdminNext]_apiVars => [Next]_vars /\ [PromptNext]_promptVars
BY DEF AdminNext, apiVars

LEMMA AdminStep == AdminInv /\ [AdminNext]_apiVars => AdminInv'
BY AdminStepOfHalves, StepIInv, TakeoverStep, NextKeeps DEF AdminInv

\* Whatever operators ask for at once, about the policies of a project or about a
\* prompt: at most one policy is active after every commit, versions count up without
\* a gap, a rollback reverts, no reference is left without its version.
THEOREM AdminRequestsCorrect ==
    AdminSpec => [](OneActive /\ VersionsCountUp /\ RollbackReverts /\ ReferencesStay)
<1>1. AdminInv => OneActive /\ VersionsCountUp /\ RollbackReverts /\ ReferencesStay
  BY LatestIs DEF AdminInv, IInv, PromptIInv, Counted, VersionsCountUp
<1>. QED  BY <1>1, AdminInitInv, AdminStep, PTL DEF AdminSpec

\* And a project passes from one active policy to the next in one step.
THEOREM AdminTakeoverCorrect == AdminSpec => TakeoverComplete
<1>1. AdminInv /\ [AdminNext]_apiVars =>
        [\A p \in Policies :
           Active(policy[p]) /\ policy'[p] # None /\ ~Active(policy'[p]) =>
             \/ \E q \in Policies : Active(policy'[q])
             \/ \E t \in Requests : txn[t] # None /\ txn[t].kind = "activate"
                                      /\ txn[t].row # None /\ txn[t].row.active]_vars
  BY AdminStepOfHalves, TakeoverAction DEF AdminInv
<1>. QED  BY <1>1, AdminInitInv, AdminStep, PTL DEF AdminSpec, TakeoverComplete
=============================================================================
