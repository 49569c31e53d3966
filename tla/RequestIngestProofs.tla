------------------------- MODULE RequestIngestProofs -------------------------
(***************************************************************************)
(* Theorems about RequestIngest, for every number of consumers, events,    *)
(* entries and failures.                                                   *)
(*                                                                         *)
(* The inductive invariant has two parts.  Holding says that what a        *)
(* consumer works on was taken out of the stream, by it alone.  Once says  *)
(* that an event has one row, and that whoever will announce it is the     *)
(* consumer that wrote that row.  Together they give the refinement of     *)
(* IngestPromise.  AckedIsStored needs a third part and, as in the code,   *)
(* that no process is shut down in order and that the database answers.    *)
(***************************************************************************)
EXTENDS RequestIngest, FiniteSetTheorems, TLAPS

Held(c) == consumer[c].rest \cup ({consumer[c].cur} \ {None})

Working(c) == consumer[c].step \in {"checking", "inserting", "acking", "publishing"}

Holding ==
    \A c \in Consumers :
        /\ (consumer[c].cur # None) <=> Working(c)
        /\ consumer[c].cur \notin consumer[c].rest
        /\ consumer[c].rest # {} => Working(c)
        /\ consumer[c].persisted => consumer[c].step \in {"acking", "publishing"}
        /\ \A e \in Held(c) : entry[e] \notin {"unsent", "new"}

Appended == \A e \in Entries : (event[e] = None) <=> (entry[e] = "unsent")

OneRow == \A r, s \in rows : r.event = s.event => r = s

\* The consumer that inserted the row of an event announces it, nobody else.
Announcer ==
    \A c \in Consumers : consumer[c].persisted =>
        /\ [event |-> Of(c), entry |-> consumer[c].cur] \in rows
        /\ deltas[Of(c)] = 0

Announced == \A v \in Events : deltas[v] \in {0, 1} /\ (deltas[v] = 1 => Stored(v))

PublishesOwn == \A c \in Consumers : consumer[c].step = "publishing" => consumer[c].persisted

IInv ==
    /\ TypeOK
    /\ Holding
    /\ Appended
    /\ OneConsumerPerEntry
    /\ OneRow
    /\ Announcer
    /\ Announced
    /\ PublishesOwn

-----------------------------------------------------------------------------
(* Types *)

USE IngestAssumption

LEMMA FaultType ==
    ASSUME faults \in 0..MaxFaults, NEW k \in AllFaults, Fault(k)
    PROVE  faults' \in 0..MaxFaults
BY DEF Fault

LEMMA BecomeType ==
    ASSUME consumer \in [Consumers -> Consumer], NEW c \in Consumers, NEW s \in Steps,
           Become(c, s)
    PROVE  consumer' \in [Consumers -> Consumer]
BY DEF Become, At, Consumer

LEMMA GotoType ==
    ASSUME consumer \in [Consumers -> Consumer], NEW c \in Consumers, NEW s \in Steps,
           Goto(c, s)
    PROVE  consumer' \in [Consumers -> Consumer]
BY DEF Goto, Consumer

LEMMA TakeType ==
    ASSUME consumer \in [Consumers -> Consumer], NEW c \in Consumers,
           NEW S \in SUBSET Entries, Take(c, S)
    PROVE  consumer' \in [Consumers -> Consumer]
BY DEF Take, Consumer, Steps

LEMMA AckedType ==
    ASSUME entry \in [Entries -> EntryStates], NEW e \in Entries, Acked(e)
    PROVE  entry' \in [Entries -> EntryStates]
BY DEF Acked, EntryStates

LEMMA HandedType == Handed \subseteq Entries
BY DEF Handed, New

LEMMA AdvanceType ==
    ASSUME consumer \in [Consumers -> Consumer], NEW c \in Consumers, Advance(c)
    PROVE  consumer' \in [Consumers -> Consumer]
<1>1. CASE consumer[c].rest = {}
  BY <1>1, BecomeType DEF Advance, Steps
<1>2. CASE consumer[c].rest # {}
  <2>1. consumer[c].rest \in SUBSET Entries
    BY DEF Consumer
  <2>. QED  BY <1>2, <2>1, TakeType DEF Advance
<1>. QED  BY <1>1, <1>2

\* A step leaves every variable in its type.
LEMMA TypeStep ==
    ASSUME TypeOK, Holding, Appended, PublishesOwn, [Next]_vars
    PROVE  TypeOK'
<1>. USE DEF TypeOK
<1>1. CASE UNCHANGED vars
  BY <1>1 DEF vars
<1>2. ASSUME NEW e \in Entries, NEW v \in Events, Emit(e, v)
      PROVE  TypeOK'
  BY <1>2 DEF Emit, EntryStates
<1>3. CASE Evict
  <2>1. faults' \in 0..MaxFaults
    BY <1>3, FaultType DEF Evict, AllFaults
  <2>. QED  BY <1>3, <2>1 DEF Evict, EntryStates
<1>4. CASE RevokeKey
  <2>1. faults' \in 0..MaxFaults
    BY <1>4, FaultType DEF RevokeKey, AllFaults
  <2>. QED  BY <1>4, <2>1 DEF RevokeKey
<1>5. ASSUME NEW c \in Consumers, Start(c)
      PROVE  TypeOK'
  BY <1>5, BecomeType DEF Start, Steps
<1>6. ASSUME NEW c \in Consumers, EnsureGroup(c)
      PROVE  TypeOK'
  <2>1. faults' \in 0..MaxFaults
    BY <1>6, FaultType DEF EnsureGroup, AllFaults
  <2>2. consumer' \in [Consumers -> Consumer]
    BY <1>6, BecomeType DEF EnsureGroup, Steps
  <2>. QED  BY <1>6, <2>1, <2>2 DEF EnsureGroup
<1>7. ASSUME NEW c \in Consumers, Read(c)
      PROVE  TypeOK'
  <2>1. faults' \in 0..MaxFaults
    BY <1>7, FaultType DEF Read, AllFaults
  <2>2. consumer' \in [Consumers -> Consumer]
    BY <1>7, BecomeType, TakeType, HandedType DEF Read, Steps
  <2>3. entry' \in [Entries -> EntryStates]
    BY <1>7 DEF Read, EntryStates
  <2>. QED  BY <1>7, <2>1, <2>2, <2>3 DEF Read
<1>8. ASSUME NEW c \in Consumers, ReadError(c)
      PROVE  TypeOK'
  <2>1. faults' \in 0..MaxFaults
    BY <1>8, FaultType DEF ReadError, AllFaults
  <2>2. consumer' \in [Consumers -> Consumer]
    BY <1>8, BecomeType DEF ReadError, Steps
  <2>. QED  BY <1>8, <2>1, <2>2 DEF ReadError
<1>9. ASSUME NEW c \in Consumers, Backoff(c)
      PROVE  TypeOK'
  BY <1>9, BecomeType DEF Backoff, Steps
<1>10. ASSUME NEW c \in Consumers, Check(c)
       PROVE  TypeOK'
  <2>1. faults' \in 0..MaxFaults
    BY <1>10, FaultType DEF Check, AllFaults
  <2>2. consumer' \in [Consumers -> Consumer]
    BY <1>10, GotoType DEF Check, Steps
  <2>. QED  BY <1>10, <2>1, <2>2 DEF Check
<1>11. ASSUME NEW c \in Consumers, Insert(c)
       PROVE  TypeOK'
  <2>1. faults' \in 0..MaxFaults
    BY <1>11, FaultType DEF Insert, AllFaults
  <2>2. consumer' \in [Consumers -> Consumer]
    <3>1. ASSUME consumer' = [consumer EXCEPT ![c].step = "acking",
                                              ![c].persisted = TRUE]
          PROVE  consumer' \in [Consumers -> Consumer]
      <4>1. [consumer[c] EXCEPT !.step = "acking", !.persisted = TRUE] \in Consumer
        BY DEF Consumer, Steps, TypeOK
      <4>. QED  BY <3>1, <4>1 DEF TypeOK
    <3>. QED  BY <1>11, <3>1, GotoType DEF Insert, Steps
  <2>3. rows' \in SUBSET Row
    <3>1. consumer[c].cur \in Entries /\ Of(c) \in Events
      BY <1>11 DEF Insert, Holding, Working, Held, Appended, Of, Consumer
    <3>. QED  BY <1>11, <3>1 DEF Insert, Row
  <2>. QED  BY <1>11, <2>1, <2>2, <2>3 DEF Insert
<1>12. ASSUME NEW c \in Consumers, Ack(c)
       PROVE  TypeOK'
  <2>1. faults' \in 0..MaxFaults
    BY <1>12, FaultType DEF Ack, AllFaults
  <2>2. consumer' \in [Consumers -> Consumer]
    BY <1>12, GotoType, BecomeType, AdvanceType DEF Ack, Steps
  <2>3. consumer[c].cur \in Entries
    BY <1>12 DEF Ack, Holding, Working, Consumer
  <2>4. entry' \in [Entries -> EntryStates]
    BY <1>12, <2>3, AckedType DEF Ack
  <2>. QED  BY <1>12, <2>1, <2>2, <2>4 DEF Ack
<1>13. ASSUME NEW c \in Consumers, Publish(c)
       PROVE  TypeOK'
  <2>1. faults' \in 0..MaxFaults
    BY <1>13, FaultType DEF Publish, AllFaults
  <2>2. consumer' \in [Consumers -> Consumer]
    BY <1>13, AdvanceType DEF Publish
  <2>3. deltas' \in [Events -> Nat]
    BY <1>13 DEF Publish
  <2>. QED  BY <1>13, <2>1, <2>2, <2>3 DEF Publish
<1>14. ASSUME NEW c \in Consumers, Crash(c)
       PROVE  TypeOK'
  <2>1. faults' \in 0..MaxFaults
    BY <1>14, FaultType DEF Crash, AllFaults
  <2>2. consumer' \in [Consumers -> Consumer]
    BY <1>14, BecomeType DEF Crash, Steps
  <2>. QED  BY <1>14, <2>1, <2>2 DEF Crash
<1>15. ASSUME NEW c \in Consumers, Shutdown(c)
       PROVE  TypeOK'
  <2>1. faults' \in 0..MaxFaults
    BY <1>15, FaultType DEF Shutdown, AllFaults
  <2>2. consumer' \in [Consumers -> Consumer]
    BY <1>15, BecomeType DEF Shutdown, Steps
  <2>3. entry' \in [Entries -> EntryStates]
    <3>1. consumer[c].step \in {"checking", "inserting", "acking"}
            => consumer[c].cur \in Entries
      BY DEF Holding, Working, Consumer
    <3>. QED  BY <1>15, <3>1, AckedType DEF Shutdown
  <2>. QED  BY <1>15, <2>1, <2>2, <2>3 DEF Shutdown
<1>. QED
  BY <1>1, <1>2, <1>3, <1>4, <1>5, <1>6, <1>7, <1>8, <1>9, <1>10, <1>11, <1>12, <1>13,
     <1>14, <1>15 DEF Next, Loop
-----------------------------------------------------------------------------
\* What a consumer works on is out of the stream, and nobody else's.
LEMMA HoldingStep ==
    ASSUME TypeOK, Holding, OneConsumerPerEntry, PublishesOwn, [Next]_vars
    PROVE  Holding' /\ OneConsumerPerEntry'
<1>. USE DEF TypeOK, Holding, Held, Working, Consumer, OneConsumerPerEntry
<1>1. CASE UNCHANGED vars
  BY <1>1 DEF vars
<1>2. ASSUME NEW e \in Entries, NEW v \in Events, Emit(e, v)
      PROVE  Holding' /\ OneConsumerPerEntry'
  BY <1>2 DEF Emit
<1>3. CASE Evict
  BY <1>3 DEF Evict
<1>4. CASE RevokeKey
  BY <1>4 DEF RevokeKey
<1>5. ASSUME NEW c \in Consumers, Start(c)
      PROVE  Holding' /\ OneConsumerPerEntry'
  BY <1>5 DEF Start, Become, At
<1>6. ASSUME NEW c \in Consumers, EnsureGroup(c)
      PROVE  Holding' /\ OneConsumerPerEntry'
  BY <1>6 DEF EnsureGroup, Become, At
<1>7. ASSUME NEW c \in Consumers, Read(c)
      PROVE  Holding' /\ OneConsumerPerEntry'
  <2>1. \A e \in Handed : e \in Entries /\ entry[e] = "new" /\ entry'[e] = "pending"
    BY <1>7 DEF Read, Handed, New
  <2>2. \A e \in Entries : entry[e] \notin {"unsent", "new"}
                            => entry'[e] \notin {"unsent", "new"}
    BY <1>7 DEF Read
  <2>3. \A d \in Consumers : consumer[d].cur \notin Handed
                               /\ consumer[d].rest \cap Handed = {}
    BY <2>1
  <2>4. CASE Become(c, "backoff")
    BY <1>7, <2>2, <2>4 DEF Become, At
  <2>5. CASE Take(c, Handed)
    <3>1. PICK e \in Handed : consumer' = [consumer EXCEPT ![c] =
              [step |-> "checking", cur |-> e, rest |-> Handed \ {e}, persisted |-> FALSE]]
      BY <2>5 DEF Take
    <3>2. Holding'
      BY <3>1, <2>1, <2>2
    <3>3. OneConsumerPerEntry'
      BY <3>1, <2>1, <2>3
    <3>. QED  BY <3>2, <3>3
  <2>. QED  BY <1>7, <2>4, <2>5 DEF Read
<1>8. ASSUME NEW c \in Consumers, ReadError(c)
      PROVE  Holding' /\ OneConsumerPerEntry'
  BY <1>8 DEF ReadError, Become, At
<1>9. ASSUME NEW c \in Consumers, Backoff(c)
      PROVE  Holding' /\ OneConsumerPerEntry'
  BY <1>9 DEF Backoff, Become, At
<1>10. ASSUME NEW c \in Consumers, Check(c)
       PROVE  Holding' /\ OneConsumerPerEntry'
  BY <1>10 DEF Check, Goto
<1>11. ASSUME NEW c \in Consumers, Insert(c)
       PROVE  Holding' /\ OneConsumerPerEntry'
  BY <1>11 DEF Insert, Goto
<1>12. ASSUME NEW c \in Consumers, Ack(c)
       PROVE  Holding' /\ OneConsumerPerEntry'
  BY <1>12 DEF Ack, Goto, Become, At, Advance, Take, Acked
<1>13. ASSUME NEW c \in Consumers, Publish(c)
       PROVE  Holding' /\ OneConsumerPerEntry'
  BY <1>13 DEF Publish, Advance, Become, At, Take
<1>14. ASSUME NEW c \in Consumers, Crash(c)
       PROVE  Holding' /\ OneConsumerPerEntry'
  BY <1>14 DEF Crash, Become, At
<1>15. ASSUME NEW c \in Consumers, Shutdown(c)
       PROVE  Holding' /\ OneConsumerPerEntry'
  BY <1>15 DEF Shutdown, Become, At, Acked
<1>. QED
  BY <1>1, <1>2, <1>3, <1>4, <1>5, <1>6, <1>7, <1>8, <1>9, <1>10, <1>11, <1>12, <1>13,
     <1>14, <1>15 DEF Next, Loop
-----------------------------------------------------------------------------
\* An entry gets its event when it is appended, and keeps it.
LEMMA AppendedStep ==
    ASSUME TypeOK, Holding, Appended, [Next]_vars
    PROVE  Appended' /\ \A e \in Entries : entry[e] # "unsent" => event'[e] = event[e]
<1>. USE DEF TypeOK, Appended, Holding, Working, Consumer
<1>1. CASE UNCHANGED vars
  BY <1>1 DEF vars
<1>2. ASSUME NEW d \in Entries, NEW v \in Events, Emit(d, v)
      PROVE  Appended' /\ \A e \in Entries : entry[e] # "unsent" => event'[e] = event[e]
  BY <1>2 DEF Emit
<1>3. CASE Evict
  BY <1>3 DEF Evict
<1>4. CASE RevokeKey
  BY <1>4 DEF RevokeKey
<1>5. ASSUME NEW c \in Consumers, Start(c)
      PROVE  Appended' /\ \A e \in Entries : entry[e] # "unsent" => event'[e] = event[e]
  BY <1>5 DEF Start, Become, At
<1>6. ASSUME NEW c \in Consumers, EnsureGroup(c)
      PROVE  Appended' /\ \A e \in Entries : entry[e] # "unsent" => event'[e] = event[e]
  BY <1>6 DEF EnsureGroup, Become, At
<1>7. ASSUME NEW c \in Consumers, Read(c)
      PROVE  Appended' /\ \A e \in Entries : entry[e] # "unsent" => event'[e] = event[e]
  BY <1>7 DEF Read, Become, At, Take, Handed, New
<1>8. ASSUME NEW c \in Consumers, ReadError(c)
      PROVE  Appended' /\ \A e \in Entries : entry[e] # "unsent" => event'[e] = event[e]
  BY <1>8 DEF ReadError, Become, At
<1>9. ASSUME NEW c \in Consumers, Backoff(c)
      PROVE  Appended' /\ \A e \in Entries : entry[e] # "unsent" => event'[e] = event[e]
  BY <1>9 DEF Backoff, Become, At
<1>10. ASSUME NEW c \in Consumers, Check(c)
       PROVE  Appended' /\ \A e \in Entries : entry[e] # "unsent" => event'[e] = event[e]
  BY <1>10 DEF Check, Goto
<1>11. ASSUME NEW c \in Consumers, Insert(c)
       PROVE  Appended' /\ \A e \in Entries : entry[e] # "unsent" => event'[e] = event[e]
  BY <1>11 DEF Insert, Goto
<1>12. ASSUME NEW c \in Consumers, Ack(c)
       PROVE  Appended' /\ \A e \in Entries : entry[e] # "unsent" => event'[e] = event[e]
  BY <1>12 DEF Ack, Goto, Become, At, Advance, Take, Acked
<1>13. ASSUME NEW c \in Consumers, Publish(c)
       PROVE  Appended' /\ \A e \in Entries : entry[e] # "unsent" => event'[e] = event[e]
  BY <1>13 DEF Publish, Advance, Become, At, Take
<1>14. ASSUME NEW c \in Consumers, Crash(c)
       PROVE  Appended' /\ \A e \in Entries : entry[e] # "unsent" => event'[e] = event[e]
  BY <1>14 DEF Crash, Become, At
<1>15. ASSUME NEW c \in Consumers, Shutdown(c)
       PROVE  Appended' /\ \A e \in Entries : entry[e] # "unsent" => event'[e] = event[e]
  BY <1>15 DEF Shutdown, Become, At, Acked
<1>. QED
  BY <1>1, <1>2, <1>3, <1>4, <1>5, <1>6, <1>7, <1>8, <1>9, <1>10, <1>11, <1>12, <1>13,
     <1>14, <1>15 DEF Next, Loop
-----------------------------------------------------------------------------
\* Whoever turns to another entry, or to none, has nothing left to announce.
LEMMA OnceTurn ==
    ASSUME IInv, NEW c \in Consumers, NEW new \in Consumer,
           ~new.persisted, new.step # "publishing",
           consumer' = [consumer EXCEPT ![c] = new],
           UNCHANGED <<rows, event>>,
           \A v \in Events : deltas'[v] \in {0, 1} /\ (deltas'[v] = 1 => Stored(v)),
           \A d \in Consumers \ {c} : consumer[d].persisted => deltas'[Of(d)] = 0
    PROVE  OneRow' /\ Announcer' /\ Announced' /\ PublishesOwn'
BY DEF IInv, TypeOK, OneRow, Announcer, Announced, PublishesOwn, Of, Stored

LEMMA Turns ==
    ASSUME TypeOK, NEW c \in Consumers
    PROVE  /\ \A s \in Steps : At(s) \in Consumer /\ ~At(s).persisted /\ At(s).step = s
           /\ \A S \in SUBSET Entries : Take(c, S) =>
                \E new \in Consumer :
                    ~new.persisted /\ new.step = "checking"
                    /\ consumer' = [consumer EXCEPT ![c] = new]
           /\ Advance(c) =>
                \E new \in Consumer :
                    ~new.persisted /\ new.step \in {"reading", "checking"}
                    /\ consumer' = [consumer EXCEPT ![c] = new]
<1>1. \A s \in Steps : At(s) \in Consumer /\ ~At(s).persisted /\ At(s).step = s
  BY DEF At, Consumer
<1>2. \A S \in SUBSET Entries : Take(c, S) =>
         \E new \in Consumer : ~new.persisted /\ new.step = "checking"
                               /\ consumer' = [consumer EXCEPT ![c] = new]
  BY DEF Take, Consumer, Steps
<1>3. consumer[c].rest \in SUBSET Entries
  BY DEF TypeOK, Consumer
<1>4. ASSUME Advance(c)
      PROVE  \E new \in Consumer : ~new.persisted /\ new.step \in {"reading", "checking"}
                               /\ consumer' = [consumer EXCEPT ![c] = new]
  BY <1>1, <1>2, <1>3, <1>4 DEF Advance, Become, Steps
<1>. QED  BY <1>1, <1>2, <1>4

\* The consumer that publishes is the only one with something to announce of its event.
LEMMA PublishStep ==
    ASSUME IInv, NEW c \in Consumers, Publish(c)
    PROVE  OneRow' /\ Announcer' /\ Announced' /\ PublishesOwn'
<1>1. UNCHANGED <<rows, event>>
  BY DEF Publish
<1>2. PICK new \in Consumer : ~new.persisted /\ new.step # "publishing"
                              /\ consumer' = [consumer EXCEPT ![c] = new]
  BY Turns DEF Publish, IInv
<1>3. /\ consumer[c].persisted
      /\ [event |-> Of(c), entry |-> consumer[c].cur] \in rows
      /\ deltas[Of(c)] = 0
  BY DEF Publish, IInv, PublishesOwn, Announcer
<1>4. Of(c) \in Events /\ Stored(Of(c))
  BY <1>3 DEF IInv, TypeOK, Row, Stored
<1>5. ASSUME NEW d \in Consumers \ {c}, consumer[d].persisted
      PROVE  Of(d) # Of(c)
  <2>1. [event |-> Of(d), entry |-> consumer[d].cur] \in rows
    BY <1>5 DEF IInv, Announcer
  <2>2. consumer[d].cur # consumer[c].cur
    <3>1. consumer[c].cur # None
      BY DEF Publish, IInv, Holding, Working
    <3>. QED  BY <3>1, <1>5 DEF IInv, OneConsumerPerEntry
  <2>. QED  BY <1>3, <2>1, <2>2 DEF IInv, OneRow
<1>6. \A v \in Events : deltas'[v] = deltas[v] \/ (v = Of(c) /\ deltas'[v] = 1)
  BY <1>3, <1>4 DEF Publish, IInv, TypeOK
<1>7. \A v \in Events : deltas'[v] \in {0, 1} /\ (deltas'[v] = 1 => Stored(v))
  BY <1>4, <1>6 DEF IInv, Announced
<1>8. \A d \in Consumers \ {c} : consumer[d].persisted => deltas'[Of(d)] = 0
  <2>1. SUFFICES ASSUME NEW d \in Consumers \ {c}, consumer[d].persisted
                 PROVE  deltas'[Of(d)] = 0
    OBVIOUS
  <2>2. [event |-> Of(d), entry |-> consumer[d].cur] \in rows /\ deltas[Of(d)] = 0
    BY <2>1 DEF IInv, Announcer
  <2>3. Of(d) \in Events
    BY <2>2 DEF IInv, TypeOK, Row
  <2>. QED  BY <1>5, <1>6, <2>1, <2>2, <2>3
<1>. QED  BY <1>1, <1>2, <1>7, <1>8, OnceTurn

-----------------------------------------------------------------------------
\* Rows are unique, and announced by the consumer that wrote them.
LEMMA OnceStep ==
    ASSUME IInv, [Next]_vars
    PROVE  OneRow' /\ Announcer' /\ Announced' /\ PublishesOwn'
<1>. USE DEF IInv, TypeOK, Appended, Holding, Held, Working, Consumer, OneRow, Announcer,
             Announced, PublishesOwn, OneConsumerPerEntry, Row, Of, Stored
<1>1. CASE UNCHANGED vars
  BY <1>1 DEF vars
<1>2. ASSUME NEW e \in Entries, NEW v \in Events, Emit(e, v)
      PROVE  OneRow' /\ Announcer' /\ Announced' /\ PublishesOwn'
  BY <1>2 DEF Emit
<1>3. CASE Evict
  BY <1>3 DEF Evict
<1>4. CASE RevokeKey
  BY <1>4 DEF RevokeKey
<1>5. ASSUME NEW c \in Consumers, Start(c)
      PROVE  OneRow' /\ Announcer' /\ Announced' /\ PublishesOwn'
  BY <1>5 DEF Start, Become, At
<1>6. ASSUME NEW c \in Consumers, EnsureGroup(c)
      PROVE  OneRow' /\ Announcer' /\ Announced' /\ PublishesOwn'
  <2>1. UNCHANGED <<rows, event, deltas>>
    BY <1>6 DEF EnsureGroup
  <2>2. \E s \in {"reading", "dead"} : consumer' = [consumer EXCEPT ![c] = At(s)]
    BY <1>6 DEF EnsureGroup, Become
  <2>. QED  BY <2>1, <2>2, OnceTurn, Turns DEF Steps
<1>7. ASSUME NEW c \in Consumers, Read(c)
      PROVE  OneRow' /\ Announcer' /\ Announced' /\ PublishesOwn'
  <2>1. UNCHANGED <<rows, event, deltas>>
    BY <1>7 DEF Read
  <2>2. \E new \in Consumer : ~new.persisted /\ new.step # "publishing"
                               /\ consumer' = [consumer EXCEPT ![c] = new]
    BY <1>7, Turns, HandedType DEF Read, Become, Steps
  <2>. QED  BY <2>1, <2>2, OnceTurn
<1>8. ASSUME NEW c \in Consumers, ReadError(c)
      PROVE  OneRow' /\ Announcer' /\ Announced' /\ PublishesOwn'
  BY <1>8 DEF ReadError, Become, At
<1>9. ASSUME NEW c \in Consumers, Backoff(c)
      PROVE  OneRow' /\ Announcer' /\ Announced' /\ PublishesOwn'
  BY <1>9 DEF Backoff, Become, At
<1>10. ASSUME NEW c \in Consumers, Check(c)
       PROVE  OneRow' /\ Announcer' /\ Announced' /\ PublishesOwn'
  <2>1. OneRow' /\ Announced'
    BY <1>10 DEF Check
  <2>4. \A d \in Consumers : consumer'[d].persisted = consumer[d].persisted
                             /\ consumer'[d].cur = consumer[d].cur
    BY <1>10 DEF Check, Goto
  <2>2. Announcer'
    BY <1>10, <2>4 DEF Check
  <2>3. PublishesOwn'
    BY <1>10 DEF Check, Goto
  <2>. QED  BY <2>1, <2>2, <2>3
<1>11. ASSUME NEW c \in Consumers, Insert(c)
       PROVE  OneRow' /\ Announcer' /\ Announced' /\ PublishesOwn'
  <2>1. OneRow' /\ Announced'
    BY <1>11 DEF Insert
  <2>2. Announcer'
    BY <1>11 DEF Insert, Goto
  <2>3. PublishesOwn'
    BY <1>11 DEF Insert, Goto
  <2>. QED  BY <2>1, <2>2, <2>3
<1>12. ASSUME NEW c \in Consumers, Ack(c)
       PROVE  OneRow' /\ Announcer' /\ Announced' /\ PublishesOwn'
  <2>1. UNCHANGED <<rows, event, deltas>>
    BY <1>12 DEF Ack
  <2>2. CASE consumer[c].persisted /\ Goto(c, "publishing")
    BY <2>1, <2>2 DEF Goto
  <2>3. CASE ~(consumer[c].persisted /\ Goto(c, "publishing"))
    <3>1. \E new \in Consumer : ~new.persisted /\ new.step # "publishing"
                                 /\ consumer' = [consumer EXCEPT ![c] = new]
      BY <1>12, <2>3, Turns DEF Ack, Become, Steps
    <3>. QED  BY <2>1, <3>1, OnceTurn
  <2>. QED  BY <2>2, <2>3
<1>13. ASSUME NEW c \in Consumers, Publish(c)
       PROVE  OneRow' /\ Announcer' /\ Announced' /\ PublishesOwn'
  BY <1>13, PublishStep
<1>14. ASSUME NEW c \in Consumers, Crash(c)
       PROVE  OneRow' /\ Announcer' /\ Announced' /\ PublishesOwn'
  BY <1>14 DEF Crash, Become, At
<1>15. ASSUME NEW c \in Consumers, Shutdown(c)
       PROVE  OneRow' /\ Announcer' /\ Announced' /\ PublishesOwn'
  BY <1>15 DEF Shutdown, Become, At, Acked
<1>. QED
  BY <1>1, <1>2, <1>3, <1>4, <1>5, <1>6, <1>7, <1>8, <1>9, <1>10, <1>11, <1>12, <1>13,
     <1>14, <1>15 DEF Next, Loop

-----------------------------------------------------------------------------
(* The theorems *)

LEMMA InitIInv == Init => IInv
<1>. SUFFICES ASSUME Init PROVE IInv
  OBVIOUS
<1>. USE DEF Init, At
<1>1. TypeOK
  <2>1. consumer \in [Consumers -> Consumer] /\ deltas \in [Events -> Nat]
    BY DEF Consumer, Steps
  <2>2. event \in [Entries -> Events \cup {None}] /\ entry \in [Entries -> EntryStates]
    BY DEF EntryStates
  <2>3. group \in BOOLEAN /\ revoked \in BOOLEAN /\ rows \in SUBSET Row
    OBVIOUS
  <2>4. faults \in 0..MaxFaults
    OBVIOUS
  <2>. QED  BY <2>1, <2>2, <2>3, <2>4 DEF TypeOK
<1>2. Holding /\ OneConsumerPerEntry /\ PublishesOwn /\ Announcer
  BY DEF Holding, Held, Working, OneConsumerPerEntry, PublishesOwn, Announcer
<1>3. Appended /\ OneRow /\ Announced
  BY DEF Appended, OneRow, Announced
<1>. QED  BY <1>1, <1>2, <1>3 DEF IInv

LEMMA StepIInv == IInv /\ [Next]_vars => IInv'
<1>. SUFFICES ASSUME IInv, [Next]_vars  PROVE IInv'
  OBVIOUS
<1>1. TypeOK'
  BY TypeStep DEF IInv
<1>2. Holding' /\ OneConsumerPerEntry'
  BY HoldingStep DEF IInv
<1>3. Appended'
  BY AppendedStep DEF IInv
<1>. QED  BY <1>1, <1>2, <1>3, OnceStep DEF IInv

\* The inductive invariant holds in every reachable state: entries are out of the stream
\* while they are worked on, and whoever wrote a row is the one to announce it.
THEOREM Invariant == Spec => []IInv
BY InitIInv, StepIInv, PTL DEF Spec

\* Whatever fails, the state of the stream, the consumers and the table is well formed.
THEOREM TypeCorrect == Spec => []TypeOK
<1>1. IInv => TypeOK
  BY DEF IInv
<1>. QED  BY <1>1, Invariant, PTL

\* XREADGROUP gives an entry to one consumer, which alone works on it until it turns
\* to the next one.
THEOREM OneConsumer == Spec => []OneConsumerPerEntry
<1>1. IInv => OneConsumerPerEntry
  BY DEF IInv
<1>. QED  BY <1>1, Invariant, PTL

-----------------------------------------------------------------------------
(* Refinement of IngestPromise *)

\* An event has one row or none.
LEMMA CountOfRows ==
    ASSUME NEW R, \A r, s \in R : r.event = s.event => r = s, NEW v
    PROVE  Cardinality({r \in R : r.event = v}) = IF \E r \in R : r.event = v THEN 1 ELSE 0
<1>1. CASE \E r \in R : r.event = v
  <2>1. PICK r \in R : r.event = v
    BY <1>1
  <2>2. {s \in R : s.event = v} = {r}
    BY <2>1
  <2>. QED  BY <1>1, <2>2, FS_Singleton
<1>2. CASE ~\E r \in R : r.event = v
  <2>1. {r \in R : r.event = v} = {}
    BY <1>2
  <2>. QED  BY <1>2, <2>1, FS_EmptySet
<1>. QED  BY <1>1, <1>2

\* An insert stores an event that is not stored, a publication announces one that is,
\* and nothing else is visible.
LEMMA PromiseStep ==
    ASSUME IInv, [Next]_vars
    PROVE  [Promise!Next]_(Promise!vars)
<1>1. OneRow /\ OneRow'
  BY StepIInv DEF IInv
<1>2. [v \in Events |-> Cardinality({r \in rows : r.event = v})]
        = [v \in Events |-> IF Stored(v) THEN 1 ELSE 0]
  BY <1>1, CountOfRows DEF OneRow, Stored
<1>3. [v \in Events |-> Cardinality({r \in rows : r.event = v})]'
        = [v \in Events |-> IF Stored(v)' THEN 1 ELSE 0]
  BY <1>1, CountOfRows DEF OneRow, Stored
<1>4. CASE UNCHANGED <<rows, deltas>>
  BY <1>4 DEF Promise!vars
<1>5. ASSUME NEW c \in Consumers, Insert(c), rows' # rows
      PROVE  Promise!Next
  <2>. DEFINE e == consumer[c].cur
              v == Of(c)
  <2>1. /\ ~Stored(v) /\ rows' = rows \cup {[event |-> v, entry |-> e]}
        /\ UNCHANGED deltas
    BY <1>5 DEF Insert
  <2>2. v \in Events
    BY <1>5 DEF Insert, IInv, TypeOK, Holding, Working, Held, Appended, Of, Consumer
  <2>. HIDE DEF e, v
  <2>3. \A w \in Events : Stored(w)' <=> Stored(w) \/ w = v
    <3>1. \A w \in Events : Stored(w)' <=> \E r \in rows' : r.event = w
      BY DEF Stored
    <3>2. \A w \in Events : (\E r \in rows' : r.event = w) <=> Stored(w) \/ w = v
      <4>. DEFINE new == [event |-> v, entry |-> e]
      <4>1. new.event = v
        OBVIOUS
      <4>2. rows' = rows \cup {new}
        BY <2>1
      <4>. HIDE DEF new
      <4>. QED  BY <4>1, <4>2 DEF Stored
    <3>. QED  BY <3>1, <3>2
  <2>4. [w \in Events |-> IF Stored(w)' THEN 1 ELSE 0]
          = [[w \in Events |-> IF Stored(w) THEN 1 ELSE 0] EXCEPT ![v] = 1]
    BY <2>2, <2>3
  <2>5. Promise!Store(v)
    BY <1>2, <1>3, <2>1, <2>2, <2>4 DEF Promise!Store
  <2>. QED  BY <2>2, <2>5 DEF Promise!Next
<1>6. ASSUME NEW c \in Consumers, Publish(c), deltas' # deltas
      PROVE  Promise!Next
  <2>1. /\ consumer[c].persisted
        /\ [event |-> Of(c), entry |-> consumer[c].cur] \in rows
        /\ deltas[Of(c)] = 0
    BY <1>6 DEF Publish, IInv, PublishesOwn, Announcer
  <2>2. Of(c) \in Events /\ Stored(Of(c))
    BY <2>1 DEF IInv, TypeOK, Row, Stored
  <2>3. deltas' = [deltas EXCEPT ![Of(c)] = 1] /\ UNCHANGED rows
    BY <1>6, <2>1, <2>2 DEF Publish, IInv, TypeOK
  <2>4. Promise!Announce(Of(c))
    BY <1>2, <2>1, <2>2, <2>3 DEF Promise!Announce
  <2>. QED  BY <2>2, <2>4 DEF Promise!Next
<1>7. UNCHANGED <<rows, deltas>> \/ \E c \in Consumers :
        \/ Insert(c) /\ rows' # rows
        \/ Publish(c) /\ deltas' # deltas
  BY DEF Next, Loop, vars, Emit, Evict, RevokeKey, Start, EnsureGroup, Read, ReadError,
         Backoff, Check, Insert, Ack, Publish, Crash, Shutdown
<1>. QED  BY <1>4, <1>5, <1>6, <1>7

\* However often an event is delivered, to whomever, and whatever is lost on the way, it
\* makes one row at most, of which the dashboard is told once at most and not before.
THEOREM Refinement == Spec => ImplementsPromise
<1>1. Init => Promise!Init
  <2>1. SUFFICES ASSUME Init PROVE Promise!Init
    OBVIOUS
  <2>2. \A v \in Events : {r \in rows : r.event = v} = {}
    BY <2>1 DEF Init
  <2>. QED  BY <2>1, <2>2, FS_EmptySet DEF Init, Promise!Init
<1>2. IInv /\ [Next]_vars => [Promise!Next]_(Promise!vars)
  BY PromiseStep
<1>. QED  BY <1>1, <1>2, Invariant, PTL DEF Spec, ImplementsPromise, Promise!Spec

-----------------------------------------------------------------------------
(* Acknowledged entries *)

\* Ingest refuses the event: it cannot be stored, or its key is revoked.
Refused(v) ==
    v \in Unattributed \cup Malformed \cup Dangling \/ (revoked /\ v \in Keyed)

Settled == \A c \in Consumers : consumer[c].step \in {"acking", "publishing"}
                                  => Stored(Of(c)) \/ Refused(Of(c))

\* Neither a database that fails nor an orderly shutdown.
Undisturbed == {"db", "shutdown"} \cap FaultKinds = {}

LEMMA SettledStep ==
    ASSUME Undisturbed, IInv, Settled, AckedIsStored, [Next]_vars
    PROVE  (Settled /\ AckedIsStored)'
<1>. USE DEF IInv, TypeOK, Consumer, Holding, Working, Appended, Settled, AckedIsStored,
             Refused,
             Stored, Of, Undisturbed
<1>1. CASE UNCHANGED vars
  BY <1>1 DEF vars
<1>2. ASSUME NEW e \in Entries, NEW v \in Events, Emit(e, v)
      PROVE  (Settled /\ AckedIsStored)'
  <2>1. /\ \A d \in Entries : entry'[d] = "acked" => entry[d] = "acked" /\ event'[d] = event[d]
        /\ UNCHANGED <<consumer, rows, revoked>>
    BY <1>2 DEF Emit
  <2>2. \A c \in Consumers : Working(c) => event'[consumer[c].cur] = event[consumer[c].cur]
    BY <1>2 DEF Emit, Held
  <2>3. Settled'
    BY <2>1, <2>2
  <2>4. AckedIsStored'
    BY <2>1
  <2>. QED  BY <2>3, <2>4
<1>3. CASE Evict
  BY <1>3 DEF Evict
<1>4. CASE RevokeKey
  BY <1>4 DEF RevokeKey
<1>5. ASSUME NEW c \in Consumers, Start(c)
      PROVE  (Settled /\ AckedIsStored)'
  BY <1>5 DEF Start, Become, At
<1>6. ASSUME NEW c \in Consumers, EnsureGroup(c)
      PROVE  (Settled /\ AckedIsStored)'
  BY <1>6 DEF EnsureGroup, Become, At
<1>7. ASSUME NEW c \in Consumers, Read(c)
      PROVE  (Settled /\ AckedIsStored)'
  <2>1. /\ \A e \in Entries : entry'[e] = "acked" => entry[e] = "acked"
        /\ UNCHANGED <<event, rows, revoked>>
    BY <1>7 DEF Read
  <2>2. \E new \in Consumer : new.step \notin {"acking", "publishing"}
                               /\ consumer' = [consumer EXCEPT ![c] = new]
    BY <1>7, Turns, HandedType DEF Read, Become, Steps
  <2>. QED  BY <2>1, <2>2
<1>8. ASSUME NEW c \in Consumers, ReadError(c)
      PROVE  (Settled /\ AckedIsStored)'
  BY <1>8 DEF ReadError, Become, At
<1>9. ASSUME NEW c \in Consumers, Backoff(c)
      PROVE  (Settled /\ AckedIsStored)'
  BY <1>9 DEF Backoff, Become, At
<1>10. ASSUME NEW c \in Consumers, Check(c)
       PROVE  (Settled /\ AckedIsStored)'
  BY <1>10 DEF Check, Goto, Fault, Attributed
<1>11. ASSUME NEW c \in Consumers, Insert(c)
       PROVE  (Settled /\ AckedIsStored)'
  BY <1>11 DEF Insert, Goto, Fault
<1>12. ASSUME NEW c \in Consumers, Ack(c)
       PROVE  (Settled /\ AckedIsStored)'
  BY <1>12 DEF Ack, Goto, Become, At, Advance, Take, Acked
<1>13. ASSUME NEW c \in Consumers, Publish(c)
       PROVE  (Settled /\ AckedIsStored)'
  <2>1. UNCHANGED <<event, entry, rows, revoked>>
    BY <1>13 DEF Publish
  <2>2. \E new \in Consumer : new.step \notin {"acking", "publishing"}
                               /\ consumer' = [consumer EXCEPT ![c] = new]
    BY <1>13, Turns DEF Publish
  <2>. QED  BY <2>1, <2>2
<1>14. ASSUME NEW c \in Consumers, Crash(c)
       PROVE  (Settled /\ AckedIsStored)'
  BY <1>14 DEF Crash, Become, At
<1>15. ASSUME NEW c \in Consumers, Shutdown(c)
       PROVE  (Settled /\ AckedIsStored)'
  BY <1>15 DEF Shutdown, Fault
<1>. QED
  BY <1>1, <1>2, <1>3, <1>4, <1>5, <1>6, <1>7, <1>8, <1>9, <1>10, <1>11, <1>12, <1>13,
     <1>14, <1>15 DEF Next, Loop

\* Crashes, lost replies and acknowledgements, an evicted stream: an entry is not
\* acknowledged before its event is stored or refused.
THEOREM AckedCorrect ==
    ASSUME Undisturbed
    PROVE  Spec => []AckedIsStored
<1>1. Init => Settled /\ AckedIsStored
  BY DEF Init, Settled, AckedIsStored, At
<1>2. IInv /\ Settled /\ AckedIsStored /\ [Next]_vars => (Settled /\ AckedIsStored)'
  BY SettledStep
<1>. QED  BY <1>1, <1>2, Invariant, PTL DEF Spec
=============================================================================
