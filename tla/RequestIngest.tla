---------------------------- MODULE RequestIngest ---------------------------
(***************************************************************************)
(* Request ingest (services/request_ingest_service.py, ADR-004): every     *)
(* backend process runs one consumer of the Redis stream the gateway       *)
(* appends its completion events to.  All consumers share one group.       *)
(*                                                                         *)
(* XREADGROUP with ">" hands each entry of the stream to one consumer and  *)
(* keeps it pending until XACK.  A consumer takes the entries of a batch   *)
(* one after the other: look the event up, insert a Request row, commit,   *)
(* acknowledge, publish.  Nothing reads the pending entries of a consumer  *)
(* that is gone (no XAUTOCLAIM, no read from id 0).                        *)
(***************************************************************************)
EXTENDS Naturals, FiniteSets

CONSTANTS
    Consumers,      \* backend processes
    Events,         \* idempotency keys chosen by the gateway (event_id)
    MaxEntries,     \* bound: entries appended to the stream
    Batch,          \* _BATCH
    Keyed,          \* events that carry a key prefix and no project
    Unattributed,   \* events that carry neither
    Dangling,       \* events that refer to a row that does not exist
    Malformed,      \* events with a field that no column takes
    FaultKinds,     \* the failures considered
    MaxFaults,      \* bound: failures
    None

AllFaults == {"ensure", "read", "reply", "ack", "publish", "db", "crash",
              "shutdown", "evict", "revoke"}

Entries == 1..MaxEntries

ASSUME IngestAssumption ==
    /\ MaxEntries \in Nat /\ MaxFaults \in Nat
    /\ Batch \in Nat \ {0}
    /\ None \notin Entries /\ None \notin Events
    /\ FaultKinds \subseteq AllFaults

VARIABLES
    event,      \* the event of each entry, None until the entry is appended
    entry,      \* where each entry is
    group,      \* the consumer group exists
    consumer,   \* the consumer of each process
    rows,       \* Request rows: the event and the entry each was made from
    deltas,     \* dashboard deltas published for each event
    revoked,    \* the API key of the keyed events is revoked
    faults

vars == <<event, entry, group, consumer, rows, deltas, revoked, faults>>

EntryStates == {"unsent", "new", "pending", "acked", "gone"}

Steps == {"down", "starting", "dead", "reading", "checking", "inserting", "acking",
          "publishing", "backoff"}

Consumer == [step: Steps, cur: Entries \cup {None}, rest: SUBSET Entries,
             persisted: BOOLEAN]

Row == [event: Events, entry: Entries]

TypeOK ==
    /\ event \in [Entries -> Events \cup {None}]
    /\ entry \in [Entries -> EntryStates]
    /\ group \in BOOLEAN
    /\ consumer \in [Consumers -> Consumer]
    /\ rows \in SUBSET Row
    /\ deltas \in [Events -> Nat]
    /\ revoked \in BOOLEAN
    /\ faults \in 0..MaxFaults

At(s) == [step |-> s, cur |-> None, rest |-> {}, persisted |-> FALSE]

Init ==
    /\ event = [e \in Entries |-> None]
    /\ entry = [e \in Entries |-> "unsent"]
    /\ group = FALSE
    /\ consumer = [c \in Consumers |-> At("down")]
    /\ rows = {}
    /\ deltas = [v \in Events |-> 0]
    /\ revoked = FALSE
    /\ faults = 0

Fault(k) == k \in FaultKinds /\ faults < MaxFaults /\ faults' = faults + 1

Become(c, s) == consumer' = [consumer EXCEPT ![c] = At(s)]

Goto(c, s) == consumer' = [consumer EXCEPT ![c].step = s]

Stored(v) == \E r \in rows : r.event = v

Of(c) == event[consumer[c].cur]

Acked(e) == entry' = IF entry[e] = "pending" THEN [entry EXCEPT ![e] = "acked"]
                     ELSE entry

-----------------------------------------------------------------------------
(* The gateway, Redis and the operator *)

\* XADD: entries are appended in order, an event possibly more than once.
Emit(e, v) ==
    /\ entry[e] = "unsent"
    /\ \A d \in Entries : d < e => entry[d] # "unsent"
    /\ event' = [event EXCEPT ![e] = v]
    /\ entry' = [entry EXCEPT ![e] = "new"]
    /\ UNCHANGED <<group, consumer, rows, deltas, revoked, faults>>

\* maxmemory-policy allkeys-lru: the stream goes, and its consumer groups with it.
Evict ==
    /\ group /\ Fault("evict")
    /\ group' = FALSE
    /\ entry' = [e \in Entries |-> IF entry[e] \in {"new", "pending"} THEN "gone"
                                   ELSE entry[e]]
    /\ UNCHANGED <<event, consumer, rows, deltas, revoked>>

RevokeKey ==
    /\ ~revoked /\ Fault("revoke")
    /\ revoked' = TRUE
    /\ UNCHANGED <<event, entry, group, consumer, rows, deltas>>

-----------------------------------------------------------------------------
(* consume_forever *)

Start(c) ==
    /\ consumer[c].step = "down"
    /\ Become(c, "starting")
    /\ UNCHANGED <<event, entry, group, rows, deltas, revoked, faults>>

\* ensure_consumer_group is called once and outside the loop's error handling.
EnsureGroup(c) ==
    /\ consumer[c].step = "starting"
    /\ \/ group' = TRUE /\ Become(c, "reading") /\ UNCHANGED faults
       \/ Fault("ensure") /\ Become(c, "dead") /\ UNCHANGED group
    /\ UNCHANGED <<event, entry, rows, deltas, revoked>>

New == {e \in Entries : entry[e] = "new"}

\* The oldest entries nobody was given, at most a batch of them.
Handed ==
    {e \in New : Cardinality({d \in New : d <= e}) <= Batch}

\* Consumer c turns to the first of the entries it was given.
Take(c, S) ==
    \E e \in S :
        /\ \A d \in S : e <= d
        /\ consumer' = [consumer EXCEPT ![c] =
             [step |-> "checking", cur |-> e, rest |-> S \ {e}, persisted |-> FALSE]]

\* Mutant: XREAD, which leaves the entries to the other consumers.
ReadShared(c) ==
    /\ consumer[c].step = "reading" /\ group /\ New # {}
    /\ Take(c, Handed)
    /\ UNCHANGED <<event, entry, group, rows, deltas, revoked, faults>>

\* XREADGROUP; its reply may be lost although the entries are handed out.
Read(c) ==
    /\ consumer[c].step = "reading" /\ group /\ New # {}
    /\ entry' = [e \in Entries |-> IF e \in Handed THEN "pending" ELSE entry[e]]
    /\ \/ Take(c, Handed) /\ UNCHANGED faults
       \/ Fault("reply") /\ Become(c, "backoff")
    /\ UNCHANGED <<event, group, rows, deltas, revoked>>

\* Mutant: an error ends the consumer instead of being retried.
ReadErrorKills(c) ==
    /\ consumer[c].step = "reading"
    /\ \/ ~group /\ UNCHANGED faults
       \/ group /\ Fault("read")
    /\ Become(c, "dead")
    /\ UNCHANGED <<event, entry, group, rows, deltas, revoked>>

\* Redis is unreachable, or answers NOGROUP.
ReadError(c) ==
    /\ consumer[c].step = "reading"
    /\ \/ ~group /\ UNCHANGED faults
       \/ group /\ Fault("read")
    /\ Become(c, "backoff")
    /\ UNCHANGED <<event, entry, group, rows, deltas, revoked>>

Backoff(c) ==
    /\ consumer[c].step = "backoff"
    /\ Become(c, "reading")
    /\ UNCHANGED <<event, entry, group, rows, deltas, revoked, faults>>

-----------------------------------------------------------------------------
(* One entry: RequestIngestService.ingest in a session of its own *)

Attributed(v) == v \notin Unattributed /\ (v \in Keyed => ~revoked)

\* Mutant: the entry is acknowledged before its row is committed.
CheckAcks(c) ==
    /\ consumer[c].step = "checking"
    /\ Acked(consumer[c].cur)
    /\ Goto(c, IF Stored(Of(c)) \/ ~Attributed(Of(c)) \/ Of(c) \in Malformed
               THEN "acking" ELSE "inserting")
    /\ UNCHANGED <<event, group, rows, deltas, revoked, faults>>

\* exists_event, _resolve_project and the coercion of the fields; what they raise
\* is logged.
Check(c) ==
    /\ consumer[c].step = "checking"
    /\ \/ /\ Goto(c, IF Stored(Of(c)) \/ ~Attributed(Of(c)) \/ Of(c) \in Malformed
                     THEN "acking" ELSE "inserting")
          /\ UNCHANGED faults
       \/ Fault("db") /\ Goto(c, "acking")
    /\ UNCHANGED <<event, entry, group, rows, deltas, revoked>>

\* Mutant: the table has no unique index on the event.
InsertAny(c) ==
    /\ consumer[c].step = "inserting"
    /\ \/ /\ UNCHANGED faults
          /\ consumer' = [consumer EXCEPT ![c].step = "acking", ![c].persisted = TRUE]
          /\ rows' = rows \cup {[event |-> Of(c), entry |-> consumer[c].cur]}
       \/ Fault("db") /\ Goto(c, "acking") /\ UNCHANGED rows
    /\ UNCHANGED <<event, entry, group, deltas, revoked>>

\* The insert and the commit.  A duplicate event and a dangling reference both
\* raise IntegrityError.
Insert(c) ==
    /\ consumer[c].step = "inserting"
    /\ \/ /\ UNCHANGED faults
          /\ IF Stored(Of(c)) \/ Of(c) \in Dangling
             THEN Goto(c, "acking") /\ UNCHANGED rows
             ELSE /\ consumer' = [consumer EXCEPT ![c].step = "acking",
                                                  ![c].persisted = TRUE]
                  /\ rows' = rows \cup {[event |-> Of(c), entry |-> consumer[c].cur]}
       \/ Fault("db") /\ Goto(c, "acking") /\ UNCHANGED rows
    /\ UNCHANGED <<event, entry, group, deltas, revoked>>

\* The next entry of the batch, or the next read.
Advance(c) ==
    IF consumer[c].rest = {} THEN Become(c, "reading") ELSE Take(c, consumer[c].rest)

\* XACK in the finally clause.  If it raises, the rest of the batch is abandoned,
\* whether Redis executed it or not.
Ack(c) ==
    /\ consumer[c].step = "acking"
    /\ \/ /\ Acked(consumer[c].cur) /\ UNCHANGED faults
          /\ IF consumer[c].persisted THEN Goto(c, "publishing") ELSE Advance(c)
       \/ /\ Fault("ack") /\ Become(c, "backoff")
          /\ Acked(consumer[c].cur) \/ UNCHANGED entry
    /\ UNCHANGED <<event, group, rows, deltas, revoked>>

\* publish_event never raises.
Publish(c) ==
    /\ consumer[c].step = "publishing"
    /\ Advance(c)
    /\ \/ deltas' = [deltas EXCEPT ![Of(c)] = @ + 1] /\ UNCHANGED faults
       \/ Fault("publish") /\ UNCHANGED deltas
    /\ UNCHANGED <<event, entry, group, rows, revoked>>

-----------------------------------------------------------------------------
(* The end of a process *)

Up(c) == consumer[c].step # "down"

Crash(c) ==
    /\ Up(c) /\ Fault("crash")
    /\ Become(c, "down")
    /\ UNCHANGED <<event, entry, group, rows, deltas, revoked>>

\* The lifespan cancels the task: the transaction in progress is rolled back, and
\* the finally clause acknowledges its entry all the same.
Shutdown(c) ==
    /\ Up(c) /\ Fault("shutdown")
    /\ Become(c, "down")
    /\ IF consumer[c].step \in {"checking", "inserting", "acking"}
       THEN Acked(consumer[c].cur) ELSE UNCHANGED entry
    /\ UNCHANGED <<event, group, rows, deltas, revoked>>

-----------------------------------------------------------------------------
Loop(c) ==
    \/ EnsureGroup(c) \/ Read(c) \/ ReadError(c) \/ Backoff(c)
    \/ Check(c) \/ Insert(c) \/ Ack(c) \/ Publish(c)

Next ==
    \/ \E e \in Entries, v \in Events : Emit(e, v)
    \/ Evict \/ RevokeKey
    \/ \E c \in Consumers : Start(c) \/ Loop(c) \/ Crash(c) \/ Shutdown(c)

Spec == Init /\ [][Next]_vars

\* The event loop runs the task; the container is restarted when it stops.
Fairness == \A c \in Consumers : WF_vars(Start(c)) /\ WF_vars(Loop(c))

FairSpec == Spec /\ Fairness

-----------------------------------------------------------------------------
(* Properties *)

Promise == INSTANCE IngestPromise WITH
    stored    <- [v \in Events |-> Cardinality({r \in rows : r.event = v})],
    announced <- deltas

\* Consumers that are given entries of the same event, crash, lose their replies or
\* read the stream again never store or announce that event twice.
ImplementsPromise == Promise!Spec

\* What was acknowledged is stored, unless ingest refuses it, although a consumer
\* may die anywhere: the row is committed before its entry is acknowledged.  (Not so
\* when a consumer is shut down in order, nor when the database fails: CatchesUp.)
AckedIsStored ==
    \A e \in Entries : entry[e] = "acked" =>
        \/ Stored(event[e])
        \/ event[e] \in Unattributed \cup Malformed \cup Dangling
        \/ revoked /\ event[e] \in Keyed

\* Of two consumers in the middle of one entry at most one has it: an entry is
\* handed out once.
OneConsumerPerEntry ==
    \A c, d \in Consumers : c # d =>
        /\ consumer[c].cur = None \/ consumer[c].cur # consumer[d].cur
        /\ consumer[c].rest \cap consumer[d].rest = {}
        /\ consumer[c].cur \notin consumer[d].rest

\* No appended entry waits for ever, behind a malformed entry, a failed read or a
\* database that is down: "acknowledging to avoid a poison-message stall".
NoStall ==
    \A e \in Entries : entry[e] = "new" ~> entry[e] # "new"

-----------------------------------------------------------------------------
(* What the code says of itself and does not do: see the findings *)

\* "this consumer catches up from the stream afterwards": every event that was
\* appended and can be stored is stored in the end.
CatchesUp ==
    \A e \in Entries : \A v \in Events \ (Unattributed \cup Malformed \cup Dangling) :
        event[e] = v ~> Stored(v)
=============================================================================
