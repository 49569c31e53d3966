----------------------------- MODULE Benchmark ------------------------------
(***************************************************************************)
(* One benchmark run: the API inserts it with its items and enqueues a     *)
(* launch task; the launch task sends a Celery chord with one header task  *)
(* per item; each header task calls the gateway and stores its answer; the *)
(* chord's callback writes the metrics, dispatches the scorers and closes  *)
(* the run (api/v1/benchmarks.py, repositories/benchmark.py,               *)
(* workers/tasks/benchmark.py, workers/tasks/evaluation.py).               *)
(*                                                                         *)
(* Celery's Redis backend keeps the answers of a chord under one key and   *)
(* runs the callback when their number reaches the size of the header; an  *)
(* answer that is an exception then fails the chord instead.               *)
(*                                                                         *)
(* Messages are acknowledged late: a task whose worker dies is executed    *)
(* again from its start, and a message whose acknowledgement is lost is    *)
(* delivered again although its task has run.                              *)
(***************************************************************************)
EXTENDS Naturals, FiniteSets

CONSTANTS
    Items,       \* the (row, prompt version, model, temperature) combinations
    MaxChords,   \* bound: chords sent for the run
    MaxAttempts, \* bound: deliveries of a header message
    Scorers,     \* how many of the three scorers the run's metrics ask for
    FaultKinds,  \* the failures considered
    MaxFaults,   \* bound: failures
    None

AllFaults == {"enqueue", "launch_crash", "launch_again", "item_crash", "item_again",
              "item_raise", "aggregate_crash", "delete"}

Chords == 1..MaxChords

Attempts == 1..MaxAttempts

ASSUME BenchmarkAssumption ==
    /\ IsFiniteSet(Items) /\ Items # {}
    /\ FaultKinds \subseteq AllFaults
    /\ Scorers \in 0..3
    /\ MaxChords \in Nat /\ MaxAttempts \in Nat \ {0} /\ MaxFaults \in Nat
    /\ None \notin Nat

VARIABLES
    run,        \* the run's row, None before it is inserted and once deleted
    item,       \* the status of each item's row
    file,       \* the dataset's file is on the volume
    launch,     \* the launch task, and the chord it is sending
    sent,       \* the header messages of each chord that were sent
    exec,       \* the deliveries of each header message
    parts,      \* the answers the result backend holds for each chord
    aggregate,  \* the callback of each chord
    metrics,    \* sets of computed metrics written for each item
    scores,     \* sets of scores written for each item
    scoring,    \* the scorer tasks of each callback that have not run yet
    faults

vars == <<run, item, file, launch, sent, exec, parts, aggregate, metrics,
          scores, scoring, faults>>

N == Cardinality(Items)

Final == {"COMPLETE", "FAILED"}

ItemStatuses == {"PENDING", "RUNNING"} \cup Final

Run == [status: {"PENDING", "RUNNING"} \cup Final, done: 0..N]

\* What a header task returns: "missing" when its item is gone, "error" when it
\* raises.  Answers of the gateway differ from one delivery to the next.
Outcomes == {"complete", "failed", "missing", "error"}

Part == [item: Items, outcome: Outcomes, attempt: Attempts \cup {None}]

Exec == [step: {"none", "queued", "calling", "failing", "answered", "stored",
                "counted", "returning", "done"},
         part: Part \cup {None}, seen: 0..N]

Launch == [step: {"unsent", "queued", "sending", "done"}, chord: Chords \cup {None}]

Aggregate == [step: {"none", "queued", "metrics", "scorers", "count", "close",
                     "done", "failed"},
              results: SUBSET Part, seen: 0..N]

\* None is none of the values it stands beside.
ASSUME NoneAssumption == None \notin Run \cup Part \cup Outcomes

TypeOK ==
    /\ run \in Run \cup {None}
    /\ item \in [Items -> ItemStatuses]
    /\ file \in BOOLEAN
    /\ launch \in Launch
    /\ sent \in [Chords -> SUBSET Items]
    /\ exec \in [Chords \X Items \X Attempts -> Exec]
    /\ parts \in [Chords -> SUBSET Part]
    /\ aggregate \in [Chords -> Aggregate]
    /\ metrics \in [Items -> Nat]
    /\ scores \in [Items -> Nat]
    /\ scoring \in [Chords -> Nat]
    /\ faults \in 0..MaxFaults

NoExec == [step |-> "none", part |-> None, seen |-> 0]

NoAggregate == [step |-> "none", results |-> {}, seen |-> 0]

Init ==
    /\ run = None
    /\ item = [i \in Items |-> "PENDING"]
    /\ file = TRUE
    /\ launch = [step |-> "unsent", chord |-> None]
    /\ sent = [c \in Chords |-> {}]
    /\ exec = [x \in Chords \X Items \X Attempts |-> NoExec]
    /\ parts = [c \in Chords |-> {}]
    /\ aggregate = [c \in Chords |-> NoAggregate]
    /\ metrics = [i \in Items |-> 0]
    /\ scores = [i \in Items |-> 0]
    /\ scoring = [c \in Chords |-> 0]
    /\ faults = 0

Fault(k) == k \in FaultKinds /\ faults < MaxFaults /\ faults' = faults + 1

Exists == run # None

-----------------------------------------------------------------------------
(* The API *)

\* start_run: the run and its items are committed, then the launch is enqueued.
StartRun ==
    /\ ~Exists /\ launch.step = "unsent" /\ file
    /\ run' = [status |-> "PENDING", done |-> 0]
    /\ \/ launch' = [launch EXCEPT !.step = "queued"] /\ UNCHANGED faults
       \/ Fault("enqueue") /\ launch' = [launch EXCEPT !.step = "done"]
    /\ UNCHANGED <<item, file, sent, exec, parts, aggregate, metrics, scores, scoring>>

\* delete_dataset unlinks the file before its transaction commits.
UnlinkDataset ==
    /\ Exists /\ file
    /\ Fault("delete")
    /\ file' = FALSE
    /\ UNCHANGED <<run, item, launch, sent, exec, parts, aggregate, metrics, scores,
                   scoring>>

\* The run, its items and their results go with the dataset (ON DELETE CASCADE).
DeleteDataset ==
    /\ Exists /\ ~file
    /\ run' = None
    /\ UNCHANGED <<item, file, launch, sent, exec, parts, aggregate, metrics, scores,
                   scoring, faults>>

-----------------------------------------------------------------------------
(* launch_benchmark_run *)

\* _prepare: the run is marked and all its items are listed, done or not.
Prepare ==
    /\ launch.step = "queued"
    /\ IF Exists
       THEN \E c \in Chords :
              /\ c = IF launch.chord = None THEN 1 ELSE launch.chord + 1
              /\ run' = [run EXCEPT !.status = "RUNNING"]
              /\ launch' = [step |-> "sending", chord |-> c]
       ELSE launch' = [launch EXCEPT !.step = "done"] /\ UNCHANGED run
    /\ UNCHANGED <<item, file, sent, exec, parts, aggregate, metrics, scores, scoring,
                   faults>>

\* chord(header)(callback): the header messages are sent one by one.
SendHeader(i) ==
    LET c == launch.chord IN
    /\ launch.step = "sending" /\ i \notin sent[c]
    /\ sent' = [sent EXCEPT ![c] = @ \cup {i}]
    /\ exec' = [exec EXCEPT ![<<c, i, 1>>].step = "queued"]
    /\ launch' = IF sent'[c] = Items THEN [launch EXCEPT !.step = "done"] ELSE launch
    /\ UNCHANGED <<run, item, file, parts, aggregate, metrics, scores, scoring, faults>>

LaunchCrashes ==
    /\ launch.step = "sending" /\ Fault("launch_crash")
    /\ launch' = [launch EXCEPT !.step = "queued"]
    /\ UNCHANGED <<run, item, file, sent, exec, parts, aggregate, metrics, scores,
                   scoring>>

LaunchAgain ==
    /\ launch.step = "done" /\ launch.chord # None /\ Fault("launch_again")
    /\ launch' = [launch EXCEPT !.step = "queued"]
    /\ UNCHANGED <<run, item, file, sent, exec, parts, aggregate, metrics, scores,
                   scoring>>

-----------------------------------------------------------------------------
(* run_single_item *)

Step(x, s) == exec' = [exec EXCEPT ![x].step = s]

Return(x, outcome, attempt) ==
    exec' = [exec EXCEPT ![x].step = "returning",
                         ![x].part = [item |-> x[2], outcome |-> outcome,
                                      attempt |-> attempt]]

SetItem(i, s) == item' = IF Exists THEN [item EXCEPT ![i] = s] ELSE item

\* The item is marked RUNNING, whatever it was.
ItemStart(x) ==
    /\ exec[x].step = "queued"
    /\ IF Exists
       THEN SetItem(x[2], "RUNNING") /\ Step(x, "calling")
       ELSE Return(x, "missing", None) /\ UNCHANGED item
    /\ UNCHANGED <<run, file, launch, sent, parts, aggregate, metrics, scores, scoring,
                   faults>>

\* Mutant: only a row index that is out of range is caught.
CallUncaught(x) ==
    /\ exec[x].step = "calling"
    /\ IF file
       THEN \E o \in {"complete", "failed"} :
              exec' = [exec EXCEPT ![x].step = "answered",
                         ![x].part = [item |-> x[2], outcome |-> o, attempt |-> x[3]]]
       ELSE Return(x, "error", None)
    /\ UNCHANGED <<run, item, file, launch, sent, parts, aggregate, metrics, scores,
                   scoring, faults>>

\* The dataset row is read and the gateway called; the answer of an upstream that
\* is not JSON raises out of GatewayClient.chat_completion.
ItemCall(x) ==
    /\ exec[x].step = "calling"
    /\ \/ ~file /\ Step(x, "failing") /\ UNCHANGED faults
       \/ file /\ UNCHANGED faults /\ \E o \in {"complete", "failed"} :
            exec' = [exec EXCEPT ![x].step = "answered",
                       ![x].part = [item |-> x[2], outcome |-> o, attempt |-> x[3]]]
       \/ file /\ Fault("item_raise") /\ Return(x, "error", None)
    /\ UNCHANGED <<run, item, file, launch, sent, parts, aggregate, metrics, scores,
                   scoring>>

\* _fail_item: the progress is not recounted.
ItemFail(x) ==
    /\ exec[x].step = "failing"
    /\ SetItem(x[2], "FAILED")
    /\ Return(x, "failed", None)
    /\ UNCHANGED <<run, file, launch, sent, parts, aggregate, metrics, scores, scoring,
                   faults>>

ItemStore(x) ==
    /\ exec[x].step = "answered"
    /\ SetItem(x[2], IF exec[x].part.outcome = "complete" THEN "COMPLETE" ELSE "FAILED")
    /\ Step(x, "stored")
    /\ UNCHANGED <<run, file, launch, sent, parts, aggregate, metrics, scores, scoring,
                   faults>>

Done == IF Exists THEN Cardinality({i \in Items : item[i] \in Final}) ELSE 0

\* refresh_progress counts the finished items and then writes the count.
ProgressCount(x) ==
    /\ exec[x].step = "stored"
    /\ exec' = [exec EXCEPT ![x].step = "counted", ![x].seen = Done]
    /\ UNCHANGED <<run, item, file, launch, sent, parts, aggregate, metrics, scores,
                   scoring, faults>>

SetDone(n) == run' = IF Exists THEN [run EXCEPT !.done = n] ELSE run

ProgressWrite(x) ==
    /\ exec[x].step = "counted"
    /\ SetDone(exec[x].seen)
    /\ exec' = [exec EXCEPT ![x].step = "returning", ![x].seen = 0]
    /\ UNCHANGED <<item, file, launch, sent, parts, aggregate, metrics, scores, scoring,
                   faults>>

\* The size of the header is known once its last message is sent.
Reached(c, ps) == sent[c] = Items /\ Cardinality(ps) = N

\* on_chord_part_return: the last answer starts the callback and removes the keys;
\* an exception among the answers fails the chord.
ItemReturn(x) ==
    LET c  == x[1]
        ps == parts[c] \cup {exec[x].part} IN
    /\ exec[x].step = "returning"
    /\ Step(x, "done")
    /\ IF Reached(c, ps) /\ aggregate[c].step = "none"
       THEN /\ parts' = [parts EXCEPT ![c] = {}]
            /\ aggregate' = [aggregate EXCEPT ![c] =
                 [NoAggregate EXCEPT
                    !.step = IF \E p \in ps : p.outcome = "error"
                             THEN "failed" ELSE "queued",
                    !.results = ps]]
       ELSE parts' = [parts EXCEPT ![c] = ps] /\ UNCHANGED aggregate
    /\ UNCHANGED <<run, item, file, launch, sent, metrics, scores, scoring, faults>>

ItemCrashes(x) ==
    /\ exec[x].step \notin {"none", "queued", "done"} /\ Fault("item_crash")
    /\ exec' = [exec EXCEPT ![x] = [NoExec EXCEPT !.step = "queued"]]
    /\ UNCHANGED <<run, item, file, launch, sent, parts, aggregate, metrics, scores,
                   scoring>>

\* The same header message is delivered again, beside or after its execution: hours
\* later, so not while its chord is still being sent.
ItemAgain(x) ==
    /\ exec[x].step \notin {"none", "queued"} /\ Fault("item_again")
    /\ launch.step # "sending" \/ launch.chord # x[1]
    /\ \E a \in Attempts :
         /\ \A b \in Attempts : exec[<<x[1], x[2], b>>].step = "none" <=> b >= a
         /\ exec' = [exec EXCEPT ![<<x[1], x[2], a>>].step = "queued"]
    /\ UNCHANGED <<run, item, file, launch, sent, parts, aggregate, metrics, scores,
                   scoring>>

-----------------------------------------------------------------------------
(* aggregate_benchmark and the scorers *)

Succeeded(c) == {p.item : p \in {q \in aggregate[c].results : q.outcome = "complete"}}

AggregateStep(c, s) == aggregate' = [aggregate EXCEPT ![c].step = s]

\* Mutant: the scorers are dispatched without the computed metrics.
SkipMetrics(c) ==
    /\ aggregate[c].step = "queued"
    /\ AggregateStep(c, IF Exists THEN "scorers" ELSE "done")
    /\ UNCHANGED <<run, item, file, launch, sent, exec, parts, metrics, scores, scoring,
                   faults>>

\* Mutant: the run is closed first, before its progress is recounted.
CloseEarly(c) ==
    /\ aggregate[c].step = "queued"
    /\ AggregateStep(c, IF Exists THEN "metrics" ELSE "done")
    /\ run' = IF Exists THEN [run EXCEPT !.status = "COMPLETE"] ELSE run
    /\ UNCHANGED <<item, file, launch, sent, exec, parts, metrics, scores, scoring, faults>>

AggregateRead(c) ==
    /\ aggregate[c].step = "queued"
    /\ AggregateStep(c, IF Exists THEN "metrics" ELSE "done")
    /\ UNCHANGED <<run, item, file, launch, sent, exec, parts, metrics, scores, scoring,
                   faults>>

\* Mutant: an item that failed gets metrics too.
MetricsForAll(c) ==
    /\ aggregate[c].step = "metrics"
    /\ IF Exists
       THEN /\ metrics' = [i \in Items |-> metrics[i] + 1]
            /\ AggregateStep(c, "scorers")
       ELSE AggregateStep(c, IF Succeeded(c) = {} THEN "scorers" ELSE "failed")
            /\ UNCHANGED metrics
    /\ UNCHANGED <<run, item, file, launch, sent, exec, parts, scores, scoring, faults>>

\* One insert per metric; without its item it violates the foreign key and the
\* callback fails.
WriteMetrics(c) ==
    /\ aggregate[c].step = "metrics"
    /\ IF Exists
       THEN /\ metrics' = [i \in Items |->
                 metrics[i] + Cardinality({p \in aggregate[c].results :
                                             p.item = i /\ p.outcome = "complete"})]
            /\ AggregateStep(c, "scorers")
       ELSE AggregateStep(c, IF Succeeded(c) = {} THEN "scorers" ELSE "failed")
            /\ UNCHANGED metrics
    /\ UNCHANGED <<run, item, file, launch, sent, exec, parts, scores, scoring, faults>>

DispatchScorers(c) ==
    /\ aggregate[c].step = "scorers"
    /\ scoring' = IF Succeeded(c) = {} THEN scoring
                  ELSE [scoring EXCEPT ![c] = @ + Scorers]
    /\ AggregateStep(c, "count")
    /\ UNCHANGED <<run, item, file, launch, sent, exec, parts, metrics, scores, faults>>

AggregateCount(c) ==
    /\ aggregate[c].step = "count"
    /\ aggregate' = [aggregate EXCEPT ![c].step = "close", ![c].seen = Done]
    /\ UNCHANGED <<run, item, file, launch, sent, exec, parts, metrics, scores, scoring,
                   faults>>

\* Mutant: any failed item fails the run.
AnyFailed(c) == \E p \in aggregate[c].results : p.outcome # "complete"

\* "Only a total wipeout is a failed run."
AllFailed(c) == aggregate[c].results # {} /\ Succeeded(c) = {}

CloseRun(c) ==
    /\ aggregate[c].step = "close"
    /\ run' = IF Exists
              THEN [status |-> IF AllFailed(c) THEN "FAILED" ELSE "COMPLETE",
                    done |-> aggregate[c].seen]
              ELSE run
    /\ aggregate' = [aggregate EXCEPT ![c].step = "done", ![c].seen = 0]
    /\ UNCHANGED <<item, file, launch, sent, exec, parts, metrics, scores, scoring,
                   faults>>

AggregateCrashes(c) ==
    /\ aggregate[c].step \notin {"none", "queued", "done", "failed"}
    /\ Fault("aggregate_crash")
    /\ aggregate' = [aggregate EXCEPT ![c].step = "queued", ![c].seen = 0]
    /\ UNCHANGED <<run, item, file, launch, sent, exec, parts, metrics, scores, scoring>>

\* ragas_score, deepeval_score and llm_judge_score write what they could score in
\* one transaction; it fails as a whole if an item is gone.
Score(c) ==
    /\ scoring[c] > 0
    /\ scoring' = [scoring EXCEPT ![c] = @ - 1]
    /\ \E some \in SUBSET Succeeded(c) :
         scores' = IF Exists THEN [i \in Items |->
                                     IF i \in some THEN scores[i] + 1 ELSE scores[i]]
                   ELSE scores
    /\ UNCHANGED <<run, item, file, launch, sent, exec, parts, aggregate, metrics, faults>>

-----------------------------------------------------------------------------
Deliveries == Chords \X Items \X Attempts

ItemStep(x) ==
    \/ ItemStart(x) \/ ItemCall(x) \/ ItemFail(x) \/ ItemStore(x)
    \/ ProgressCount(x) \/ ProgressWrite(x) \/ ItemReturn(x)

AggregateStepOf(c) ==
    \/ AggregateRead(c) \/ WriteMetrics(c) \/ DispatchScorers(c) \/ AggregateCount(c)
    \/ CloseRun(c)

LaunchStep == Prepare \/ \E i \in Items : SendHeader(i)

Faults ==
    \/ UnlinkDataset \/ LaunchCrashes \/ LaunchAgain
    \/ \E x \in Deliveries : ItemCrashes(x) \/ ItemAgain(x)
    \/ \E c \in Chords : AggregateCrashes(c)

Next ==
    \/ StartRun \/ DeleteDataset \/ LaunchStep \/ Faults
    \/ \E x \in Deliveries : ItemStep(x)
    \/ \E c \in Chords : AggregateStepOf(c) \/ Score(c)

Spec == Init /\ [][Next]_vars

\* Workers execute what is on the benchmark and evaluation queues.  Nobody is
\* bound to start a run.
Fairness ==
    /\ WF_vars(LaunchStep)
    /\ \A x \in Deliveries : WF_vars(ItemStep(x))
    /\ \A c \in Chords : WF_vars(AggregateStepOf(c)) /\ WF_vars(Score(c))

FairSpec == Spec /\ Fairness

-----------------------------------------------------------------------------
(* Properties *)

\* When a run is closed all its items are finished, its progress reads 100%, and
\* it is FAILED exactly when every item is: although the header tasks recount in
\* parallel, finish in any order, and are repeated when their worker dies.
ClosedAgrees ==
    Exists /\ run.status \in Final =>
        /\ \A i \in Items : item[i] \in Final
        /\ run.done = N
        /\ run.status = "COMPLETE" <=> \E i \in Items : item[i] = "COMPLETE"

\* A closed run has the computed metrics of its successful items and of no other:
\* the answers the callback works from agree with the rows the header tasks wrote,
\* also when header tasks or the callback were executed again.
MetricsMatchSuccess ==
    Exists /\ run.status \in Final =>
        \A i \in Items : metrics[i] > 0 <=> item[i] = "COMPLETE"

\* Once closed, a run is not opened again and its progress does not move.
ClosedStaysClosed ==
    [][Exists /\ run.status \in Final /\ run' # None => run' = run]_vars

\* An item has scores only beside its computed metrics: also when a second chord of
\* the same run, or a callback that starts over, runs beside the first's scorers.
ScoresBesideMetrics ==
    \A i \in Items : scores[i] > 0 => metrics[i] > 0

\* A run whose launch was enqueued is closed in the end or deleted, though launch,
\* header tasks and callback lose their workers and messages are delivered twice.
\* It holds as long as no header task raises; gateway_client.py says of
\* chat_completion that it "Never raises for an upstream failure", but answers that are not JSON do raise.
RunFinishes ==
    launch.step = "queued" ~> (~Exists \/ run.status \in Final)

\* The promise, for the chord of the first launch: an item is answered when the
\* result backend has its answer.
AnswerOf(i) ==
    LET ps == {p \in parts[1] \cup aggregate[1].results : p.item = i}
    IN IF \E p \in ps : p.outcome # "error"
       THEN (CHOOSE p \in ps : p.outcome # "error").outcome ELSE None

Promise == INSTANCE BenchmarkPromise WITH
    phase  <- IF Exists /\ run.status \in Final THEN run.status ELSE "open",
    answer <- [i \in Items |-> AnswerOf(i)]

\* With one launch and no message delivered twice, the run implements its promise,
\* crashes of header tasks and of the callback and raising header tasks included.
Implements == Promise!Spec

=============================================================================
