--------------------------- MODULE BenchmarkProofs ---------------------------
(***************************************************************************)
(* Theorems about Benchmark.                                               *)
(*                                                                         *)
(* For every number of chords, deliveries and failures: types (Typed adds  *)
(* that what has an answer has one about its own item, and that the sets   *)
(* of answers are finite), and ScoresBesideMetrics, by Scored.             *)
(*                                                                         *)
(* For a run with one chord whose messages are delivered once, whatever    *)
(* crashes, raises or is deleted: OneInv ties the four places an answer    *)
(* is in together.  A delivery past its store has told the item's row      *)
(* (Told); the result backend, then the callback, has the answers of the   *)
(* deliveries that are done, and of all items once it starts (Gathered,    *)
(* which needs that N answers of S items make S all of them); metrics are  *)
(* those of the answers (Measured); a closed run is past its callback      *)
(* (Closed).  What the run promises follows.                               *)
(***************************************************************************)
EXTENDS Benchmark, FiniteSetTheorems, TLAPS

USE BenchmarkAssumption, NoneAssumption

Steps == {"none", "queued", "calling", "failing", "answered", "stored", "counted", "returning", "done"}

\* What has an answer has one about its own item.
Answered == {"answered", "stored", "counted", "returning", "done"}

Answers ==
    \A x \in Deliveries : exec[x].step \in Answered => exec[x].part \in Part /\ exec[x].part.item = x[2]

Finite ==
    \A c \in Chords : IsFiniteSet(parts[c]) /\ IsFiniteSet(aggregate[c].results)

Sending == launch.step = "sending" => launch.chord \in Chords

Typed == TypeOK /\ Answers /\ Finite /\ Sending

-----------------------------------------------------------------------------
(* Counting *)

LEMMA Counting ==
    /\ N \in Nat \ {0}
    /\ \A S \in SUBSET Items : /\ IsFiniteSet(S) /\ Cardinality(S) \in 0..N
                               /\ Cardinality(S) = N => S = Items
<1>1. N \in Nat /\ N # 0
    BY FS_CardinalityType, FS_EmptySet DEF N
<1>2. ASSUME NEW S \in SUBSET Items
      PROVE  IsFiniteSet(S) /\ Cardinality(S) \in 0..N /\ (Cardinality(S) = N => S = Items)
    <2>1. IsFiniteSet(S) /\ Cardinality(S) <= N /\ (Cardinality(S) = N => S = Items)
        BY FS_Subset DEF N
    <2>2. Cardinality(S) \in Nat
        BY <2>1, FS_CardinalityType
    <2> QED BY <1>1, <2>1, <2>2
<1> QED BY <1>1, <1>2

LEMMA DoneType == Done \in 0..N
<1>1. {i \in Items : item[i] \in Final} \in SUBSET Items
    OBVIOUS
<1> QED BY <1>1, Counting DEF Done

-----------------------------------------------------------------------------
(* What the steps of a header task do to its delivery                          *)

Others(x) == \A y \in Deliveries \ {x} : exec'[y] = exec[y]

Answer(x, o, a) == [item |-> x[2], outcome |-> o, attempt |-> a]

Becomes(x, s, p, n) ==
    /\ exec' \in [Deliveries -> Exec]
    /\ exec'[x].step = s /\ exec'[x].part = p /\ exec'[x].seen = n
    /\ Others(x)

LEMMA PutBecomes ==
    ASSUME exec \in [Deliveries -> Exec], NEW x \in Deliveries, NEW e \in Exec,
           exec' = [exec EXCEPT ![x] = e]
    PROVE  Becomes(x, e.step, e.part, e.seen)
BY DEF Becomes, Others

LEMMA StepBecomes ==
    ASSUME exec \in [Deliveries -> Exec], NEW x \in Deliveries, NEW s \in Steps, Step(x, s)
    PROVE  Becomes(x, s, exec[x].part, exec[x].seen)
<1> DEFINE e == [exec[x] EXCEPT !.step = s]
<1>1. exec[x] \in Exec
    OBVIOUS
<1>2. e \in Exec /\ e.step = s /\ e.part = exec[x].part /\ e.seen = exec[x].seen
    BY <1>1 DEF Exec, Steps
<1>3. exec' = [exec EXCEPT ![x] = e]
    BY DEF Step
<1> HIDE DEF e
<1> QED BY <1>2, <1>3, PutBecomes

LEMMA CountBecomes ==
    ASSUME exec \in [Deliveries -> Exec], NEW x \in Deliveries, NEW s \in Steps, NEW n \in 0..N,
           exec' = [exec EXCEPT ![x].step = s, ![x].seen = n]
    PROVE  Becomes(x, s, exec[x].part, n)
<1> DEFINE e == [exec[x] EXCEPT !.step = s, !.seen = n]
<1>1. exec[x] \in Exec
    OBVIOUS
<1>2. e \in Exec /\ e.step = s /\ e.part = exec[x].part /\ e.seen = n
    BY <1>1 DEF Exec, Steps
<1>3. exec' = [exec EXCEPT ![x] = e]
    OBVIOUS
<1> HIDE DEF e
<1> QED BY <1>2, <1>3, PutBecomes

LEMMA AnswerBecomes ==
    ASSUME exec \in [Deliveries -> Exec], NEW x \in Deliveries, NEW s \in Steps,
           NEW o \in Outcomes, NEW a \in Attempts \cup {None},
           exec' = [exec EXCEPT ![x].step = s,
                                ![x].part = [item |-> x[2], outcome |-> o, attempt |-> a]]
    PROVE  /\ [item |-> x[2], outcome |-> o, attempt |-> a] \in Part
           /\ Becomes(x, s, [item |-> x[2], outcome |-> o, attempt |-> a], exec[x].seen)
<1> DEFINE p == [item |-> x[2], outcome |-> o, attempt |-> a]
           e == [exec[x] EXCEPT !.step = s, !.part = p]
<1>1. exec[x] \in Exec /\ x[2] \in Items
    BY DEF Deliveries
<1>2. p \in Part
    BY <1>1 DEF Part
<1>3. exec' = [exec EXCEPT ![x] = e]
    OBVIOUS
<1> HIDE DEF p
<1>4. e \in Exec /\ e.step = s /\ e.part = p /\ e.seen = exec[x].seen
    BY <1>1, <1>2 DEF Exec, Steps
<1> HIDE DEF e
<1>5. Becomes(x, s, p, exec[x].seen)
    BY <1>3, <1>4, PutBecomes
<1> QED BY <1>2, <1>5 DEF p

\* What each step of a header task makes of its delivery.
LEMMA HeaderSteps ==
    ASSUME Typed, NEW x \in Deliveries
    PROVE  /\ ItemStart(x) =>
                /\ exec[x].step = "queued"
                /\ \/ Exists /\ Becomes(x, "calling", exec[x].part, exec[x].seen)
                   \/ ~Exists /\ Becomes(x, "returning", Answer(x, "missing", None), exec[x].seen)
           /\ ItemCall(x) =>
                /\ exec[x].step = "calling"
                /\ \/ Becomes(x, "failing", exec[x].part, exec[x].seen)
                   \/ \E o \in {"complete", "failed"} :
                        Becomes(x, "answered", Answer(x, o, x[3]), exec[x].seen)
                   \/ Becomes(x, "returning", Answer(x, "error", None), exec[x].seen)
           /\ ItemFail(x) =>
                exec[x].step = "failing" /\ Becomes(x, "returning", Answer(x, "failed", None), exec[x].seen)
           /\ ItemStore(x) =>
                exec[x].step = "answered" /\ Becomes(x, "stored", exec[x].part, exec[x].seen)
           /\ ProgressCount(x) =>
                exec[x].step = "stored" /\ Becomes(x, "counted", exec[x].part, Done)
           /\ ProgressWrite(x) =>
                exec[x].step = "counted" /\ Becomes(x, "returning", exec[x].part, 0)
           /\ ItemReturn(x) =>
                exec[x].step = "returning" /\ Becomes(x, "done", exec[x].part, exec[x].seen)
           /\ ItemCrashes(x) =>
                exec[x].step \notin {"none", "queued", "done"} /\ Becomes(x, "queued", None, 0)
<1>0. exec \in [Deliveries -> Exec] /\ x[2] \in Items /\ x[3] \in Attempts
    BY DEF Typed, TypeOK, Deliveries
<1>a. 0 \in 0..N /\ Done \in 0..N
    BY Counting, DoneType
<1>b. {"queued", "calling", "failing", "stored", "counted", "returning", "done", "answered"} \subseteq Steps
    BY DEF Steps
<1>1. ItemStart(x) =>
        /\ exec[x].step = "queued"
        /\ \/ Exists /\ Becomes(x, "calling", exec[x].part, exec[x].seen)
           \/ ~Exists /\ Becomes(x, "returning", Answer(x, "missing", None), exec[x].seen)
    BY <1>0, <1>b, StepBecomes, AnswerBecomes DEF ItemStart, Return, Answer, Outcomes
<1>2. ItemCall(x) =>
        /\ exec[x].step = "calling"
        /\ \/ Becomes(x, "failing", exec[x].part, exec[x].seen)
           \/ \E o \in {"complete", "failed"} :
                Becomes(x, "answered", Answer(x, o, x[3]), exec[x].seen)
           \/ Becomes(x, "returning", Answer(x, "error", None), exec[x].seen)
    BY <1>0, <1>b, StepBecomes, AnswerBecomes DEF ItemCall, Return, Answer, Outcomes
<1>3. ItemFail(x) =>
        exec[x].step = "failing" /\ Becomes(x, "returning", Answer(x, "failed", None), exec[x].seen)
    BY <1>0, <1>b, AnswerBecomes DEF ItemFail, Return, Answer, Outcomes
<1>4. ItemStore(x) =>
        exec[x].step = "answered" /\ Becomes(x, "stored", exec[x].part, exec[x].seen)
    BY <1>0, <1>b, StepBecomes DEF ItemStore
<1>5. ProgressCount(x) =>
        exec[x].step = "stored" /\ Becomes(x, "counted", exec[x].part, Done)
    BY <1>0, <1>a, <1>b, CountBecomes DEF ProgressCount
<1>6. ProgressWrite(x) =>
        exec[x].step = "counted" /\ Becomes(x, "returning", exec[x].part, 0)
    BY <1>0, <1>a, <1>b, CountBecomes DEF ProgressWrite
<1>7. ItemReturn(x) =>
        exec[x].step = "returning" /\ Becomes(x, "done", exec[x].part, exec[x].seen)
    BY <1>0, <1>b, StepBecomes DEF ItemReturn
<1>8. ItemCrashes(x) =>
        exec[x].step \notin {"none", "queued", "done"} /\ Becomes(x, "queued", None, 0)
    <2>1. [NoExec EXCEPT !.step = "queued"] \in Exec
        BY <1>a DEF NoExec, Exec
    <2>2. ItemCrashes(x) => exec' = [exec EXCEPT ![x] = [NoExec EXCEPT !.step = "queued"]]
        BY DEF ItemCrashes
    <2>3. /\ [NoExec EXCEPT !.step = "queued"].step = "queued"
          /\ [NoExec EXCEPT !.step = "queued"].part = None
          /\ [NoExec EXCEPT !.step = "queued"].seen = 0
        BY DEF NoExec
    <2> HIDE DEF NoExec
    <2>4. ItemCrashes(x) => Becomes(x, "queued", None, 0)
        BY <1>0, <2>1, <2>2, <2>3, PutBecomes
    <2> QED BY <2>4 DEF ItemCrashes
<1> QED BY <1>1, <1>2, <1>3, <1>4, <1>5, <1>6, <1>7, <1>8

\* A delivery that is sent, or sent again.
LEMMA QueuedBecomes ==
    ASSUME exec \in [Deliveries -> Exec], NEW x \in Deliveries,
           exec' = [exec EXCEPT ![x].step = "queued"]
    PROVE  Becomes(x, "queued", exec[x].part, exec[x].seen)
BY StepBecomes DEF Step, Steps

LEMMA AnswersKept ==
    ASSUME Typed, NEW x \in Deliveries, NEW s, NEW p, NEW n, Becomes(x, s, p, n),
           s \in Answered => p \in Part /\ p.item = x[2]
    PROVE  exec' \in [Deliveries -> Exec] /\ Answers'
BY DEF Becomes, Others, Answers, Typed

LEMMA AnswerType ==
    ASSUME NEW x \in Deliveries, NEW o \in Outcomes, NEW a \in Attempts \cup {None}
    PROVE  Answer(x, o, a) \in Part /\ Answer(x, o, a).item = x[2] /\ Answer(x, o, a).outcome = o
BY DEF Answer, Part, Deliveries

-----------------------------------------------------------------------------
(* Types *)

LEMMA InitTyped == Init => Typed
<1> SUFFICES ASSUME Init PROVE Typed
    OBVIOUS
<1>1. 0 \in 0..N
    BY Counting
<1>2. NoExec \in Exec /\ NoExec.step \notin Answered
    BY <1>1 DEF NoExec, Exec, Answered
<1>3. NoAggregate \in Aggregate /\ NoAggregate.results = {}
    BY <1>1 DEF NoAggregate, Aggregate
<1>4. exec \in [Deliveries -> Exec] /\ Answers
    BY <1>2 DEF Init, Answers, Deliveries
<1>5. aggregate \in [Chords -> Aggregate] /\ parts \in [Chords -> SUBSET Part] /\ Finite
    BY <1>3, FS_EmptySet DEF Init, Finite
<1>6. launch \in Launch /\ Sending
    BY DEF Init, Launch, Sending
<1> QED BY <1>4, <1>5, <1>6 DEF Init, Typed, TypeOK, ItemStatuses, Deliveries

\* The steps of a header task that leave the rows of the chord alone.
LEMMA TaskTyped ==
    ASSUME Typed, NEW x \in Deliveries,
           ItemStart(x) \/ ItemCall(x) \/ ItemFail(x) \/ ItemStore(x) \/ ProgressCount(x)
             \/ ProgressWrite(x) \/ ItemCrashes(x)
    PROVE  Typed'
<1>1. exec' \in [Deliveries -> Exec] /\ Answers'
    <2>1. exec[x].step \in Answered => exec[x].part \in Part /\ exec[x].part.item = x[2]
        BY DEF Typed, Answers
    <2>2. /\ \A o \in {"missing", "error", "failed"} :
               Answer(x, o, None) \in Part /\ Answer(x, o, None).item = x[2]
          /\ \A o \in {"complete", "failed"} :
               Answer(x, o, x[3]) \in Part /\ Answer(x, o, x[3]).item = x[2]
        BY AnswerType DEF Outcomes, Deliveries
    <2>3. CASE ItemStart(x)
        BY <2>2, <2>3, HeaderSteps, AnswersKept DEF Answered
    <2>4. CASE ItemCall(x)
        BY <2>2, <2>4, HeaderSteps, AnswersKept DEF Answered
    <2>5. CASE ItemFail(x)
        BY <2>2, <2>5, HeaderSteps, AnswersKept
    <2>6. CASE ItemStore(x)
        BY <2>1, <2>6, HeaderSteps, AnswersKept DEF Answered
    <2>7. CASE ProgressCount(x)
        BY <2>1, <2>7, HeaderSteps, AnswersKept DEF Answered
    <2>8. CASE ProgressWrite(x)
        BY <2>1, <2>8, HeaderSteps, AnswersKept DEF Answered
    <2>9. CASE ItemCrashes(x)
        BY <2>9, HeaderSteps, AnswersKept DEF Answered
    <2> QED BY <2>3, <2>4, <2>5, <2>6, <2>7, <2>8, <2>9
<1>2. UNCHANGED <<file, launch, sent, parts, aggregate, metrics, scores, scoring>>
    BY DEF ItemStart, ItemCall, ItemFail, ItemStore, ProgressCount, ProgressWrite, ItemCrashes
<1>3. faults' \in 0..MaxFaults
    BY DEF ItemStart, ItemCall, ItemFail, ItemStore, ProgressCount, ProgressWrite, ItemCrashes, Fault,
           Typed, TypeOK
<1>4. item' \in [Items -> ItemStatuses]
    BY DEF ItemStart, ItemCall, ItemFail, ItemStore, ProgressCount, ProgressWrite, ItemCrashes, SetItem,
           Typed, TypeOK, ItemStatuses, Final
<1>5. run' \in Run \cup {None}
    <2>1. CASE ProgressWrite(x)
        <3>1. exec[x].seen \in 0..N
            BY DEF Typed, TypeOK, Exec, Deliveries
        <3> QED BY <2>1, <3>1 DEF ProgressWrite, SetDone, Exists, Run, Typed, TypeOK
    <2>2. CASE run' = run
        BY <2>2 DEF Typed, TypeOK
    <2> QED BY <2>1, <2>2 DEF ItemStart, ItemCall, ItemFail, ItemStore, ProgressCount, ItemCrashes
<1> QED BY <1>1, <1>2, <1>3, <1>4, <1>5 DEF Typed, TypeOK, Finite, Sending, Deliveries

\* The rows of the callback.
AggregateIs(c, s, r, n) ==
    /\ aggregate' \in [Chords -> Aggregate]
    /\ aggregate'[c].step = s /\ aggregate'[c].results = r /\ aggregate'[c].seen = n
    /\ \A d \in Chords \ {c} : aggregate'[d] = aggregate[d]

AggregateSteps == {"none", "queued", "metrics", "scorers", "count", "close", "done", "failed"}

LEMMA AggregatePut ==
    ASSUME aggregate \in [Chords -> Aggregate], NEW c \in Chords, NEW e \in Aggregate,
           aggregate' = [aggregate EXCEPT ![c] = e]
    PROVE  AggregateIs(c, e.step, e.results, e.seen)
BY DEF AggregateIs

LEMMA AggregateStepIs ==
    ASSUME aggregate \in [Chords -> Aggregate], NEW c \in Chords, NEW s \in AggregateSteps,
           AggregateStep(c, s)
    PROVE  AggregateIs(c, s, aggregate[c].results, aggregate[c].seen)
<1> DEFINE e == [aggregate[c] EXCEPT !.step = s]
<1>1. aggregate[c] \in Aggregate
    OBVIOUS
<1>2. e \in Aggregate /\ e.step = s /\ e.results = aggregate[c].results /\ e.seen = aggregate[c].seen
    BY <1>1 DEF Aggregate, AggregateSteps
<1>3. aggregate' = [aggregate EXCEPT ![c] = e]
    BY DEF AggregateStep
<1> HIDE DEF e
<1> QED BY <1>2, <1>3, AggregatePut

LEMMA AggregateCountIs ==
    ASSUME aggregate \in [Chords -> Aggregate], NEW c \in Chords, NEW s \in AggregateSteps, NEW n \in 0..N,
           aggregate' = [aggregate EXCEPT ![c].step = s, ![c].seen = n]
    PROVE  AggregateIs(c, s, aggregate[c].results, n)
<1> DEFINE e == [aggregate[c] EXCEPT !.step = s, !.seen = n]
<1>1. aggregate[c] \in Aggregate
    OBVIOUS
<1>2. e \in Aggregate /\ e.step = s /\ e.results = aggregate[c].results /\ e.seen = n
    BY <1>1 DEF Aggregate, AggregateSteps
<1>3. aggregate' = [aggregate EXCEPT ![c] = e]
    OBVIOUS
<1> HIDE DEF e
<1> QED BY <1>2, <1>3, AggregatePut

\* What a step of the callback makes of it.
LEMMA CallbackSteps ==
    ASSUME Typed, NEW c \in Chords
    PROVE  /\ AggregateRead(c) =>
                /\ aggregate[c].step = "queued"
                /\ \/ Exists /\ AggregateIs(c, "metrics", aggregate[c].results, aggregate[c].seen)
                   \/ ~Exists /\ AggregateIs(c, "done", aggregate[c].results, aggregate[c].seen)
           /\ WriteMetrics(c) =>
                /\ aggregate[c].step = "metrics"
                /\ \/ /\ Exists \/ Succeeded(c) = {}
                      /\ AggregateIs(c, "scorers", aggregate[c].results, aggregate[c].seen)
                   \/ ~Exists /\ AggregateIs(c, "failed", aggregate[c].results, aggregate[c].seen)
           /\ DispatchScorers(c) =>
                /\ aggregate[c].step = "scorers"
                /\ AggregateIs(c, "count", aggregate[c].results, aggregate[c].seen)
           /\ AggregateCount(c) =>
                aggregate[c].step = "count" /\ AggregateIs(c, "close", aggregate[c].results, Done)
           /\ CloseRun(c) =>
                aggregate[c].step = "close" /\ AggregateIs(c, "done", aggregate[c].results, 0)
           /\ AggregateCrashes(c) =>
                /\ aggregate[c].step \notin {"none", "queued", "done", "failed"}
                /\ AggregateIs(c, "queued", aggregate[c].results, 0)
<1>1. aggregate \in [Chords -> Aggregate] /\ 0 \in 0..N /\ Done \in 0..N
    BY Counting, DoneType DEF Typed, TypeOK
<1>2. {"queued", "metrics", "scorers", "count", "close", "done", "failed"} \subseteq AggregateSteps
    BY DEF AggregateSteps
<1>3. AggregateRead(c) =>
        /\ aggregate[c].step = "queued"
        /\ \/ Exists /\ AggregateIs(c, "metrics", aggregate[c].results, aggregate[c].seen)
           \/ ~Exists /\ AggregateIs(c, "done", aggregate[c].results, aggregate[c].seen)
    BY <1>1, <1>2, AggregateStepIs DEF AggregateRead
<1>4. WriteMetrics(c) =>
        /\ aggregate[c].step = "metrics"
        /\ \/ /\ Exists \/ Succeeded(c) = {}
              /\ AggregateIs(c, "scorers", aggregate[c].results, aggregate[c].seen)
           \/ ~Exists /\ AggregateIs(c, "failed", aggregate[c].results, aggregate[c].seen)
    BY <1>1, <1>2, AggregateStepIs DEF WriteMetrics
<1>5. DispatchScorers(c) =>
        /\ aggregate[c].step = "scorers"
        /\ AggregateIs(c, "count", aggregate[c].results, aggregate[c].seen)
    BY <1>1, <1>2, AggregateStepIs DEF DispatchScorers
<1>6. AggregateCount(c) =>
        aggregate[c].step = "count" /\ AggregateIs(c, "close", aggregate[c].results, Done)
    BY <1>1, <1>2, AggregateCountIs DEF AggregateCount
<1>7. CloseRun(c) =>
        aggregate[c].step = "close" /\ AggregateIs(c, "done", aggregate[c].results, 0)
    BY <1>1, <1>2, AggregateCountIs DEF CloseRun
<1>8. AggregateCrashes(c) =>
        /\ aggregate[c].step \notin {"none", "queued", "done", "failed"}
        /\ AggregateIs(c, "queued", aggregate[c].results, 0)
    BY <1>1, <1>2, AggregateCountIs DEF AggregateCrashes
<1> QED BY <1>3, <1>4, <1>5, <1>6, <1>7, <1>8

\* An answer reaches the result backend, which starts the callback or not.
LEMMA ReturnSteps ==
    ASSUME Typed, NEW x \in Deliveries, ItemReturn(x)
    PROVE  LET c == x[1]
               ps == parts[c] \cup {exec[x].part}
           IN  /\ c \in Chords /\ ps \in SUBSET Part /\ IsFiniteSet(ps)
               /\ exec[x].part \in Part /\ exec[x].part.item = x[2]
               /\ \/ /\ Reached(c, ps) /\ aggregate[c].step = "none"
                     /\ parts' = [parts EXCEPT ![c] = {}]
                     /\ \/ /\ \E p \in ps : p.outcome = "error"
                           /\ AggregateIs(c, "failed", ps, 0)
                        \/ /\ \A p \in ps : p.outcome # "error"
                           /\ AggregateIs(c, "queued", ps, 0)
                  \/ /\ ~(Reached(c, ps) /\ aggregate[c].step = "none")
                     /\ parts' = [parts EXCEPT ![c] = ps] /\ aggregate' = aggregate
<1> DEFINE c == x[1]
           ps == parts[c] \cup {exec[x].part}
           s == IF \E p \in ps : p.outcome = "error" THEN "failed" ELSE "queued"
           e == [NoAggregate EXCEPT !.step = s, !.results = ps]
<1>1. c \in Chords /\ exec[x].step = "returning"
    BY DEF Deliveries, ItemReturn
<1>2. exec[x].part \in Part /\ exec[x].part.item = x[2]
    BY <1>1 DEF Typed, Answers, Answered
<1>3. ps \in SUBSET Part /\ IsFiniteSet(ps)
    BY <1>1, <1>2, FS_AddElement DEF Typed, TypeOK, Finite
<1>4. IF Reached(c, ps) /\ aggregate[c].step = "none"
      THEN parts' = [parts EXCEPT ![c] = {}] /\ aggregate' = [aggregate EXCEPT ![c] = e]
      ELSE parts' = [parts EXCEPT ![c] = ps] /\ aggregate' = aggregate
    BY DEF ItemReturn
<1> HIDE DEF c, ps
<1>5. e \in Aggregate /\ e.step = s /\ e.results = ps /\ e.seen = 0
    <2>1. s \in {"queued", "failed"} /\ 0 \in 0..N
        BY Counting
    <2> HIDE DEF s
    <2> QED BY <1>3, <2>1 DEF NoAggregate, Aggregate
<1> HIDE DEF e
<1>6. aggregate' = [aggregate EXCEPT ![c] = e] => AggregateIs(c, s, ps, 0)
    <2> HIDE DEF s
    <2>1. aggregate \in [Chords -> Aggregate]
        BY DEF Typed, TypeOK
    <2>2. aggregate' = [aggregate EXCEPT ![c] = e] => AggregateIs(c, e.step, e.results, e.seen)
        BY <1>1, <1>5, <2>1, AggregatePut
    <2> QED BY <1>5, <2>2
<1>7. \/ s = "failed" /\ \E p \in ps : p.outcome = "error"
      \/ s = "queued" /\ \A p \in ps : p.outcome # "error"
    OBVIOUS
<1> HIDE DEF s
<1> QED BY <1>1, <1>2, <1>3, <1>4, <1>6, <1>7 DEF c, ps

LEMMA ReturnTyped ==
    ASSUME Typed, NEW x \in Deliveries, ItemReturn(x)
    PROVE  Typed'
<1>1. exec' \in [Deliveries -> Exec] /\ Answers'
    BY HeaderSteps, ReturnSteps, AnswersKept
<1>2. UNCHANGED <<run, item, file, launch, sent, metrics, scores, scoring, faults>>
    BY DEF ItemReturn
<1>3. parts' \in [Chords -> SUBSET Part] /\ \A c \in Chords : IsFiniteSet(parts'[c])
    <2> DEFINE c == x[1]
    <2>1. \E ps \in SUBSET Part : IsFiniteSet(ps) /\ parts' = [parts EXCEPT ![c] = ps]
        BY ReturnSteps, FS_EmptySet
    <2> HIDE DEF c
    <2> QED BY <2>1 DEF Typed, TypeOK, Finite
<1>4. aggregate' \in [Chords -> Aggregate] /\ \A c \in Chords : IsFiniteSet(aggregate'[c].results)
    BY ReturnSteps DEF Typed, TypeOK, Finite, AggregateIs
<1> QED BY <1>1, <1>2, <1>3, <1>4 DEF Typed, TypeOK, Finite, Sending, Deliveries

LEMMA CallbackTyped ==
    ASSUME Typed, NEW c \in Chords, AggregateStepOf(c) \/ AggregateCrashes(c)
    PROVE  Typed'
<1>1. \E s, n : AggregateIs(c, s, aggregate[c].results, n)
    BY CallbackSteps DEF AggregateStepOf
<1>2. aggregate' \in [Chords -> Aggregate] /\ \A d \in Chords : IsFiniteSet(aggregate'[d].results)
    BY <1>1 DEF AggregateIs, Typed, Finite
<1>3. UNCHANGED <<item, file, launch, sent, exec, parts, scores>>
    BY DEF AggregateStepOf, AggregateRead, WriteMetrics, DispatchScorers, AggregateCount, CloseRun,
           AggregateCrashes
<1>4. faults' \in 0..MaxFaults
    BY DEF AggregateStepOf, AggregateRead, WriteMetrics, DispatchScorers, AggregateCount, CloseRun,
           AggregateCrashes, Fault, Typed, TypeOK
<1>5. metrics' \in [Items -> Nat]
    <2>1. CASE WriteMetrics(c) /\ Exists
        <3> DEFINE Wins(i) == {p \in aggregate[c].results : p.item = i /\ p.outcome = "complete"}
        <3>1. \A i \in Items : Cardinality(Wins(i)) \in Nat
            BY FS_Subset, FS_CardinalityType DEF Typed, Finite
        <3>2. metrics' = [i \in Items |-> metrics[i] + Cardinality(Wins(i))]
            BY <2>1 DEF WriteMetrics
        <3> HIDE DEF Wins
        <3> QED BY <3>1, <3>2 DEF Typed, TypeOK
    <2>2. CASE metrics' = metrics
        BY <2>2 DEF Typed, TypeOK
    <2> QED BY <2>1, <2>2 DEF AggregateStepOf, AggregateRead, WriteMetrics, DispatchScorers, AggregateCount,
                CloseRun, AggregateCrashes
<1>6. scoring' \in [Chords -> Nat]
    <2>1. scoring' = scoring \/ scoring' = [scoring EXCEPT ![c] = @ + Scorers]
        BY DEF AggregateStepOf, AggregateRead, WriteMetrics, DispatchScorers, AggregateCount, CloseRun,
               AggregateCrashes
    <2> QED BY <2>1 DEF Typed, TypeOK
<1>7. run' \in Run \cup {None}
    <2>1. CASE CloseRun(c)
        <3>1. aggregate[c].seen \in 0..N
            BY DEF Typed, TypeOK, Aggregate
        <3> QED BY <2>1, <3>1 DEF CloseRun, Run, Final, Typed, TypeOK
    <2>2. CASE run' = run
        BY <2>2 DEF Typed, TypeOK
    <2> QED BY <2>1, <2>2 DEF AggregateStepOf, AggregateRead, WriteMetrics, DispatchScorers, AggregateCount,
                AggregateCrashes
<1> QED BY <1>2, <1>3, <1>4, <1>5, <1>6, <1>7 DEF Typed, TypeOK, Finite, Sending, Answers, Deliveries

LEMMA LaunchTyped ==
    ASSUME Typed, StartRun \/ UnlinkDataset \/ DeleteDataset \/ Prepare \/ LaunchCrashes \/ LaunchAgain
    PROVE  Typed'
<1>1. UNCHANGED <<item, sent, exec, parts, aggregate, metrics, scores, scoring>>
    BY DEF StartRun, UnlinkDataset, DeleteDataset, Prepare, LaunchCrashes, LaunchAgain
<1>2. faults' \in 0..MaxFaults
    BY DEF StartRun, UnlinkDataset, DeleteDataset, Prepare, LaunchCrashes, LaunchAgain, Fault, Typed, TypeOK
<1>3. file' \in BOOLEAN
    BY DEF StartRun, UnlinkDataset, DeleteDataset, Prepare, LaunchCrashes, LaunchAgain, Typed, TypeOK
<1>4. launch' \in Launch /\ Sending'
    BY DEF StartRun, UnlinkDataset, DeleteDataset, Prepare, LaunchCrashes, LaunchAgain, Typed, TypeOK, Launch,
           Sending
<1>5. run' \in Run \cup {None}
    <2>1. [status |-> "PENDING", done |-> 0] \in Run
        BY Counting DEF Run
    <2>2. Exists => [run EXCEPT !.status = "RUNNING"] \in Run
        BY DEF Exists, Run, Typed, TypeOK
    <2> QED BY <2>1, <2>2 DEF StartRun, UnlinkDataset, DeleteDataset, Prepare, LaunchCrashes, LaunchAgain,
                Typed, TypeOK
<1> QED BY <1>1, <1>2, <1>3, <1>4, <1>5 DEF Typed, TypeOK, Finite, Sending, Answers, Deliveries

\* A header message that is sent, or sent again.
LEMMA QueueBecomes ==
    ASSUME Typed
    PROVE  /\ \A i \in Items : SendHeader(i) =>
                LET y == <<launch.chord, i, 1>>
                IN  /\ launch.chord \in Chords /\ y \in Deliveries
                    /\ Becomes(y, "queued", exec[y].part, exec[y].seen)
           /\ \A x \in Deliveries : ItemAgain(x) =>
                \E a \in Attempts :
                    LET y == <<x[1], x[2], a>>
                    IN  /\ \A b \in Attempts : exec[<<x[1], x[2], b>>].step = "none" <=> b >= a
                        /\ y \in Deliveries /\ Becomes(y, "queued", exec[y].part, exec[y].seen)
<1>1. exec \in [Deliveries -> Exec]
    BY DEF Typed, TypeOK, Deliveries
<1>2. ASSUME NEW i \in Items, SendHeader(i)
      PROVE  LET y == <<launch.chord, i, 1>>
             IN  /\ launch.chord \in Chords /\ y \in Deliveries
                 /\ Becomes(y, "queued", exec[y].part, exec[y].seen)
    <2>1. launch.chord \in Chords /\ 1 \in Attempts
        BY <1>2 DEF SendHeader, Typed, Sending, Attempts
    <2>2. <<launch.chord, i, 1>> \in Deliveries
        BY <2>1 DEF Deliveries
    <2> QED BY <1>1, <1>2, <2>1, <2>2, QueuedBecomes DEF SendHeader
<1>3. ASSUME NEW x \in Deliveries, ItemAgain(x)
      PROVE  \E a \in Attempts :
                LET y == <<x[1], x[2], a>>
                IN  /\ \A b \in Attempts : exec[<<x[1], x[2], b>>].step = "none" <=> b >= a
                    /\ y \in Deliveries /\ Becomes(y, "queued", exec[y].part, exec[y].seen)
    <2>1. PICK a \in Attempts :
            /\ \A b \in Attempts : exec[<<x[1], x[2], b>>].step = "none" <=> b >= a
            /\ exec' = [exec EXCEPT ![<<x[1], x[2], a>>].step = "queued"]
        BY <1>3 DEF ItemAgain
    <2>2. <<x[1], x[2], a>> \in Deliveries
        BY DEF Deliveries
    <2> QED BY <1>1, <2>1, <2>2, QueuedBecomes
<1> QED BY <1>2, <1>3

LEMMA QueueTyped ==
    ASSUME Typed,
           \/ \E i \in Items : SendHeader(i)
           \/ \E x \in Deliveries : ItemAgain(x)
    PROVE  Typed'
<1>1. exec' \in [Deliveries -> Exec] /\ Answers'
    <2>1. PICK y \in Deliveries : Becomes(y, "queued", exec[y].part, exec[y].seen)
        BY QueueBecomes
    <2> QED BY <2>1, AnswersKept DEF Answered
<1>2. UNCHANGED <<run, item, file, parts, aggregate, metrics, scores, scoring>>
    BY DEF SendHeader, ItemAgain
<1>3. faults' \in 0..MaxFaults
    <2>1. faults' = faults \/ (faults < MaxFaults /\ faults' = faults + 1)
        BY DEF SendHeader, ItemAgain, Fault
    <2> QED BY <2>1 DEF Typed, TypeOK
<1>4. sent' \in [Chords -> SUBSET Items]
    <2>1. sent' = sent \/ \E i \in Items : sent' = [sent EXCEPT ![launch.chord] = @ \cup {i}]
        BY DEF SendHeader, ItemAgain
    <2> QED BY <2>1 DEF Typed, TypeOK
<1>5. launch' \in Launch /\ Sending'
    BY DEF SendHeader, ItemAgain, Typed, TypeOK, Launch, Sending
<1> QED BY <1>1, <1>2, <1>3, <1>4, <1>5 DEF Typed, TypeOK, Finite, Deliveries

LEMMA ScoreTyped ==
    ASSUME Typed, NEW c \in Chords, Score(c)
    PROVE  Typed'
<1>1. UNCHANGED <<run, item, file, launch, sent, exec, parts, aggregate, metrics, faults>>
    BY DEF Score
<1>2. scoring' \in [Chords -> Nat]
    <2>1. scoring[c] \in Nat /\ scoring[c] > 0
        BY DEF Score, Typed, TypeOK
    <2> QED BY <2>1 DEF Score, Typed, TypeOK
<1>3. scores' \in [Items -> Nat]
    BY DEF Score, Typed, TypeOK
<1> QED BY <1>1, <1>2, <1>3 DEF Typed, TypeOK, Finite, Sending, Answers, Deliveries

LEMMA StepTyped == Typed /\ [Next]_vars => Typed'
<1> SUFFICES ASSUME Typed, [Next]_vars PROVE Typed'
    OBVIOUS
<1>1. CASE UNCHANGED vars
    BY <1>1 DEF vars, Typed, TypeOK, Finite, Sending, Answers, Deliveries
<1>2. CASE StartRun \/ UnlinkDataset \/ DeleteDataset \/ Prepare \/ LaunchCrashes \/ LaunchAgain
    BY <1>2, LaunchTyped
<1>3. CASE (\E i \in Items : SendHeader(i)) \/ (\E x \in Deliveries : ItemAgain(x))
    BY <1>3, QueueTyped
<1>4. ASSUME NEW x \in Deliveries, ItemStep(x) \/ ItemCrashes(x) PROVE Typed'
    BY <1>4, TaskTyped, ReturnTyped DEF ItemStep
<1>5. ASSUME NEW c \in Chords, AggregateStepOf(c) \/ AggregateCrashes(c) PROVE Typed'
    BY <1>5, CallbackTyped
<1>6. ASSUME NEW c \in Chords, Score(c) PROVE Typed'
    BY <1>6, ScoreTyped
<1> QED BY <1>1, <1>2, <1>3, <1>4, <1>5, <1>6 DEF Next, Faults, LaunchStep

\* Rows, messages, deliveries, answers and scores keep their shape, for every
\* number of items, chords, deliveries and failures.
THEOREM TypeCorrect == Spec => []TypeOK
<1>1. Typed => TypeOK
    BY DEF Typed
<1> QED BY <1>1, InitTyped, StepTyped, PTL DEF Spec

-----------------------------------------------------------------------------
(* Scores come beside metrics: metrics only grow, and whoever is about to      *)
(* score, or to send a scorer, has the metrics behind it.                      *)

Scored ==
    \A c \in Chords :
        /\ aggregate[c].step = "none" => scoring[c] = 0
        /\ aggregate[c].step = "scorers" \/ scoring[c] > 0 => \A i \in Succeeded(c) : metrics[i] > 0

ScoreInv == Typed /\ Scored /\ ScoresBesideMetrics

LEMMA SucceededIsItems ==
    ASSUME Typed, NEW c \in Chords
    PROVE  Succeeded(c) \subseteq Items
BY DEF Succeeded, Typed, TypeOK, Aggregate, Part

\* Whom the callback writes metrics for.
LEMMA MetricsWritten ==
    ASSUME Typed, NEW c \in Chords, WriteMetrics(c)
    PROVE  /\ \A i \in Items : metrics'[i] >= metrics[i]
           /\ Exists => \A i \in Items : /\ i \in Succeeded(c) => metrics'[i] > 0
                                         /\ i \notin Succeeded(c) => metrics'[i] = metrics[i]
           /\ ~Exists => metrics' = metrics
<1> DEFINE Wins(i) == {p \in aggregate[c].results : p.item = i /\ p.outcome = "complete"}
<1>1. metrics \in [Items -> Nat]
    BY DEF Typed, TypeOK
<1>2. \A i \in Items : /\ Cardinality(Wins(i)) \in Nat
                       /\ Cardinality(Wins(i)) = 0 <=> Wins(i) = {}
    BY FS_Subset, FS_CardinalityType, FS_EmptySet DEF Typed, Finite
<1>3. \A i \in Items : i \in Succeeded(c) <=> Wins(i) # {}
    BY DEF Succeeded
<1>4. Exists => metrics' = [i \in Items |-> metrics[i] + Cardinality(Wins(i))]
    BY DEF WriteMetrics
<1>5. ~Exists => metrics' = metrics
    BY DEF WriteMetrics
<1> HIDE DEF Wins
<1> QED BY <1>1, <1>2, <1>3, <1>4, <1>5

\* Every step that is not one of the callback, of its scorers, or of the answer
\* that starts it, leaves them alone.
LEMMA ElseUnchanged ==
    ASSUME [Next]_vars
    PROVE  \/ UNCHANGED <<aggregate, metrics, scores, scoring>>
           \/ \E c \in Chords : AggregateStepOf(c) \/ AggregateCrashes(c) \/ Score(c)
           \/ \E x \in Deliveries : ItemReturn(x)
BY DEF Next, vars, StartRun, DeleteDataset, LaunchStep, Prepare, SendHeader, Faults, UnlinkDataset,
       LaunchCrashes, LaunchAgain, ItemCrashes, ItemAgain, ItemStep, ItemStart, ItemCall, ItemFail,
       ItemStore, ProgressCount, ProgressWrite

LEMMA ScoreStep == ScoreInv /\ [Next]_vars => Scored' /\ ScoresBesideMetrics'
<1> SUFFICES ASSUME ScoreInv, [Next]_vars PROVE Scored' /\ ScoresBesideMetrics'
    OBVIOUS
<1>0. /\ Typed /\ Scored /\ ScoresBesideMetrics
      /\ metrics \in [Items -> Nat] /\ scores \in [Items -> Nat] /\ scoring \in [Chords -> Nat]
      /\ aggregate \in [Chords -> Aggregate]
    BY DEF ScoreInv, Typed, TypeOK
<1>1. CASE UNCHANGED <<aggregate, metrics, scores, scoring>>
    BY <1>0, <1>1 DEF Scored, ScoresBesideMetrics, Succeeded
<1>2. ASSUME NEW c \in Chords, AggregateStepOf(c) \/ AggregateCrashes(c)
      PROVE  Scored' /\ ScoresBesideMetrics'
    <2>1. scores' = scores /\ \A i \in Items : metrics'[i] >= metrics[i] /\ metrics'[i] \in Nat
        <3>1. CASE WriteMetrics(c)
            BY <1>0, <3>1, MetricsWritten, CallbackTyped DEF WriteMetrics, AggregateStepOf, Typed, TypeOK
        <3>2. CASE ~WriteMetrics(c)
            BY <1>0, <1>2, <3>2 DEF AggregateStepOf, AggregateRead, DispatchScorers, AggregateCount, CloseRun,
                AggregateCrashes
        <3> QED BY <3>1, <3>2 DEF WriteMetrics
    <2>2. \E s, n : s # "none" /\ AggregateIs(c, s, aggregate[c].results, n)
        BY <1>0, <1>2, CallbackSteps DEF AggregateStepOf
    <2>3. \A d \in Chords : Succeeded(d)' = Succeeded(d)
        BY <2>2 DEF AggregateIs, Succeeded
    <2>4. \A d \in Chords \ {c} : aggregate'[d] = aggregate[d] /\ scoring'[d] = scoring[d]
        BY <1>0, <1>2, <2>2 DEF AggregateIs, AggregateStepOf, AggregateRead, WriteMetrics, DispatchScorers,
            AggregateCount, CloseRun, AggregateCrashes
    <2>5. aggregate'[c].step # "none"
        BY <2>2 DEF AggregateIs
    <2>6. \A d \in Chords : Succeeded(d) \subseteq Items
        BY <1>0, SucceededIsItems
    <2>7. aggregate'[c].step = "scorers" \/ scoring'[c] > 0 => \A i \in Succeeded(c) : metrics'[i] > 0
        <3>1. CASE WriteMetrics(c)
            <4>1. CASE Exists
                BY <1>0, <2>6, <3>1, <4>1, MetricsWritten
            <4>2. CASE ~Exists
                <5>1. scoring' = scoring /\ metrics' = metrics
                    BY <1>0, <3>1, <4>2, MetricsWritten DEF WriteMetrics
                <5>2. aggregate'[c].step = "scorers" => Succeeded(c) = {}
                    BY <1>0, <3>1, <4>2, CallbackSteps DEF AggregateIs
                <5> QED BY <1>0, <5>1, <5>2 DEF Scored
            <4> QED BY <4>1, <4>2
        <3>2. CASE DispatchScorers(c)
            BY <1>0, <3>2 DEF DispatchScorers, Scored
        <3>3. CASE AggregateRead(c) \/ AggregateCount(c) \/ CloseRun(c) \/ AggregateCrashes(c)
            <4>1. scoring' = scoring /\ metrics' = metrics
                BY <3>3 DEF AggregateRead, AggregateCount, CloseRun, AggregateCrashes
            <4>2. aggregate'[c].step # "scorers"
                BY <1>0, <3>3, CallbackSteps DEF AggregateIs
            <4> QED BY <1>0, <4>1, <4>2 DEF Scored
        <3> QED BY <1>2, <3>1, <3>2, <3>3 DEF AggregateStepOf
    <2>8. Scored'
        <3>1. ASSUME NEW d \in Chords
              PROVE  /\ aggregate'[d].step = "none" => scoring'[d] = 0
                     /\ aggregate'[d].step = "scorers" \/ scoring'[d] > 0
                            => \A i \in Succeeded(d) : metrics'[i] > 0
            <4>1. CASE d = c
                BY <2>5, <2>7, <4>1
            <4>2. CASE d # c
                BY <1>0, <2>1, <2>4, <2>6, <4>2 DEF Scored
            <4> QED BY <4>1, <4>2
        <3> QED BY <2>3, <3>1 DEF Scored
    <2>9. ScoresBesideMetrics'
        BY <1>0, <2>1 DEF ScoresBesideMetrics
    <2> QED BY <2>8, <2>9
<1>3. ASSUME NEW c \in Chords, Score(c)
      PROVE  Scored' /\ ScoresBesideMetrics'
    <2>1. UNCHANGED <<aggregate, metrics>> /\ scoring[c] > 0 /\ scoring' = [scoring EXCEPT ![c] = @ - 1]
        BY <1>3 DEF Score
    <2>2. Scored'
        BY <1>0, <2>1 DEF Scored, Succeeded
    <2>3. PICK some \in SUBSET Succeeded(c) :
            scores' = IF Exists THEN [i \in Items |-> IF i \in some THEN scores[i] + 1 ELSE scores[i]]
                      ELSE scores
        BY <1>3 DEF Score
    <2>4. \A i \in some : metrics[i] > 0
        BY <1>0, <2>1 DEF Scored
    <2>5. ScoresBesideMetrics'
        BY <1>0, <2>1, <2>3, <2>4 DEF ScoresBesideMetrics
    <2> QED BY <2>2, <2>5
<1>4. ASSUME NEW x \in Deliveries, ItemReturn(x)
      PROVE  Scored' /\ ScoresBesideMetrics'
    <2>1. UNCHANGED <<metrics, scores, scoring>>
        BY <1>4 DEF ItemReturn
    <2>2. \/ aggregate' = aggregate
          \/ /\ x[1] \in Chords /\ aggregate[x[1]].step = "none"
             /\ \E s \in {"failed", "queued"} : \E r : AggregateIs(x[1], s, r, 0)
        BY <1>0, <1>4, ReturnSteps
    <2>3. CASE aggregate' = aggregate
        BY <1>0, <2>1, <2>3 DEF Scored, ScoresBesideMetrics, Succeeded
    <2>4. CASE aggregate' # aggregate
        <3>1. ASSUME NEW d \in Chords
              PROVE  /\ aggregate'[d].step = "none" => scoring'[d] = 0
                     /\ aggregate'[d].step = "scorers" \/ scoring'[d] > 0
                            => \A i \in Succeeded(d)' : metrics'[i] > 0
            <4>1. CASE d = x[1]
                BY <1>0, <2>1, <2>2, <2>4, <4>1 DEF AggregateIs, Scored
            <4>2. CASE d # x[1]
                BY <1>0, <2>1, <2>2, <2>4, <4>2 DEF AggregateIs, Scored, Succeeded
            <4> QED BY <4>1, <4>2
        <3> QED BY <1>0, <2>1, <3>1 DEF Scored, ScoresBesideMetrics
    <2> QED BY <2>3, <2>4
<1> QED BY <1>1, <1>2, <1>3, <1>4, ElseUnchanged

LEMMA ScoreInit == Init => ScoreInv
<1> SUFFICES ASSUME Init PROVE ScoreInv
    OBVIOUS
<1>1. Typed
    BY InitTyped
<1>2. NoAggregate.step = "none"
    BY DEF NoAggregate
<1>3. Scored /\ ScoresBesideMetrics
    BY <1>2 DEF Init, Scored, ScoresBesideMetrics
<1> QED BY <1>1, <1>3 DEF ScoreInv

\* An item never has scores without its computed metrics, for every number of
\* chords of one run, of deliveries and of crashes of the callback.
THEOREM ScoresBesideMetricsCorrect == Spec => []ScoresBesideMetrics
<1>1. ScoreInv /\ [Next]_vars => ScoreInv'
    BY StepTyped, ScoreStep DEF ScoreInv
<1>2. ScoreInv => ScoresBesideMetrics
    BY DEF ScoreInv
<1> QED BY <1>1, <1>2, ScoreInit, PTL DEF Spec

-----------------------------------------------------------------------------
(* A run with one chord whose messages are delivered once                      *)

OneDelivery == MaxChords = 1 /\ MaxAttempts = 1

D(i) == <<1, i, 1>>

At(i, S) == exec[D(i)].step \in S

Part1(i) == exec[D(i)].part

AllDone == \A i \in Items : At(i, {"done"})

\* Nothing was delivered before it was sent, nor sent before the launch.
Launched ==
    /\ launch.step = "unsent" => launch.chord = None
    /\ launch.chord = None => \A i \in Items : At(i, {"none"})
    /\ \A i \in Items : ~At(i, {"none"}) => i \in sent[1]

\* The result backend, and then the callback, has the answers of the tasks that
\* are done, and the callback starts when they all are.
Gathered ==
    /\ aggregate[1].step = "none" =>
         aggregate[1].results = {} /\ parts[1] = {Part1(i) : i \in {j \in Items : At(j, {"done"})}}
    /\ aggregate[1].step # "none" =>
         AllDone /\ aggregate[1].results = {Part1(i) : i \in Items} /\ parts[1] = {}
    /\ aggregate[1].step \notin {"none", "failed"} => \A i \in Items : Part1(i).outcome # "error"

\* A task that has its answer has told the row, but for the one that raised.
Told ==
    \A i \in Items :
        /\ At(i, {"answered", "stored", "counted"}) => Part1(i).outcome \in {"complete", "failed"}
        /\ Exists /\ At(i, {"stored", "counted", "returning", "done"}) =>
             /\ Part1(i).outcome # "missing"
             /\ Part1(i).outcome = "complete" => item[i] = "COMPLETE"
             /\ Part1(i).outcome = "failed" => item[i] = "FAILED"

Measured ==
    /\ \A i \in Items : metrics[i] > 0 => i \in Succeeded(1)
    /\ Exists /\ aggregate[1].step \in {"scorers", "count", "close", "done"} =>
         \A i \in Succeeded(1) : metrics[i] > 0

Closed ==
    /\ Exists /\ aggregate[1].step = "close" => aggregate[1].seen = N
    /\ Exists /\ run.status \in Final =>
         /\ aggregate[1].step = "done" /\ run.done = N
         /\ run.status = "COMPLETE" <=> Succeeded(1) # {}

OneInv == Typed /\ Launched /\ Gathered /\ Told /\ Measured /\ Closed

LEMMA OneChord ==
    ASSUME OneDelivery
    PROVE  /\ Chords = {1} /\ Attempts = {1}
           /\ \A i \in Items : D(i) \in Deliveries /\ D(i)[1] = 1 /\ D(i)[2] = i
           /\ \A x \in Deliveries : x[2] \in Items /\ x = D(x[2]) /\ x[1] = 1
           /\ \A i, j \in Items : D(i) = D(j) => i = j
           /\ Items # {}
<1>1. Chords = {1} /\ Attempts = {1}
    BY DEF OneDelivery, Chords, Attempts
<1> QED BY <1>1 DEF Deliveries, D

LEMMA SucceededIs ==
    ASSUME OneDelivery, Typed, Gathered, aggregate[1].step # "none"
    PROVE  \A i : i \in Succeeded(1) <=> i \in Items /\ Part1(i).outcome = "complete"
<1>1. \A i \in Items : Part1(i).item = i
    BY OneChord DEF Gathered, AllDone, At, Part1, Typed, Answers, Answered
<1>2. aggregate[1].results = {Part1(i) : i \in Items}
    BY DEF Gathered
<1> QED BY <1>1, <1>2 DEF Succeeded

\* Before the callback starts no item has succeeded, and the run is open.
LEMMA NoneYet ==
    ASSUME OneInv, aggregate[1].step = "none"
    PROVE  Succeeded(1) = {} /\ (Exists => run.status \notin Final)
BY DEF OneInv, Gathered, Closed, Succeeded

\* The callback has not started while a task is not done.
LEMMA NotStarted ==
    ASSUME OneDelivery, OneInv, NEW i \in Items, ~At(i, {"done"})
    PROVE  aggregate[1].step = "none"
BY DEF OneInv, Gathered, AllDone

TaskStep(x) ==
    \/ ItemStart(x) \/ ItemCall(x) \/ ItemFail(x) \/ ItemStore(x)
    \/ ProgressCount(x) \/ ProgressWrite(x) \/ ItemCrashes(x)

\* What a step of a header task does, seen from its item.
LEMMA TaskEffect ==
    ASSUME OneDelivery, OneInv, NEW k \in Items, TaskStep(D(k))
    PROVE  /\ ~At(k, {"none", "done"}) /\ ~At(k, {"none", "done"})'
           /\ \A i \in Items \ {k} : exec'[D(i)] = exec[D(i)] /\ item'[i] = item[i]
           /\ Exists' = Exists /\ (Exists => run'.status = run.status)
           /\ UNCHANGED <<launch, sent, parts, aggregate, metrics>>
<1>1. D(k) \in Deliveries /\ \A i \in Items \ {k} : D(i) \in Deliveries \ {D(k)}
    BY OneChord
<1>2. \E s, p, n : s \notin {"none", "done"} /\ Becomes(D(k), s, p, n)
    BY <1>1, HeaderSteps DEF OneInv, TaskStep
<1>3. ~At(k, {"none", "done"})
    BY <1>1, HeaderSteps DEF OneInv, TaskStep, At
<1>4. \A i \in Items \ {k} : exec'[D(i)] = exec[D(i)]
    BY <1>1, <1>2 DEF Becomes, Others
<1>5. ~At(k, {"none", "done"})'
    BY <1>2 DEF Becomes, At
<1>6. \A i \in Items \ {k} : item'[i] = item[i]
    BY OneChord DEF OneInv, Typed, TypeOK, TaskStep, ItemStart, ItemCall, ItemFail, ItemStore, ProgressCount,
       ProgressWrite, ItemCrashes, SetItem
<1>7. Exists' = Exists /\ (Exists => run'.status = run.status)
    <2>1. CASE run' = run
        BY <2>1 DEF Exists
    <2>2. CASE ProgressWrite(D(k)) /\ Exists
        <3>1. run \in Run /\ run' = [run EXCEPT !.done = exec[D(k)].seen]
            BY <2>2 DEF ProgressWrite, SetDone, Exists, OneInv, Typed, TypeOK
        <3>2. exec[D(k)].seen \in 0..N
            BY <1>1 DEF OneInv, Typed, TypeOK, Exec, Deliveries
        <3>3. run' \in Run /\ run'.status = run.status
            BY <3>1, <3>2 DEF Run
        <3> QED BY <3>1, <3>3 DEF Exists
    <2> QED BY <2>1, <2>2 DEF TaskStep, ItemStart, ItemCall, ItemFail, ItemStore, ProgressCount, ProgressWrite,
                ItemCrashes, SetDone
<1>8. UNCHANGED <<launch, sent, parts, aggregate, metrics>>
    BY DEF TaskStep, ItemStart, ItemCall, ItemFail, ItemStore, ProgressCount, ProgressWrite, ItemCrashes
<1> QED BY <1>3, <1>4, <1>5, <1>6, <1>7, <1>8

\* What it tells the row of its item.
LEMMA TaskTells ==
    ASSUME OneDelivery, OneInv, NEW k \in Items, TaskStep(D(k))
    PROVE  /\ At(k, {"answered", "stored", "counted"})' => Part1(k)'.outcome \in {"complete", "failed"}
           /\ Exists /\ At(k, {"stored", "counted", "returning", "done"})' =>
                /\ Part1(k)'.outcome # "missing"
                /\ Part1(k)'.outcome = "complete" => item'[k] = "COMPLETE"
                /\ Part1(k)'.outcome = "failed" => item'[k] = "FAILED"
<1>1. D(k) \in Deliveries /\ D(k)[2] = k /\ D(k)[3] \in Attempts
    BY OneChord DEF D
<1>2. /\ At(k, {"answered", "stored", "counted"}) => Part1(k).outcome \in {"complete", "failed"}
      /\ Exists /\ At(k, {"stored", "counted", "returning", "done"}) =>
             /\ Part1(k).outcome # "missing"
             /\ Part1(k).outcome = "complete" => item[k] = "COMPLETE"
             /\ Part1(k).outcome = "failed" => item[k] = "FAILED"
    BY DEF OneInv, Told
<1>3. \A o : Answer(D(k), o, None).outcome = o /\ Answer(D(k), o, D(k)[3]).outcome = o
    BY DEF Answer
<1>4. item \in [Items -> ItemStatuses]
    BY DEF OneInv, Typed, TypeOK
<1>5. CASE ItemStart(D(k))
    BY <1>1, <1>3, <1>5, HeaderSteps DEF OneInv, Becomes, At, Part1
<1>6. CASE ItemCall(D(k))
    <2>1. CASE Becomes(D(k), "failing", exec[D(k)].part, exec[D(k)].seen)
        BY <2>1 DEF Becomes, At
    <2>2. ASSUME NEW o \in {"complete", "failed"},
                 Becomes(D(k), "answered", Answer(D(k), o, D(k)[3]), exec[D(k)].seen)
          PROVE  Part1(k)'.outcome \in {"complete", "failed"} /\ At(k, {"answered"})'
        BY <1>3, <2>2 DEF Becomes, At, Part1
    <2>3. CASE Becomes(D(k), "returning", Answer(D(k), "error", None), exec[D(k)].seen)
        BY <1>3, <2>3 DEF Becomes, At, Part1
    <2> QED BY <1>1, <1>6, <2>1, <2>2, <2>3, HeaderSteps DEF OneInv, At
<1>7. CASE ItemFail(D(k))
    <2>1. Part1(k)'.outcome = "failed" /\ At(k, {"returning"})'
        BY <1>1, <1>3, <1>7, HeaderSteps DEF OneInv, Becomes, At, Part1
    <2>2. Exists => item'[k] = "FAILED"
        BY <1>1, <1>4, <1>7 DEF ItemFail, SetItem
    <2> QED BY <2>1, <2>2 DEF At
<1>8. CASE ItemStore(D(k))
    <2>1. /\ exec[D(k)].step = "answered" /\ Part1(k).outcome \in {"complete", "failed"}
          /\ Part1(k)' = Part1(k) /\ At(k, {"stored"})'
        BY <1>1, <1>2, <1>8, HeaderSteps DEF OneInv, Becomes, At, Part1
    <2>2. Exists => item'[k] = IF Part1(k).outcome = "complete" THEN "COMPLETE" ELSE "FAILED"
        BY <1>1, <1>4, <1>8 DEF ItemStore, SetItem, Part1
    <2> QED BY <2>1, <2>2 DEF At
<1>9. CASE ProgressCount(D(k)) \/ ProgressWrite(D(k))
    <2>1. At(k, {"stored", "counted"}) /\ Part1(k)' = Part1(k) /\ At(k, {"counted", "returning"})'
        BY <1>1, <1>9, HeaderSteps DEF OneInv, Becomes, At, Part1
    <2>2. item' = item
        BY <1>9 DEF ProgressCount, ProgressWrite
    <2> QED BY <1>2, <2>1, <2>2 DEF At
<1>10. CASE ItemCrashes(D(k))
    BY <1>1, <1>10, HeaderSteps DEF OneInv, Becomes, At
<1> QED BY <1>5, <1>6, <1>7, <1>8, <1>9, <1>10 DEF TaskStep

LEMMA TaskOne ==
    ASSUME OneDelivery, OneInv, NEW k \in Items, TaskStep(D(k))
    PROVE  Launched' /\ Gathered' /\ Told' /\ Measured' /\ Closed'
<1>1. aggregate[1].step = "none" /\ aggregate' = aggregate
    BY NotStarted, TaskEffect DEF At
<1>2. Launched'
    BY TaskEffect DEF OneInv, Launched, At
<1>3. Gathered'
    <2>1. {j \in Items : At(j, {"done"})'} = {j \in Items : At(j, {"done"})}
        BY TaskEffect DEF At
    <2>2. \A i \in Items : At(i, {"done"}) => Part1(i)' = Part1(i)
        BY TaskEffect DEF At, Part1
    <2>3. parts'[1] = {Part1(i)' : i \in {j \in Items : At(j, {"done"})'}}
        BY <1>1, <2>1, <2>2, TaskEffect DEF OneInv, Gathered
    <2> QED BY <1>1, <2>3 DEF OneInv, Gathered
<1>4. Told'
    BY TaskEffect, TaskTells DEF OneInv, Told, At, Part1
<1>5. Measured'
    BY <1>1, TaskEffect DEF OneInv, Measured, Succeeded
<1>6. Closed'
    BY <1>1, NoneYet, TaskEffect DEF Closed
<1> QED BY <1>2, <1>3, <1>4, <1>5, <1>6

\* The answers of all items are as many as the items only when all are done.
LEMMA ReachedAll ==
    ASSUME NEW S \in SUBSET Items, NEW f, Cardinality({f[i] : i \in S}) = N
    PROVE  S = Items
<1>1. IsFiniteSet(S) /\ Cardinality(S) \in 0..N /\ (Cardinality(S) = N => S = Items)
    BY Counting
<1> DEFINE T == {f[i] : i \in S}
           g == [i \in S |-> f[i]]
<1>2. g \in Surjection(S, T)
    BY DEF Surjection
<1> HIDE DEF g, T
<1>3. Cardinality(T) <= Cardinality(S) /\ IsFiniteSet(T)
    BY <1>1, <1>2, FS_Surjection
<1>4. Cardinality(T) = N /\ N \in Nat
    BY Counting DEF T
<1> QED BY <1>1, <1>3, <1>4

LEMMA ReturnOne ==
    ASSUME OneDelivery, OneInv, NEW k \in Items, ItemReturn(D(k))
    PROVE  Launched' /\ Gathered' /\ Told' /\ Measured' /\ Closed'
<1> DEFINE done == {j \in Items : At(j, {"done"})}
           ps == parts[1] \cup {exec[D(k)].part}
<1>1. D(k) \in Deliveries /\ D(k)[1] = 1 /\ \A i \in Items \ {k} : D(i) \in Deliveries \ {D(k)}
    BY OneChord
<1>2. /\ At(k, {"returning"}) /\ At(k, {"done"})' /\ Part1(k)' = Part1(k)
      /\ \A i \in Items \ {k} : exec'[D(i)] = exec[D(i)]
    BY <1>1, HeaderSteps DEF OneInv, Becomes, Others, At, Part1
<1>3. \A i \in Items : Part1(i)' = Part1(i)
    BY <1>2 DEF Part1
<1>4. UNCHANGED <<run, item, launch, sent, metrics>> /\ Exists' = Exists
    BY DEF ItemReturn, Exists
<1>5. aggregate[1].step = "none" /\ aggregate[1].results = {} /\ parts[1] = {Part1(i) : i \in done}
    <2>1. ~At(k, {"done"})
        BY <1>2 DEF At
    <2> QED BY <2>1, NotStarted DEF OneInv, Gathered
<1>6. {j \in Items : At(j, {"done"})'} = done \cup {k}
    BY <1>2 DEF At
<1>7. ps = {Part1(i) : i \in done \cup {k}}
    BY <1>5 DEF Part1
<1>8. /\ 1 \in Chords /\ parts \in [Chords -> SUBSET Part]
      /\ \/ /\ Reached(1, ps) /\ aggregate'[1].results = ps /\ parts'[1] = {}
            /\ \/ aggregate'[1].step = "failed"
               \/ aggregate'[1].step = "queued" /\ \A p \in ps : p.outcome # "error"
         \/ parts' = [parts EXCEPT ![1] = ps] /\ aggregate' = aggregate
    <2>1. 1 \in Chords /\ parts \in [Chords -> SUBSET Part]
        BY OneChord DEF OneInv, Typed, TypeOK
    <2>2. \/ /\ Reached(1, ps) /\ parts' = [parts EXCEPT ![1] = {}]
             /\ \/ AggregateIs(1, "failed", ps, 0)
                \/ (\A p \in ps : p.outcome # "error") /\ AggregateIs(1, "queued", ps, 0)
          \/ parts' = [parts EXCEPT ![1] = ps] /\ aggregate' = aggregate
        BY <1>1, ReturnSteps DEF OneInv
    <2> HIDE DEF ps
    <2> QED BY <2>1, <2>2 DEF AggregateIs
<1> HIDE DEF ps
<1>9. Launched'
    BY <1>2, <1>4 DEF OneInv, Launched, At
<1>10. Told'
    BY <1>2, <1>3, <1>4 DEF OneInv, Told, At
<1>11. CASE parts' = [parts EXCEPT ![1] = ps] /\ aggregate' = aggregate
    <2>1. parts'[1] = {Part1(i)' : i \in {j \in Items : At(j, {"done"})'}}
        BY <1>3, <1>6, <1>7, <1>8, <1>11
    <2>2. Gathered'
        BY <1>5, <1>11, <2>1 DEF Gathered
    <2>3. Measured' /\ Closed'
        BY <1>4, <1>5, <1>11, NoneYet DEF OneInv, Measured, Closed, Succeeded
    <2> QED BY <1>9, <1>10, <2>2, <2>3
<1>12. CASE /\ Reached(1, ps) /\ aggregate'[1].results = ps /\ parts'[1] = {}
            /\ \/ aggregate'[1].step = "failed"
               \/ aggregate'[1].step = "queued" /\ \A p \in ps : p.outcome # "error"
    <2>1. done \cup {k} = Items
        <3> DEFINE f == [i \in done \cup {k} |-> Part1(i)]
        <3>1. {f[i] : i \in done \cup {k}} = ps
            BY <1>7
        <3>2. done \cup {k} \in SUBSET Items
            OBVIOUS
        <3>3. Cardinality(ps) = N
            BY <1>12 DEF Reached
        <3> HIDE DEF f, done
        <3> QED BY <3>1, <3>2, <3>3, ReachedAll
    <2>2. AllDone' /\ ps = {Part1(i)' : i \in Items}
        BY <1>3, <1>6, <1>7, <2>1 DEF AllDone
    <2>3. Gathered'
        BY <1>12, <2>2 DEF Gathered
    <2>4. Measured'
        <3>1. \A i \in Items : ~(metrics'[i] > 0)
            BY <1>4, <1>5, NoneYet DEF OneInv, Measured
        <3> QED BY <1>12, <3>1 DEF Measured
    <2>5. Closed'
        BY <1>4, <1>5, <1>12, NoneYet DEF Closed
    <2> QED BY <1>9, <1>10, <2>3, <2>4, <2>5
<1> QED BY <1>8, <1>11, <1>12

\* When the callback recounts, all items are finished.
LEMMA AllFinished ==
    ASSUME OneDelivery, OneInv, Exists, aggregate[1].step \notin {"none", "failed"}
    PROVE  /\ Done = N
           /\ \A i \in Items : /\ item[i] \in Final
                               /\ item[i] = "COMPLETE" <=> i \in Succeeded(1)
<1>1. \A i \in Items : At(i, {"done"}) /\ Part1(i) \in Part /\ Part1(i).outcome # "error"
    BY OneChord DEF OneInv, Gathered, AllDone, At, Part1, Typed, Answers, Answered
<1>2. \A i \in Items : Part1(i).outcome \in {"complete", "failed"}
    BY <1>1 DEF OneInv, Told, At, Part, Outcomes
<1>3. \A i \in Items : item[i] = IF Part1(i).outcome = "complete" THEN "COMPLETE" ELSE "FAILED"
    BY <1>1, <1>2 DEF OneInv, Told, At
<1>4. \A i \in Items : item[i] \in Final /\ (item[i] = "COMPLETE" <=> i \in Succeeded(1))
    BY <1>3, SucceededIs DEF OneInv, Final
<1>5. {i \in Items : item[i] \in Final} = Items
    BY <1>4
<1> QED BY <1>4, <1>5 DEF Done, N

LEMMA CallbackOne ==
    ASSUME OneDelivery, OneInv, AggregateStepOf(1) \/ AggregateCrashes(1)
    PROVE  Launched' /\ Gathered' /\ Told' /\ Measured' /\ Closed'
<1>1. 1 \in Chords /\ Typed
    BY OneChord DEF OneInv
<1>2. UNCHANGED <<launch, sent, exec, item, parts>>
    BY DEF AggregateStepOf, AggregateRead, WriteMetrics, DispatchScorers, AggregateCount, CloseRun,
           AggregateCrashes
<1>3. /\ aggregate[1].step \notin {"none", "failed", "done"}
      /\ aggregate'[1].results = aggregate[1].results
      /\ aggregate'[1].step # "none"
    BY <1>1, CallbackSteps DEF AggregateStepOf, AggregateIs
<1>4. Succeeded(1)' = Succeeded(1)
    BY <1>3 DEF Succeeded
<1>5. Exists' = Exists /\ (run' # run => CloseRun(1) /\ Exists)
    <2>1. CASE CloseRun(1) /\ Exists
        <3>1. run' \in Run
            <4>1. aggregate[1].seen \in 0..N
                BY <1>1 DEF Typed, TypeOK, Aggregate
            <4> QED BY <2>1, <4>1 DEF CloseRun, Run, Final
        <3> QED BY <2>1, <3>1 DEF Exists
    <2>2. CASE run' = run
        BY <2>2 DEF Exists
    <2> QED BY <2>1, <2>2 DEF AggregateStepOf, AggregateRead, WriteMetrics, DispatchScorers, AggregateCount,
                CloseRun, AggregateCrashes
<1>6. Exists => run.status \notin Final
    BY <1>3 DEF OneInv, Closed
<1>7. Launched'
    BY <1>2 DEF OneInv, Launched, At
<1>8. Told'
    BY <1>2, <1>5 DEF OneInv, Told, At, Part1
<1>9. Gathered'
    BY <1>2, <1>3 DEF OneInv, Gathered, AllDone, At, Part1
<1>10. Measured'
    <2>1. CASE WriteMetrics(1)
        BY <1>1, <1>4, <1>5, <2>1, MetricsWritten, CallbackSteps, SucceededIsItems
           DEF OneInv, Measured, AggregateIs
    <2>2. CASE ~WriteMetrics(1)
        <3>1. metrics' = metrics
            BY <2>2 DEF AggregateStepOf, AggregateRead, DispatchScorers, AggregateCount, CloseRun,
                AggregateCrashes
        <3>2. Exists /\ aggregate'[1].step \in {"scorers", "count", "close", "done"}
                => aggregate[1].step \in {"scorers", "count", "close"}
            BY <1>1, <2>2, CallbackSteps DEF AggregateStepOf, AggregateIs
        <3> QED BY <1>4, <1>5, <3>1, <3>2 DEF OneInv, Measured
    <2> QED BY <2>1, <2>2
<1>11. Closed'
    <2>1. CASE CloseRun(1)
        <3>1. CASE Exists
            <4>1. /\ run' = [status |-> IF AllFailed(1) THEN "FAILED" ELSE "COMPLETE",
                             done |-> aggregate[1].seen]
                  /\ aggregate[1].step = "close" /\ aggregate'[1].step = "done"
                BY <1>1, <2>1, <3>1, CallbackSteps DEF CloseRun, AggregateIs
            <4>2. aggregate[1].seen = N
                BY <3>1, <4>1 DEF OneInv, Closed
            <4>3. AllFailed(1) <=> Succeeded(1) = {}
                <5>1. aggregate[1].results # {}
                    BY <1>3, OneChord DEF OneInv, Gathered
                <5> QED BY <5>1 DEF AllFailed
            <4> QED BY <1>4, <4>1, <4>2, <4>3 DEF Closed
        <3>2. CASE ~Exists
            BY <1>5, <3>2 DEF Closed
        <3> QED BY <3>1, <3>2
    <2>2. CASE AggregateCount(1)
        BY <1>1, <1>3, <1>5, <1>6, <2>2, AllFinished, CallbackSteps DEF Closed, AggregateIs, AggregateCount
    <2>3. CASE ~CloseRun(1) /\ ~AggregateCount(1)
        <3>1. aggregate'[1].step # "close"
            BY <1>1, <2>3, CallbackSteps DEF AggregateStepOf, AggregateIs
        <3> QED BY <1>5, <1>6, <2>3, <3>1 DEF Closed
    <2> QED BY <2>1, <2>2, <2>3
<1> QED BY <1>7, <1>8, <1>9, <1>10, <1>11

LEMMA LaunchOne ==
    ASSUME OneDelivery, OneInv,
           StartRun \/ UnlinkDataset \/ DeleteDataset \/ Prepare \/ LaunchCrashes \/ LaunchAgain
    PROVE  Launched' /\ Gathered' /\ Told' /\ Measured' /\ Closed'
<1>1. UNCHANGED <<item, sent, exec, parts, aggregate, metrics>>
    BY DEF StartRun, UnlinkDataset, DeleteDataset, Prepare, LaunchCrashes, LaunchAgain
<1>2. launch.chord = None => aggregate[1].step = "none" /\ \A i \in Items : At(i, {"none"})
    BY OneChord, NotStarted DEF OneInv, Launched, At
<1>3. Launched'
    <2>1. launch'.step = "unsent" => launch' = launch
        BY DEF StartRun, UnlinkDataset, DeleteDataset, Prepare, LaunchCrashes, LaunchAgain, OneInv, Typed,
           TypeOK, Launch
    <2>2. launch'.chord = launch.chord \/ launch'.chord = 1
        BY OneChord DEF StartRun, UnlinkDataset, DeleteDataset, Prepare, LaunchCrashes, LaunchAgain, OneInv,
           Typed, TypeOK, Launch
    <2> QED BY <1>1, <2>1, <2>2 DEF OneInv, Launched, At
<1>4. Gathered'
    BY <1>1 DEF OneInv, Gathered, AllDone, At, Part1
<1>5. \/ run' = run
      \/ run' = None
      \/ launch.chord = None /\ run' \in Run /\ run'.status \notin Final
    <2>1. CASE StartRun
        <3>1. launch.chord = None
            BY <2>1 DEF StartRun, OneInv, Launched
        <3>2. run' \in Run /\ run'.status \notin Final
            BY <2>1, Counting DEF StartRun, Run, Final
        <3> QED BY <3>1, <3>2
    <2>2. CASE Prepare
        <3>1. ~Exists => run' = run
            BY <2>2 DEF Prepare
        <3>2. Exists => launch.chord = None
            BY <2>2, OneChord DEF Prepare, OneInv, Typed, TypeOK, Launch
        <3>3. Exists => run \in Run /\ run' = [run EXCEPT !.status = "RUNNING"]
            BY <2>2 DEF Prepare, Exists, OneInv, Typed, TypeOK
        <3>4. Exists => run' \in Run /\ run'.status = "RUNNING"
            BY <3>3 DEF Run
        <3> QED BY <3>1, <3>2, <3>4 DEF Final
    <2>3. CASE UnlinkDataset \/ DeleteDataset \/ LaunchCrashes \/ LaunchAgain
        BY <2>3 DEF UnlinkDataset, DeleteDataset, LaunchCrashes, LaunchAgain
    <2> QED BY <2>1, <2>2, <2>3
<1>6. CASE run' = run
    BY <1>1, <1>3, <1>4, <1>6 DEF OneInv, Told, Measured, Closed, Succeeded, Exists, At, Part1
<1>7. CASE run' = None
    BY <1>1, <1>3, <1>4, <1>7 DEF OneInv, Told, Measured, Closed, Succeeded, Exists, At, Part1
<1>8. CASE launch.chord = None /\ run' \in Run /\ run'.status \notin Final
    <2>1. Told'
        BY <1>1, <1>2, <1>8 DEF OneInv, Told, At
    <2>2. Measured' /\ Closed'
        BY <1>1, <1>2, <1>8 DEF OneInv, Measured, Closed, Succeeded
    <2> QED BY <1>3, <1>4, <2>1, <2>2
<1> QED BY <1>5, <1>6, <1>7, <1>8

LEMMA SendOne ==
    ASSUME OneDelivery, OneInv, NEW k \in Items, SendHeader(k)
    PROVE  Launched' /\ Gathered' /\ Told' /\ Measured' /\ Closed'
<1>1. launch.chord = 1 /\ D(k) \in Deliveries /\ Becomes(D(k), "queued", exec[D(k)].part, exec[D(k)].seen)
    BY OneChord, QueueBecomes DEF OneInv, D
<1>2. UNCHANGED <<run, item, parts, aggregate, metrics>> /\ Exists' = Exists
    BY DEF SendHeader, Exists
<1>3. k \notin sent[1] /\ sent'[1] = sent[1] \cup {k} /\ launch'.chord = 1 /\ launch'.step # "unsent"
    BY <1>1, OneChord DEF SendHeader, OneInv, Typed, TypeOK, Launch
<1>4. At(k, {"none"}) /\ At(k, {"queued"})' /\ \A i \in Items \ {k} : exec'[D(i)] = exec[D(i)]
    BY <1>1, <1>3, OneChord DEF OneInv, Launched, At, Becomes, Others
<1>5. aggregate[1].step = "none"
    BY <1>4, NotStarted DEF At
<1>6. Launched'
    <2>1. None # 1
        OBVIOUS
    <2> QED BY <1>3, <1>4, <2>1 DEF OneInv, Launched, At
<1>7. Gathered'
    <2>1. {j \in Items : At(j, {"done"})'} = {j \in Items : At(j, {"done"})}
        BY <1>4 DEF At
    <2>2. \A i \in Items : At(i, {"done"}) => Part1(i)' = Part1(i)
        BY <1>4 DEF At, Part1
    <2>3. parts'[1] = {Part1(i)' : i \in {j \in Items : At(j, {"done"})'}}
        BY <1>2, <1>5, <2>1, <2>2 DEF OneInv, Gathered
    <2> QED BY <1>2, <1>5, <2>3 DEF OneInv, Gathered
<1>8. Told'
    BY <1>2, <1>4 DEF OneInv, Told, At, Part1
<1>9. Measured' /\ Closed'
    BY <1>2 DEF OneInv, Measured, Closed, Succeeded
<1> QED BY <1>6, <1>7, <1>8, <1>9

\* With one delivery nothing is delivered again.
LEMMA NotAgain ==
    ASSUME OneDelivery, NEW x \in Deliveries
    PROVE  ~ItemAgain(x)
<1>1. x = D(x[2]) /\ x[1] = 1 /\ Attempts = {1}
    BY OneChord
<1>2. ItemAgain(x) => exec[x].step # "none" /\ exec[<<x[1], x[2], 1>>].step = "none"
    BY <1>1 DEF ItemAgain
<1> QED BY <1>1, <1>2 DEF D

LEMMA OneInit == Init /\ OneDelivery => OneInv
<1> SUFFICES ASSUME Init, OneDelivery PROVE OneInv
    OBVIOUS
<1>1. \A i \in Items : At(i, {"none"})
    BY OneChord DEF Init, At, NoExec, Deliveries
<1>2. aggregate[1].step = "none" /\ aggregate[1].results = {} /\ parts[1] = {}
    BY OneChord DEF Init, NoAggregate
<1>3. ~Exists /\ launch.chord = None /\ \A i \in Items : metrics[i] = 0
    BY DEF Init, Exists
<1>4. Launched /\ Told
    BY <1>1, <1>3 DEF Launched, Told, At
<1>5. Gathered /\ Measured /\ Closed
    BY <1>1, <1>2, <1>3 DEF Gathered, Measured, Closed, At
<1> QED BY <1>4, <1>5, InitTyped DEF OneInv

LEMMA OneStep ==
    ASSUME OneDelivery, OneInv, [Next]_vars
    PROVE  OneInv'
<1>1. Typed'
    BY StepTyped DEF OneInv
<1> SUFFICES Launched' /\ Gathered' /\ Told' /\ Measured' /\ Closed'
    BY <1>1 DEF OneInv
<1>2. CASE UNCHANGED vars \/ \E c \in Chords : Score(c)
    BY <1>2 DEF vars, Score, OneInv, Launched, Gathered, AllDone, Told, Measured, Closed, Succeeded, Exists, At,
       Part1
<1>3. CASE StartRun \/ UnlinkDataset \/ DeleteDataset \/ Prepare \/ LaunchCrashes \/ LaunchAgain
    BY <1>3, LaunchOne
<1>4. ASSUME NEW k \in Items, SendHeader(k)
      PROVE  Launched' /\ Gathered' /\ Told' /\ Measured' /\ Closed'
    BY <1>4, SendOne
<1>5. ASSUME NEW x \in Deliveries, ItemStep(x) \/ ItemCrashes(x)
      PROVE  Launched' /\ Gathered' /\ Told' /\ Measured' /\ Closed'
    <2>1. x[2] \in Items /\ x = D(x[2])
        BY OneChord
    <2>2. ItemReturn(x) \/ TaskStep(x)
        BY <1>5 DEF ItemStep, TaskStep
    <2> QED BY <2>1, <2>2, ReturnOne, TaskOne
<1>6. ASSUME NEW c \in Chords, AggregateStepOf(c) \/ AggregateCrashes(c)
      PROVE  Launched' /\ Gathered' /\ Told' /\ Measured' /\ Closed'
    <2>1. c = 1
        BY OneChord
    <2> QED BY <1>6, <2>1, CallbackOne
<1> QED BY <1>2, <1>3, <1>4, <1>5, <1>6, NotAgain DEF Next, Faults, LaunchStep

LEMMA OneInvariant ==
    ASSUME OneDelivery
    PROVE  Spec => []OneInv
<1>1. Init => OneInv
    BY OneInit
<1>2. OneInv /\ [Next]_vars => OneInv'
    BY OneStep
<1> QED BY <1>1, <1>2, PTL DEF Spec

\* When a run with one chord is closed, its rows agree: all items are finished, the
\* progress is 100%, and the status is FAILED exactly when no item succeeded.
THEOREM ClosedAgreesCorrect ==
    ASSUME OneDelivery
    PROVE  Spec => []ClosedAgrees
<1>1. OneInv => ClosedAgrees
    <2> SUFFICES ASSUME OneInv, Exists, run.status \in Final
                 PROVE  /\ \A i \in Items : item[i] \in Final
                        /\ run.done = N
                        /\ run.status = "COMPLETE" <=> \E i \in Items : item[i] = "COMPLETE"
        BY DEF ClosedAgrees
    <2>1. /\ aggregate[1].step = "done" /\ run.done = N
          /\ run.status = "COMPLETE" <=> Succeeded(1) # {}
        BY DEF OneInv, Closed
    <2>2. \A i \in Items : item[i] \in Final /\ (item[i] = "COMPLETE" <=> i \in Succeeded(1))
        BY <2>1, AllFinished
    <2>3. Succeeded(1) \subseteq Items
        BY OneChord, SucceededIsItems DEF OneInv
    <2> QED BY <2>1, <2>2, <2>3
<1> QED BY <1>1, OneInvariant, PTL

\* It has computed metrics for the items that succeeded and for no other.
THEOREM MetricsMatchCorrect ==
    ASSUME OneDelivery
    PROVE  Spec => []MetricsMatchSuccess
<1>1. OneInv => MetricsMatchSuccess
    <2> SUFFICES ASSUME OneInv, Exists, run.status \in Final, NEW i \in Items
                 PROVE  metrics[i] > 0 <=> item[i] = "COMPLETE"
        BY DEF MetricsMatchSuccess
    <2>1. aggregate[1].step = "done"
        BY DEF OneInv, Closed
    <2>2. item[i] = "COMPLETE" <=> i \in Succeeded(1)
        BY <2>1, AllFinished
    <2>3. metrics[i] > 0 <=> i \in Succeeded(1)
        BY <2>1 DEF OneInv, Measured
    <2> QED BY <2>2, <2>3
<1> QED BY <1>1, OneInvariant, PTL

\* Nothing moves a closed run any more: no late recount, no second launch.
THEOREM ClosedStaysCorrect ==
    ASSUME OneDelivery
    PROVE  Spec => ClosedStaysClosed
<1>1. OneInv /\ [Next]_vars => [Exists /\ run.status \in Final /\ run' # None => run' = run]_vars
    <2> SUFFICES ASSUME OneInv, Next, Exists, run.status \in Final, run' # None
                 PROVE  run' = run
        OBVIOUS
    <2>1. aggregate[1].step = "done" /\ \A i \in Items : At(i, {"done"})
        BY DEF OneInv, Closed, Gathered, AllDone
    <2>2. ASSUME NEW x \in Deliveries, ItemStep(x) \/ ItemCrashes(x)
          PROVE  run' = run
        <3>1. exec[x].step = "done"
            BY <2>1, OneChord DEF At
        <3> QED BY <2>2, <3>1 DEF ItemStep, ItemStart, ItemCall, ItemFail, ItemStore, ProgressCount,
                ProgressWrite, ItemReturn, ItemCrashes
    <2>3. ASSUME NEW c \in Chords, AggregateStepOf(c) \/ AggregateCrashes(c) \/ Score(c)
          PROVE  run' = run
        <3>1. c = 1
            BY OneChord
        <3> QED BY <2>1, <2>3, <3>1 DEF AggregateStepOf, AggregateRead, WriteMetrics, DispatchScorers,
                AggregateCount, CloseRun, AggregateCrashes, Score
    <2>4. ~Prepare \/ run' = run
        <3>1. launch.chord # None
            BY <2>1, OneChord DEF OneInv, Launched, At
        <3>2. launch.chord = 1
            BY <3>1, OneChord DEF OneInv, Typed, TypeOK, Launch
        <3> QED BY <3>2, OneChord DEF Prepare
    <2> QED BY <2>2, <2>3, <2>4 DEF Next, LaunchStep, Faults, StartRun, DeleteDataset, SendHeader,
            UnlinkDataset, LaunchCrashes, LaunchAgain, ItemAgain
<1> QED BY <1>1, OneInvariant, PTL DEF Spec, ClosedStaysClosed

-----------------------------------------------------------------------------
(* Refinement of BenchmarkPromise: as long as the dataset stays, a task that   *)
(* returns its answer answers its item, the close of the run closes, and       *)
(* nothing else is visible.                                                    *)

DatasetStays == OneDelivery /\ "delete" \notin FaultKinds

Alive == file /\ (Exists \/ (launch.step = "unsent" /\ launch.chord = None))

Said(i) == IF At(i, {"done"}) /\ Part1(i).outcome # "error" THEN Part1(i).outcome ELSE None

Spoken == \A i \in Items : AnswerOf(i) = Said(i)

Phase == IF Exists /\ run.status \in Final THEN run.status ELSE "open"

LEMMA AliveStep ==
    ASSUME DatasetStays, OneInv, Alive, [Next]_vars
    PROVE  Alive'
<1>1. file' = file
    BY DEF DatasetStays, Alive, Next, vars, LaunchStep, Faults, StartRun, DeleteDataset, UnlinkDataset, Fault,
       Prepare, SendHeader, LaunchCrashes, LaunchAgain, ItemCrashes, ItemAgain, ItemStep, ItemStart, ItemCall,
       ItemFail, ItemStore, ProgressCount, ProgressWrite, ItemReturn, AggregateCrashes, AggregateStepOf,
       AggregateRead, WriteMetrics, DispatchScorers, AggregateCount, CloseRun, Score
<1>2. CASE Exists
    <2>1. Exists'
        <3>1. run \in Run /\ run' \in Run \cup {None}
            BY <1>2, StepTyped DEF OneInv, Typed, TypeOK, Exists
        <3>2. [run EXCEPT !.status = "RUNNING"] \in Run
            BY <3>1 DEF Run
        <3>3. \A n \in 0..N : [run EXCEPT !.done = n] \in Run
            BY <3>1 DEF Run
        <3>4. \A c \in Chords : AggregateStepOf(c) => run' \in Run
            <4>1. \A c \in Chords : aggregate[c].seen \in 0..N
                BY DEF OneInv, Typed, TypeOK, Aggregate
            <4> QED BY <1>2, <3>1, <4>1 DEF AggregateStepOf, AggregateRead, WriteMetrics, DispatchScorers,
                    AggregateCount, CloseRun, Run, Final
        <3>5. \A x \in Deliveries : ItemStep(x) => run' \in Run
            <4>1. \A x \in Deliveries : exec[x].seen \in 0..N
                BY DEF OneInv, Typed, TypeOK, Exec, Deliveries
            <4> QED BY <1>2, <3>1, <3>3, <4>1 DEF ItemStep, ItemStart, ItemCall, ItemFail, ItemStore,
                    ProgressCount, ProgressWrite, ItemReturn, SetDone
        <3>6. CASE UNCHANGED vars \/ StartRun \/ DeleteDataset \/ LaunchStep \/ Faults
            BY <1>2, <3>1, <3>2, <3>6 DEF Alive, vars, LaunchStep, Faults, StartRun, DeleteDataset, UnlinkDataset,
               Prepare, SendHeader, LaunchCrashes, LaunchAgain, ItemCrashes, ItemAgain, AggregateCrashes, Exists
        <3>7. \A c \in Chords : Score(c) => run' = run
            BY DEF Score
        <3> QED BY <3>1, <3>4, <3>5, <3>6, <3>7 DEF Next, Exists
    <2> QED BY <1>1, <2>1 DEF Alive
<1>3. CASE ~Exists
    <2>1. launch.chord = None /\ launch.step = "unsent"
        BY <1>3 DEF Alive
    <2>2. aggregate[1].step = "none" /\ \A i \in Items : At(i, {"none"})
        BY <2>1, OneChord, NotStarted DEF DatasetStays, OneInv, Launched, At
    <2>3. CASE StartRun
        <3>1. [status |-> "PENDING", done |-> 0] \in Run
            BY Counting DEF Run
        <3> QED BY <1>1, <2>3, <3>1 DEF StartRun, Alive, Exists
    <2>4. CASE UNCHANGED <<run, launch>>
        BY <1>1, <2>4 DEF Alive, Exists
    <2>5. ASSUME NEW x \in Deliveries, ItemStep(x) \/ ItemCrashes(x)
          PROVE  FALSE
        <3>1. exec[x].step = "none"
            BY <2>2, OneChord DEF DatasetStays, At
        <3> QED BY <2>5, <3>1 DEF ItemStep, ItemStart, ItemCall, ItemFail, ItemStore, ProgressCount,
                ProgressWrite, ItemReturn, ItemCrashes
    <2>6. ASSUME NEW c \in Chords, AggregateStepOf(c) \/ AggregateCrashes(c) \/ Score(c)
          PROVE  UNCHANGED <<run, launch>>
        BY <1>3, <2>6 DEF AggregateStepOf, AggregateRead, WriteMetrics, DispatchScorers, AggregateCount, CloseRun,
           AggregateCrashes, Score
    <2>7. ~LaunchStep /\ ~LaunchCrashes /\ ~LaunchAgain /\ ~DeleteDataset /\ ~UnlinkDataset
        BY <1>3, <2>1 DEF LaunchStep, Prepare, SendHeader, LaunchCrashes, LaunchAgain, DeleteDataset,
           UnlinkDataset
    <2> QED BY <2>3, <2>4, <2>5, <2>6, <2>7, NotAgain DEF Next, Faults, vars, DatasetStays
<1> QED BY <1>2, <1>3

LEMMA AnswerIs ==
    ASSUME OneDelivery, OneInv
    PROVE  Spoken
<1> SUFFICES ASSUME NEW i \in Items PROVE AnswerOf(i) = Said(i)
    BY DEF Spoken
<1> DEFINE ps == {p \in parts[1] \cup aggregate[1].results : p.item = i}
<1>1. \A j \in Items : At(j, {"done"}) => Part1(j).item = j
    BY OneChord DEF OneInv, Typed, Answers, Answered, At, Part1
<1>2. AnswerOf(i) = IF \E p \in ps : p.outcome # "error"
                    THEN (CHOOSE p \in ps : p.outcome # "error").outcome ELSE None
    BY DEF AnswerOf
<1>3. ps = IF At(i, {"done"}) THEN {Part1(i)} ELSE {}
    <2>1. CASE aggregate[1].step = "none"
        BY <1>1, <2>1 DEF OneInv, Gathered
    <2>2. CASE aggregate[1].step # "none"
        <3>1. AllDone /\ aggregate[1].results = {Part1(j) : j \in Items}
            BY <2>2 DEF OneInv, Gathered
        <3>2. parts[1] = {}
            BY <2>2 DEF OneInv, Gathered
        <3> QED BY <1>1, <3>1, <3>2 DEF AllDone
    <2> QED BY <2>1, <2>2
<1> HIDE DEF ps
<1> QED BY <1>2, <1>3 DEF Said

\* The status moves only when the callback closes the run, or before it starts.
LEMMA PhaseMoves ==
    ASSUME DatasetStays, OneInv, Alive, [Next]_vars, Phase' # Phase
    PROVE  CloseRun(1) /\ Exists
<1>1. ~CloseRun(1) \/ ~Exists => Phase' = Phase
    <2> SUFFICES ASSUME ~CloseRun(1) \/ ~Exists PROVE Phase' = Phase
        OBVIOUS
    <2>1. CASE run' = run
        BY <2>1 DEF Phase, Exists
    <2>2. ASSUME NEW x \in Deliveries, ItemStep(x) \/ ItemCrashes(x)
          PROVE  Phase' = Phase
        <3>1. x[2] \in Items /\ x = D(x[2])
            BY OneChord DEF DatasetStays
        <3>2. CASE TaskStep(x)
            BY <3>1, <3>2, TaskEffect DEF DatasetStays, Phase
        <3>3. CASE ItemReturn(x)
            BY <3>3 DEF ItemReturn, Phase, Exists
        <3> QED BY <2>2, <3>2, <3>3 DEF ItemStep, TaskStep
    <2>3. ASSUME NEW c \in Chords, AggregateStepOf(c) \/ AggregateCrashes(c) \/ Score(c)
          PROVE  run' = run
        <3>1. c = 1
            BY OneChord DEF DatasetStays
        <3> QED BY <2>3, <3>1 DEF AggregateStepOf, AggregateRead, WriteMetrics, DispatchScorers, AggregateCount,
                CloseRun, AggregateCrashes, Score
    <2>4. CASE StartRun \/ Prepare
        <3>1. Exists => run.status \notin Final \/ run' = run
            <4>1. Exists /\ run' # run => launch.chord = None
                BY <2>4, OneChord DEF StartRun, Prepare, OneInv, Typed, TypeOK, Launch, DatasetStays
            <4>2. launch.chord = None => aggregate[1].step = "none"
                BY OneChord, NotStarted DEF DatasetStays, OneInv, Launched, At
            <4> QED BY <4>1, <4>2, NoneYet
        <3>2. run' = run \/ run'.status \notin Final
            <4>1. Exists => run \in Run
                BY DEF OneInv, Typed, TypeOK, Exists
            <4> QED BY <2>4, <4>1 DEF StartRun, Prepare, Run, Final
        <3> QED BY <2>1, <3>1, <3>2 DEF Phase
    <2>5. ~DeleteDataset
        BY DEF DeleteDataset, Alive
    <2> QED BY <2>1, <2>2, <2>3, <2>4, <2>5 DEF Next, vars, LaunchStep, Faults, SendHeader, UnlinkDataset,
            LaunchCrashes, LaunchAgain, ItemAgain
<1> QED BY <1>1

\* What the items have said moves only when a task returns its answer.
LEMMA SaidMoves ==
    ASSUME DatasetStays, OneInv, [Next]_vars
    PROVE  \/ \A i \in Items : Said(i)' = Said(i)
           \/ \E k \in Items : /\ ItemReturn(D(k)) /\ Said(k) = None /\ Said(k)' \in Outcomes \ {"error"}
                               /\ \A i \in Items \ {k} : Said(i)' = Said(i)
<1>1. CASE exec' = exec
    BY <1>1 DEF Said, At, Part1
<1>2. ASSUME NEW k \in Items, SendHeader(k)
      PROVE  \A i \in Items : Said(i)' = Said(i)
    <2>1. launch.chord = 1 /\ D(k) \in Deliveries /\ Becomes(D(k), "queued", exec[D(k)].part, exec[D(k)].seen)
        BY <1>2, OneChord, QueueBecomes DEF OneInv, D, DatasetStays
    <2>2. At(k, {"none"})
        BY <1>2, <2>1 DEF SendHeader, OneInv, Launched
    <2>3. \A i \in Items \ {k} : exec'[D(i)] = exec[D(i)]
        BY <2>1, OneChord DEF Becomes, Others, DatasetStays
    <2> QED BY <2>1, <2>2, <2>3 DEF Said, At, Part1, Becomes
<1>3. ASSUME NEW k \in Items, TaskStep(D(k))
      PROVE  \A i \in Items : Said(i)' = Said(i)
    BY <1>3, TaskEffect DEF Said, At, Part1, DatasetStays
<1>4. ASSUME NEW k \in Items, ItemReturn(D(k))
      PROVE  \/ \A i \in Items : Said(i)' = Said(i)
             \/ /\ ItemReturn(D(k)) /\ Said(k) = None /\ Said(k)' \in Outcomes \ {"error"}
                /\ \A i \in Items \ {k} : Said(i)' = Said(i)
    <2>1. D(k) \in Deliveries /\ \A i \in Items \ {k} : D(i) \in Deliveries \ {D(k)}
        BY OneChord DEF DatasetStays
    <2>2. /\ At(k, {"returning"}) /\ At(k, {"done"})' /\ Part1(k)' = Part1(k)
          /\ \A i \in Items \ {k} : exec'[D(i)] = exec[D(i)]
        BY <1>4, <2>1, HeaderSteps DEF OneInv, Becomes, Others, At, Part1
    <2>3. Part1(k) \in Part
        BY <2>1, <2>2 DEF OneInv, Typed, Answers, Answered, At, Part1
    <2>4. Said(k) = None /\ \A i \in Items \ {k} : Said(i)' = Said(i)
        BY <2>2 DEF Said, At, Part1
    <2>5. Said(k)' = IF Part1(k).outcome # "error" THEN Part1(k).outcome ELSE None
        BY <2>2 DEF Said
    <2> QED BY <1>4, <2>3, <2>4, <2>5 DEF Part
<1>5. \/ exec' = exec
      \/ \E k \in Items : SendHeader(k)
      \/ \E x \in Deliveries : ItemStep(x) \/ ItemCrashes(x)
    BY NotAgain DEF DatasetStays, Next, vars, LaunchStep, Faults, StartRun, DeleteDataset, UnlinkDataset, Prepare,
       LaunchCrashes, LaunchAgain, AggregateCrashes, AggregateStepOf, AggregateRead, WriteMetrics,
       DispatchScorers, AggregateCount, CloseRun, Score
<1>6. \A x \in Deliveries : ItemStep(x) \/ ItemCrashes(x) =>
        \E k \in Items : TaskStep(D(k)) \/ ItemReturn(D(k))
    BY OneChord DEF DatasetStays, ItemStep, TaskStep
<1> QED BY <1>1, <1>2, <1>3, <1>4, <1>5, <1>6

LEMMA PromiseStep ==
    ASSUME DatasetStays, OneInv, OneInv', Alive, Spoken, Spoken', [Next]_vars
    PROVE  [Promise!Next]_(Promise!vars)
<1> DEFINE said == [i \in Items |-> AnswerOf(i)]
<1>1. /\ said = [i \in Items |-> Said(i)]
      /\ [i \in Items |-> AnswerOf(i)'] = [i \in Items |-> Said(i)']
    BY DEF Spoken
<1>2. CASE Phase' = Phase /\ \A i \in Items : Said(i)' = Said(i)
    BY <1>1, <1>2 DEF Promise!vars, Phase
<1>3. ASSUME NEW k \in Items, ItemReturn(D(k)), Said(k) = None, Said(k)' \in Outcomes \ {"error"},
             \A i \in Items \ {k} : Said(i)' = Said(i)
      PROVE  Promise!Next
    <2>1. Phase' = Phase /\ Phase = "open" /\ Exists
        <3>1. At(k, {"returning"})
            BY <1>3 DEF ItemReturn, At
        <3>2. aggregate[1].step = "none"
            BY <3>1, NotStarted DEF At, DatasetStays
        <3>3. Phase = "open"
            BY <3>2, NoneYet DEF Phase
        <3>4. Exists /\ run' = run
            BY <1>3, <3>1, OneChord DEF Alive, OneInv, Launched, At, ItemReturn, DatasetStays
        <3> QED BY <3>3, <3>4 DEF Phase, Exists
    <2>2. Said(k)' \in {"complete", "failed"}
        <3>1. At(k, {"returning"}) /\ Part1(k)' = Part1(k)
            BY <1>3, OneChord, HeaderSteps DEF OneInv, Becomes, At, Part1, DatasetStays
        <3>2. Part1(k).outcome # "missing"
            BY <2>1, <3>1 DEF OneInv, Told, At
        <3>3. None \notin Outcomes
            OBVIOUS
        <3> QED BY <1>3, <3>1, <3>2, <3>3 DEF Said, Outcomes
    <2>3. [i \in Items |-> Said(i)'] = [[i \in Items |-> Said(i)] EXCEPT ![k] = Said(k)']
        BY <1>3
    <2>4. Promise!Answer(k)
        BY <1>1, <1>3, <2>1, <2>2, <2>3 DEF Promise!Answer, Phase
    <2> QED BY <2>4 DEF Promise!Next
<1>4. CASE CloseRun(1) /\ Exists /\ \A i \in Items : Said(i)' = Said(i)
    <2>1. aggregate[1].step = "close" /\ Phase = "open"
        BY <1>4 DEF CloseRun, OneInv, Closed, Phase
    <2>2. \A i \in Items : Said(i) = Part1(i).outcome /\ Said(i) # None
        <3>1. \A i \in Items : At(i, {"done"}) /\ Part1(i) \in Part /\ Part1(i).outcome # "error"
            BY <2>1, OneChord DEF DatasetStays, OneInv, Gathered, AllDone, At, Part1, Typed, Answers, Answered
        <3> QED BY <3>1 DEF Said, Part
    <2>3. Succeeded(1) # {} <=> \E i \in Items : Said(i) = "complete"
        <3>1. \A i : i \in Succeeded(1) <=> i \in Items /\ Part1(i).outcome = "complete"
            BY <2>1, SucceededIs DEF DatasetStays, OneInv
        <3> QED BY <2>2, <3>1
    <2>4. AllFailed(1) <=> Succeeded(1) = {}
        <3>1. aggregate[1].results # {}
            BY <2>1, OneChord DEF OneInv, Gathered, DatasetStays
        <3> QED BY <3>1 DEF AllFailed
    <2>5. run' = [status |-> IF AllFailed(1) THEN "FAILED" ELSE "COMPLETE", done |-> aggregate[1].seen]
        BY <1>4 DEF CloseRun
    <2>6. Exists' /\ run'.status \in Final
        <3>1. aggregate[1].seen \in 0..N
            BY OneChord DEF OneInv, Typed, TypeOK, Aggregate, DatasetStays
        <3>2. run' \in Run
            BY <2>5, <3>1 DEF Run, Final
        <3> QED BY <2>5, <3>2 DEF Exists, Final
    <2>7. Phase' = IF \E i \in Items : Said(i) = "complete" THEN "COMPLETE" ELSE "FAILED"
        BY <2>3, <2>4, <2>5, <2>6 DEF Phase
    <2>8. Promise!Close
        BY <1>1, <1>4, <2>1, <2>2, <2>7 DEF Promise!Close, Phase
    <2> QED BY <2>8 DEF Promise!Next
<1>5. ~(\E k \in Items : ItemReturn(D(k))) \/ ~CloseRun(1) \/ exec' = exec
    BY DEF CloseRun
<1> QED BY <1>2, <1>3, <1>4, <1>5, PhaseMoves, SaidMoves DEF Promise!Next

\* With one chord, messages delivered once and a dataset that stays, a run answers each
\* of its items at most once and then closes once, with the status the answers
\* call for, through every crash of launch, header tasks and callback.
THEOREM Refinement ==
    ASSUME DatasetStays
    PROVE  Spec => Implements
<1>1. Init => Promise!Init
    <2> SUFFICES ASSUME Init PROVE Promise!Init
        OBVIOUS
    <2>1. ~Exists
        BY DEF Init, Exists
    <2>2. parts[1] = {} /\ aggregate[1].results = {}
        BY OneChord DEF Init, NoAggregate, DatasetStays
    <2>3. \A i \in Items : AnswerOf(i) = None
        BY <2>2 DEF AnswerOf
    <2> QED BY <2>1, <2>3 DEF Promise!Init
<1>2. Init => Alive
    BY DEF Init, Alive
<1>3. OneInv /\ Alive /\ [Next]_vars => Alive'
    BY AliveStep
<1>4. OneInv => Spoken
    BY AnswerIs DEF DatasetStays
<1>5. OneInv /\ OneInv' /\ Alive /\ Spoken /\ Spoken' /\ [Next]_vars => [Promise!Next]_(Promise!vars)
    BY PromiseStep
<1>6. Spec => []OneInv
    BY OneInvariant DEF DatasetStays
<1> QED BY <1>1, <1>2, <1>3, <1>4, <1>5, <1>6, PTL DEF Spec, Implements, Promise!Spec
=============================================================================
