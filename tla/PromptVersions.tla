--------------------------- MODULE PromptVersions ---------------------------
(***************************************************************************)
(* One prompt, its append-only history, and the experiment runs that refer *)
(* to its versions (api/v1/prompts.py, repositories/prompt.py,             *)
(* api/v1/experiments.py).                                                 *)
(*                                                                         *)
(* Every request is one transaction of PostgreSQL at READ COMMITTED, taken *)
(* here statement by statement: what it has written is seen by the others  *)
(* when it commits, and who needs a row that it has locked waits.  A       *)
(* statement takes all its locks in one step; that two deletions can block *)
(* each other over them is among the failures that `Fail` stands for.      *)
(***************************************************************************)
EXTENDS Naturals, FiniteSetsExt

CONSTANTS
    Editors,       \* concurrent requests
    MaxVersions    \* bound: the numbers given to versions

ASSUME VersionsAssumption == MaxVersions \in Nat

VARIABLES
    prompt,     \* the row of the prompt: "none" yet, "there", "gone"
    history,    \* committed versions: their number, and the one they restore (0: none)
    refs,       \* numbers of the versions that committed experiment runs refer to
    edit        \* the request of each editor

promptVars == <<prompt, history, refs, edit>>

Version == [number : 1..MaxVersions, source : 0..MaxVersions]

EditKinds == {"append", "rollback", "delete", "record"}

EditSteps == {"idle", "require", "source", "compare", "number", "insert",
              "load", "versions", "prompt", "commit"}

Edit == [kind : EditKinds, step : EditSteps, of : 0..MaxVersions,
         number : 0..MaxVersions, loaded : SUBSET (1..MaxVersions)]

NoEdit == [kind |-> "append", step |-> "idle", of |-> 0, number |-> 0, loaded |-> {}]

PromptTypeOK ==
    /\ prompt \in {"none", "there", "gone"}
    /\ history \in SUBSET Version
    /\ refs \in SUBSET (1..MaxVersions)
    /\ edit \in [Editors -> Edit]

PromptInit ==
    /\ prompt = "none"
    /\ history = {}
    /\ refs = {}
    /\ edit = [r \in Editors |-> NoEdit]

Numbers == {v.number : v \in history}

\* PromptVersionRepository.latest_version_number: 0 of a prompt without versions.
Latest == Max(Numbers \cup {0})

Adds(r) == edit[r].kind \in {"append", "rollback"}

\* What the open transaction of r holds: a version it has inserted, a reference it
\* has inserted, the row of the prompt, and the rows of versions.
Inserted(r) == Adds(r) /\ edit[r].step = "commit"
Refers(r, n) == edit[r].kind = "record" /\ edit[r].step = "commit" /\ edit[r].of = n
Drops(r) == edit[r].kind = "delete" /\ edit[r].step = "commit"
HoldsVersion(r, n) ==
    \/ Drops(r)
    \/ edit[r].kind = "delete" /\ edit[r].step = "prompt" /\ n \in edit[r].loaded

Peers(r) == Editors \ {r}

\* The rows of the versions in S can be deleted: nobody has one of them locked.
Deletable(r, S) == \A q \in Peers(r), n \in S : ~HoldsVersion(q, n) /\ ~Refers(q, n)

Step(r, s) == edit' = [edit EXCEPT ![r].step = s]
Refuse(r) == edit' = [edit EXCEPT ![r] = NoEdit]

-----------------------------------------------------------------------------
\* create_prompt: the row and its first version, if it has content, are committed
\* together.
CreatePrompt ==
    /\ prompt = "none" /\ MaxVersions > 0
    /\ prompt' = "there"
    /\ history' \in {{}, {[number |-> 1, source |-> 0]}}
    /\ UNCHANGED <<refs, edit>>

\* A request arrives.  A rollback names any number; a run names a version that was
\* listed to it.
Ask(r, k, n) ==
    /\ edit[r].step = "idle" /\ prompt # "none"
    /\ CASE k = "rollback" -> n > 0
         [] k = "record" -> n \in Numbers
         [] OTHER -> n = 0
    /\ edit' = [edit EXCEPT ![r] =
         [kind |-> k, step |-> IF k = "record" THEN "insert" ELSE "require", of |-> n,
          number |-> 0, loaded |-> {}]]
    /\ UNCHANGED <<prompt, history, refs>>

\* _require_prompt, and the first lines of delete_prompt.
Require(r) ==
    /\ edit[r].step = "require"
    /\ \/ /\ prompt = "there"
          /\ Step(r, CASE edit[r].kind = "append" -> "number"
                       [] edit[r].kind = "rollback" -> "source"
                       [] OTHER -> "load")
       \/ prompt # "there" /\ Refuse(r)
    /\ UNCHANGED <<prompt, history, refs>>

-----------------------------------------------------------------------------
(* rollback, create_version *)

FindSource(r) ==
    /\ edit[r].step = "source"
    /\ \/ edit[r].of \in Numbers /\ Step(r, "compare")
       \/ edit[r].of \notin Numbers /\ Refuse(r)
    /\ UNCHANGED <<prompt, history, refs>>

\* Mutant: a rollback to the latest version is not refused.
CompareDropped(r) ==
    /\ edit[r].step = "compare"
    /\ Step(r, "number")
    /\ UNCHANGED <<prompt, history, refs>>

Compare(r) ==
    /\ edit[r].step = "compare"
    /\ \/ edit[r].of # Latest /\ Step(r, "number")
       \/ edit[r].of = Latest /\ Refuse(r)
    /\ UNCHANGED <<prompt, history, refs>>

\* PromptVersionRepository.create_version reads the latest number again.
ReadNumber(r) ==
    /\ edit[r].step = "number"
    /\ Latest < MaxVersions
    /\ edit' = [edit EXCEPT ![r].number = Latest + 1, ![r].step = "insert"]
    /\ UNCHANGED <<prompt, history, refs>>

\* Mutant: no unique key over the prompt and the number.
InsertVersionUnchecked(r) ==
    /\ Adds(r) /\ edit[r].step = "insert"
    /\ \A q \in Peers(r) : ~Drops(q)
    /\ \/ prompt = "there" /\ Step(r, "commit")
       \/ prompt # "there" /\ Refuse(r)
    /\ UNCHANGED <<prompt, history, refs>>

\* The unique key over the prompt and the number waits for another insert of that
\* number, the foreign key for a deletion of the prompt; both then look again.
InsertVersion(r) ==
    LET taken == edit[r].number \in Numbers IN
    /\ Adds(r) /\ edit[r].step = "insert"
    /\ \A q \in Peers(r) :
         ~Drops(q) /\ ~(Inserted(q) /\ edit[q].number = edit[r].number)
    /\ \/ prompt = "there" /\ ~taken /\ Step(r, "commit")
       \/ (prompt # "there" \/ taken) /\ Refuse(r)
    /\ UNCHANGED <<prompt, history, refs>>

CommitVersion(r) ==
    /\ Inserted(r)
    /\ history' = history \cup
         {[number |-> edit[r].number, source |-> edit[r].of]}
    /\ Refuse(r)
    /\ UNCHANGED <<prompt, refs>>

-----------------------------------------------------------------------------
(* delete_prompt: the unit of work deletes the versions that it has loaded, and *)
(* then the prompt, whose foreign key takes the versions that came since with  *)
(* it.  A version that a run refers to is not deleted.                         *)

LoadVersions(r) ==
    /\ edit[r].step = "load"
    /\ edit' = [edit EXCEPT ![r].loaded = Numbers, ![r].step = "versions"]
    /\ UNCHANGED <<prompt, history, refs>>

\* Mutant: runs lose their version with the prompt.
DropVersionsAnyway(r) ==
    /\ edit[r].step = "versions"
    /\ Deletable(r, edit[r].loaded)
    /\ Step(r, "prompt")
    /\ UNCHANGED <<prompt, history, refs>>

DropVersions(r) ==
    /\ edit[r].step = "versions"
    /\ Deletable(r, edit[r].loaded)
    /\ \/ edit[r].loaded \cap refs = {} /\ Step(r, "prompt")
       \/ edit[r].loaded \cap refs # {} /\ Refuse(r)
    /\ UNCHANGED <<prompt, history, refs>>

\* The row of the prompt is locked by whoever has inserted a version of it.
DropPrompt(r) ==
    LET since == Numbers \ edit[r].loaded IN
    /\ edit[r].step = "prompt"
    /\ \A q \in Peers(r) : ~Drops(q) /\ ~Inserted(q)
    /\ Deletable(r, since)
    /\ \/ since \cap refs = {} /\ Step(r, "commit")
       \/ since \cap refs # {} /\ Refuse(r)
    /\ UNCHANGED <<prompt, history, refs>>

CommitDelete(r) ==
    /\ Drops(r)
    /\ prompt' = "gone"
    /\ history' = {}
    /\ Refuse(r)
    /\ UNCHANGED refs

-----------------------------------------------------------------------------
(* create_run and delete_experiment *)

\* The foreign key waits for who is about to delete the version.
Record(r) ==
    LET n == edit[r].of IN
    /\ edit[r].kind = "record" /\ edit[r].step = "insert"
    /\ \A q \in Peers(r) : ~HoldsVersion(q, n)
    /\ \/ n \in Numbers /\ Step(r, "commit")
       \/ n \notin Numbers /\ Refuse(r)
    /\ UNCHANGED <<prompt, history, refs>>

CommitRecord(r) ==
    /\ edit[r].kind = "record" /\ edit[r].step = "commit"
    /\ refs' = refs \cup {edit[r].of}
    /\ Refuse(r)
    /\ UNCHANGED <<prompt, history>>

\* Experiments are deleted with their runs.
DeleteExperiment ==
    /\ \E left \in SUBSET refs : left # refs /\ refs' = left
    /\ UNCHANGED <<prompt, history, edit>>

\* get_session: a statement fails, the server or its connection goes, a deadlock
\* finds its victim; the transaction leaves nothing.
Fail(r) ==
    /\ edit[r].step # "idle"
    /\ Refuse(r)
    /\ UNCHANGED <<prompt, history, refs>>

-----------------------------------------------------------------------------
ServeEdit(r) ==
    \/ Require(r) \/ FindSource(r) \/ Compare(r) \/ ReadNumber(r) \/ InsertVersion(r)
    \/ CommitVersion(r) \/ LoadVersions(r) \/ DropVersions(r) \/ DropPrompt(r)
    \/ CommitDelete(r) \/ Record(r) \/ CommitRecord(r) \/ Fail(r)

PromptNext ==
    \/ CreatePrompt
    \/ DeleteExperiment
    \/ \E r \in Editors : ServeEdit(r)
    \/ \E r \in Editors, k \in EditKinds, n \in 0..MaxVersions : Ask(r, k, n)

PromptSpec == PromptInit /\ [][PromptNext]_promptVars

-----------------------------------------------------------------------------
(* Properties *)

\* "Version numbers are assigned server-side and are monotonic per prompt": the
\* versions are numbered from 1 without a gap, and no two alike, although every
\* append reads the latest number before it inserts.
VersionsCountUp ==
    /\ Numbers = 1..Latest
    /\ \A v, w \in history : v.number = w.number => v = w

\* A rollback restores something: the version it copies was not the latest one when
\* it was appended, whatever was appended meanwhile.
RollbackReverts ==
    \A v \in history : v.source # 0 => v.source + 1 < v.number

\* "Deleting a Prompt must not silently orphan the experiments that referenced its
\* versions", also when a run is recorded, or a version appended, while it is deleted.
ReferencesStay == refs \subseteq Numbers
=============================================================================
