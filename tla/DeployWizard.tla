---------------------------- MODULE DeployWizard ----------------------------
(* The wizard that deploys a local model (components/deployment/               *)
(* DeploymentWizard.tsx on the page deployments/new): seven steps, then one    *)
(* POST /deployments through useCreateDeployment.  Its state is lost when the  *)
(* user leaves the page, its request is not: what the answer sets finds the    *)
(* page gone, and what it navigates moves the user from wherever he is.        *)
(* The fields of the steps Configuration to Health Checks always hold a value, *)
(* of which only is kept whether one was changed.  MaxVisits bounds how often  *)
(* the page is opened.                                                         *)
EXTENDS Naturals

CONSTANTS MaxVisits

ASSUME DeployAssumption == MaxVisits \in Nat

VARIABLES
    screen,         \* where the user is: "new", "list" (/deployments), "other"
    going,          \* router.push("/deployments") has not committed yet
    visit,          \* which time the page is shown
    at,             \* step, 0..6
    modelRef,       \* the trimmed field is not empty
    backendType, gpuAvailable,
    gpuIndex,       \* the field of the step Hardware
    config,         \* "initial" (EMPTY_CONFIG) or "changed"
    deploying,      \* the state of that name
    deployError,    \* error
    posts           \* the creates in flight: of which visit, what they ask for

deployVars == <<screen, going, visit, at, modelRef, backendType, gpuAvailable, gpuIndex, config,
                deploying, deployError, posts>>
settings == <<gpuIndex, config>>
form == <<at, modelRef, backendType, settings>>

LastStep == 6       \* STEPS.length - 1
Backends == {"ollama", "vllm"}
NoBackend == ""     \* before the user has picked one
GpuIndexes == {"0", "1"}
NoGpu == "null"

DeployTypeOK ==
    /\ screen \in {"new", "list", "other"} /\ going \in BOOLEAN
    /\ visit \in 0..MaxVisits /\ at \in 0..LastStep
    /\ modelRef \in BOOLEAN /\ backendType \in Backends \cup {NoBackend} /\ gpuAvailable \in BOOLEAN
    /\ gpuIndex \in GpuIndexes /\ config \in {"initial", "changed"}
    /\ deploying \in BOOLEAN /\ deployError \in BOOLEAN
    /\ posts \subseteq [visit : 1..MaxVisits, model : BOOLEAN, backend : Backends \cup {NoBackend},
                        gpu : GpuIndexes \cup {NoGpu}, config : {"initial", "changed"}]

Empty == /\ at' = 0 /\ modelRef' = FALSE /\ backendType' = NoBackend
         /\ gpuIndex' = "0" /\ config' = "initial"
         /\ deploying' = FALSE /\ deployError' = FALSE

DeployInit ==
    /\ screen = "list" /\ going = FALSE /\ visit = 0
    /\ at = 0 /\ modelRef = FALSE /\ backendType = NoBackend /\ gpuAvailable = FALSE
    /\ gpuIndex = "0" /\ config = "initial" /\ deploying = FALSE /\ deployError = FALSE /\ posts = {}

-----------------------------------------------------------------------------
\* The page mounts.
OpenPage ==
    /\ screen # "new" /\ ~going /\ visit < MaxVisits
    /\ screen' = "new" /\ visit' = visit + 1 /\ Empty
    /\ UNCHANGED <<going, gpuAvailable, posts>>

\* The sidebar, the palette, the browser's own buttons.
LeavePage ==
    /\ screen' = "other" /\ screen # "other" /\ Empty
    /\ UNCHANGED <<going, visit, gpuAvailable, posts>>

\* "Cancel" above the wizard, at any time, and below its last step.
CancelDeploy ==
    /\ screen = "new"
    /\ going' = TRUE
    /\ UNCHANGED <<screen, visit, form, gpuAvailable, deploying, deployError, posts>>

\* The router commits the push; a wizard that was shown is gone.
CommitPush ==
    /\ going
    /\ going' = FALSE /\ screen' = "list"
    /\ IF screen = "new" THEN Empty ELSE UNCHANGED <<form, deploying, deployError>>
    /\ UNCHANGED <<visit, gpuAvailable, posts>>

TypeModel ==
    /\ screen = "new" /\ at = 0
    /\ modelRef' \in BOOLEAN
    /\ UNCHANGED <<screen, going, visit, at, backendType, gpuAvailable, settings, deploying, deployError, posts>>

\* vLLM is offered only while the backend reports a GPU.
PickRuntime(b) ==
    /\ screen = "new" /\ at = 1
    /\ b = "vllm" => gpuAvailable
    /\ backendType' = b
    /\ UNCHANGED <<screen, going, visit, at, modelRef, gpuAvailable, settings, deploying, deployError, posts>>

\* The step Hardware, whose fields are disabled unless the runtime is vLLM.
SetHardware ==
    /\ screen = "new" /\ at = 2 /\ backendType = "vllm"
    /\ gpuIndex' \in GpuIndexes /\ config' \in {"initial", "changed"}
    /\ UNCHANGED <<screen, going, visit, at, modelRef, backendType, gpuAvailable, deploying, deployError, posts>>

\* The steps Configuration, Networking and Health Checks.
SetConfig ==
    /\ screen = "new" /\ at \in 3..5
    /\ config' \in {"initial", "changed"}
    /\ UNCHANGED <<screen, going, visit, at, modelRef, backendType, gpuAvailable, gpuIndex,
                   deploying, deployError, posts>>

\* useDeploymentBackends is answered, again and again.
BackendsAnswer ==
    /\ gpuAvailable' = ~gpuAvailable
    /\ UNCHANGED <<screen, going, visit, form, deploying, deployError, posts>>

CanAdvanceWithoutRuntime == at = 0 => modelRef      \* mutant

CanAdvance == /\ at = 0 => modelRef
              /\ at = 1 => backendType # NoBackend

\* Mutant: a step past the last one.
NextStepPastLast ==
    /\ screen = "new" /\ CanAdvance
    /\ at' = at + 1
    /\ UNCHANGED <<screen, going, visit, modelRef, backendType, gpuAvailable, settings, deploying, deployError, posts>>

NextStepOfDeploy ==
    /\ screen = "new" /\ at # LastStep /\ CanAdvance
    /\ at' = at + 1
    /\ UNCHANGED <<screen, going, visit, modelRef, backendType, gpuAvailable, settings, deploying, deployError, posts>>

BackStepOfDeploy ==
    /\ screen = "new" /\ at # 0
    /\ ~(at = LastStep /\ deploying)
    /\ at' = at - 1
    /\ UNCHANGED <<screen, going, visit, modelRef, backendType, gpuAvailable, settings, deploying, deployError, posts>>

\* deploy(): the button gives way to the spinner.
Deploy ==
    /\ screen = "new" /\ at = LastStep /\ ~deploying
    /\ deploying' = TRUE /\ deployError' = FALSE
    /\ posts' = posts \cup {[visit |-> visit, model |-> modelRef, backend |-> backendType, config |-> config,
                             gpu |-> IF backendType = "vllm" THEN gpuIndex ELSE NoGpu]}
    /\ UNCHANGED <<screen, going, visit, form, gpuAvailable>>

\* mutateAsync resolves: the push goes through the router of the application.
Deployed(p) ==
    /\ p \in posts
    /\ posts' = posts \ {p} /\ going' = TRUE
    /\ UNCHANGED <<screen, visit, form, gpuAvailable, deploying, deployError>>

\* Mutant: the spinner is left on.
DeployFailsSpinning(p) ==
    /\ p \in posts
    /\ posts' = posts \ {p}
    /\ deployError' = (deployError \/ (screen = "new" /\ p.visit = visit))
    /\ UNCHANGED <<screen, going, visit, form, gpuAvailable, deploying>>

\* It rejects, apiFetch's 30 s included.
DeployFails(p) ==
    /\ p \in posts
    /\ posts' = posts \ {p}
    /\ IF screen = "new" /\ p.visit = visit THEN deployError' = TRUE /\ deploying' = FALSE
       ELSE UNCHANGED <<deployError, deploying>>
    /\ UNCHANGED <<screen, going, visit, form, gpuAvailable>>

DeployNext ==
    \/ OpenPage \/ LeavePage \/ CancelDeploy \/ CommitPush
    \/ TypeModel \/ SetHardware \/ SetConfig \/ BackendsAnswer \/ NextStepOfDeploy \/ BackStepOfDeploy \/ Deploy
    \/ \E b \in Backends : PickRuntime(b)
    \/ \E p \in posts : Deployed(p) \/ DeployFails(p)

DeploySpec == DeployInit /\ [][DeployNext]_deployVars

-----------------------------------------------------------------------------
\* The spinner stands for a request of this visit that is under way, or for the
\* move to the list that follows it: it never outlives its request, and the
\* button is never offered beside it, whatever answers to earlier visits bring.
SpinnerHasRequest ==
    screen = "new" =>
        /\ deploying => going \/ \E p \in posts : p.visit = visit
        /\ (\E p \in posts : p.visit = visit) => deploying

\* Every request names a model and a runtime, and a GPU exactly where the runtime
\* takes one, whichever way the user went back and forth through the steps.
RequestComplete ==
    \A p \in posts : p.model /\ p.backend # NoBackend /\ (p.gpu = NoGpu <=> p.backend # "vllm")
=============================================================================
