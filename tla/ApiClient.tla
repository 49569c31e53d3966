------------------------------ MODULE ApiClient ------------------------------
(* How the console asks the control plane (lib/api.ts): the base URL resolved  *)
(* from NEXT_PUBLIC_API_URL and the warning about it, one request with its     *)
(* timeout, its caller's signal and its body, and the query that asks again    *)
(* (components/providers.tsx).  A path is a sequence of segments; MaxSegments  *)
(* bounds what is configured.                                                  *)
EXTENDS Naturals, Sequences, SequencesExt

CONSTANTS PathSegments, MaxSegments

ASSUME ApiAssumption == {"api", "v1"} \subseteq PathSegments /\ MaxSegments \in Nat

VARIABLES
    raw,        \* NEXT_PUBLIC_API_URL: whether it has a scheme, and its path
    stage,      \* of the request: "idle", "fetching", "body", "failing" (a body of an error), "waiting"
    hasTimeout, hasSignal,
    timerArmed,
    callerAborted,
    outcome,    \* what the last request came to
    cause,      \* what had happened to it
    failureCount

apiVars == <<raw, stage, hasTimeout, hasSignal, timerArmed, callerAborted, outcome, cause, failureCount>>

ApiPrefix == <<"api", "v1">>
Raws == [scheme : BOOLEAN, path : BoundedSeq(PathSegments, MaxSegments)]

ResolveAlways(path) == path \o ApiPrefix        \* mutant

\* resolveBaseUrl: what ends with the prefix is the base already.
ResolveBaseUrl(path) == IF IsSuffix(ApiPrefix, path) THEN path ELSE path \o ApiPrefix

\* "/api/" in the base: a match takes the slash that follows it.
Occurrences(path) ==
    LET from[i \in 1..(Len(path) + 2)] ==
            IF i >= Len(path) THEN 0
            ELSE IF path[i] = "api" THEN 1 + from[i + 2] ELSE from[i + 1]
    IN from[1]

Warned == ~raw.scheme \/ Occurrences(ResolveBaseUrl(raw.path)) > 1

\* Whether requests reach the routes the backend mounts.
Reaches == raw.scheme /\ ResolveBaseUrl(raw.path) = ApiPrefix

Outcomes == {"none", "data", "empty", "client", "server", "timed out", "raw"}
Causes == {"none", "ok", "no content", "4xx", "5xx", "network", "timer", "caller", "not json"}

ApiTypeOK ==
    /\ raw \in Raws
    /\ stage \in {"idle", "fetching", "body", "failing", "waiting"}
    /\ hasTimeout \in BOOLEAN /\ hasSignal \in BOOLEAN /\ timerArmed \in BOOLEAN
    /\ callerAborted \in BOOLEAN
    /\ outcome \in Outcomes /\ cause \in Causes /\ failureCount \in 0..2

ApiInit ==
    /\ raw \in Raws
    /\ stage = "idle" /\ hasTimeout = TRUE /\ hasSignal = FALSE /\ timerArmed = FALSE
    /\ callerAborted = FALSE /\ outcome = "none" /\ cause = "none" /\ failureCount = 0

-----------------------------------------------------------------------------
\* The query's retry: a status of 4xx is final, everything else is tried once more.
FinalStatus(result) == result \in {"client", "timed out"}

\* Mutant: the failures of the last request are not counted.
RejectAlways(result, why) ==
    /\ outcome' = result /\ cause' = why
    /\ timerArmed' = FALSE
    /\ IF ~FinalStatus(result) THEN stage' = "waiting" /\ failureCount' = failureCount + 1
       ELSE stage' = "idle" /\ UNCHANGED failureCount
    /\ UNCHANGED <<raw, hasTimeout, hasSignal>>

Reject(result, why) ==
    /\ outcome' = result /\ cause' = why
    /\ timerArmed' = FALSE
    /\ IF ~FinalStatus(result) /\ failureCount < 1
       THEN stage' = "waiting" /\ failureCount' = failureCount + 1
       ELSE stage' = "idle" /\ UNCHANGED failureCount
    /\ UNCHANGED <<raw, hasTimeout, hasSignal>>

\* A call, with a signal that is not aborted yet.
ApiFetch(timeout, signal) ==
    /\ stage = "idle" /\ hasTimeout' = timeout /\ hasSignal' = signal
    /\ callerAborted' = FALSE
    /\ stage' = "fetching" /\ timerArmed' = timeout /\ failureCount' = 0
    /\ outcome' = "none" /\ cause' = "none" /\ UNCHANGED raw

\* retryDelay is over: the same call, with the same signal.
RetryAsk ==
    /\ stage = "waiting"
    /\ IF callerAborted
       THEN Reject("raw", "caller")
       ELSE /\ stage' = "fetching" /\ timerArmed' = hasTimeout
            /\ outcome' = "none" /\ cause' = "none"
            /\ UNCHANGED <<raw, hasTimeout, hasSignal, failureCount>>
    /\ UNCHANGED callerAborted

\* Mutant: whoever aborted, the request timed out.
FetchAbortedAsTimeout(why) == Reject("timed out", why)

\* The controller was aborted while fetch was pending.
FetchAborted(why) ==
    IF ~callerAborted' THEN Reject("timed out", why) ELSE Reject("raw", why)

TimerFires ==
    /\ timerArmed
    /\ UNCHANGED callerAborted
    /\ IF stage = "fetching" THEN FetchAborted("timer")
       ELSE timerArmed' = FALSE /\ UNCHANGED <<raw, stage, hasTimeout, hasSignal, outcome, cause, failureCount>>

\* The caller aborts: the body of an error that breaks off is no body.
CallerAborts ==
    /\ hasSignal /\ ~callerAborted /\ stage # "idle"
    /\ callerAborted' = TRUE
    /\ CASE stage = "fetching" -> FetchAborted("caller")
         [] stage = "body" -> Reject("raw", "caller")
         [] stage = "failing" -> Reject(IF cause = "5xx" THEN "server" ELSE "client", cause)
         [] OTHER -> UNCHANGED <<raw, stage, hasTimeout, hasSignal, timerArmed, outcome, cause, failureCount>>

NetworkFails ==
    /\ stage \in {"fetching", "body", "failing"}
    /\ IF stage = "failing" THEN Reject(IF cause = "5xx" THEN "server" ELSE "client", cause)
       ELSE Reject("raw", "network")
    /\ UNCHANGED callerAborted

\* Mutant: the timer runs on while the body is read.
HeadersArriveTimed(answer) ==
    /\ stage = "fetching"
    /\ cause' = answer
    /\ IF answer = "no content"
       THEN stage' = "idle" /\ outcome' = "empty"
       ELSE stage' = (IF answer = "ok" THEN "body" ELSE "failing") /\ UNCHANGED outcome
    /\ UNCHANGED <<raw, hasTimeout, hasSignal, timerArmed, callerAborted, failureCount>>

\* The headers arrive, and the timer is cleared.  Behind a base that misses the
\* routes, everything is a 404.
HeadersArrive(answer) ==
    /\ stage = "fetching" /\ timerArmed' = FALSE
    /\ cause' = answer
    /\ IF answer = "no content"
       THEN stage' = "idle" /\ outcome' = "empty"
       ELSE stage' = (IF answer = "ok" THEN "body" ELSE "failing") /\ UNCHANGED outcome
    /\ UNCHANGED <<raw, hasTimeout, hasSignal, callerAborted, failureCount>>

\* The body arrives: JSON, nothing, or what does not parse.
BodyArrives(body) ==
    /\ \/ /\ stage = "body"
          /\ IF body = "broken" THEN Reject("raw", "not json")
             ELSE /\ stage' = "idle" /\ outcome' = IF body = "json" THEN "data" ELSE "empty"
                  /\ UNCHANGED <<raw, hasTimeout, hasSignal, timerArmed, cause, failureCount>>
       \/ stage = "failing" /\ Reject(IF cause = "5xx" THEN "server" ELSE "client", cause)
    /\ UNCHANGED callerAborted

ApiNext ==
    \/ \E timeout, signal \in BOOLEAN : ApiFetch(timeout, signal)
    \/ RetryAsk \/ TimerFires \/ CallerAborts \/ NetworkFails
    \/ \E answer \in IF Reaches THEN {"ok", "no content", "4xx", "5xx"} ELSE {"4xx"} : HeadersArrive(answer)
    \/ \E body \in {"json", "nothing", "broken"} : BodyArrives(body)

ApiSpec == ApiInit /\ [][ApiNext]_apiVars

-----------------------------------------------------------------------------
\* A base that misses the routes is never taken for a good one by the page: no
\* warning is given for a base that reaches them, and the two forms that people
\* paste both do.
NoFalseAlarm ==
    /\ Reaches => ~Warned
    /\ raw.scheme /\ raw.path \in {<<>>, ApiPrefix} => Reaches

\* What a request comes to is what happened to it: data only from an answer that
\* is ok, a time-out only from its own timer, and a status only from the server.
OutcomeOfCause ==
    CASE outcome = "data" -> cause = "ok"
      [] outcome = "empty" -> cause \in {"ok", "no content"}
      [] outcome = "client" -> cause = "4xx"
      [] outcome = "server" -> cause = "5xx"
      [] outcome = "timed out" -> cause = "timer" /\ ~callerAborted /\ hasTimeout
      [] outcome = "raw" -> cause \in {"network", "caller", "not json"}
      [] OTHER -> stage # "idle" \/ cause = "none"

\* "retry 5xx/network faults, once": a query is at rest or on its second try, and
\* the timer of one try is not left to fire into the next.
OneRetry ==
    /\ failureCount <= 1
    /\ timerArmed => stage = "fetching" /\ hasTimeout
    /\ stage = "fetching" /\ hasTimeout => timerArmed
=============================================================================
