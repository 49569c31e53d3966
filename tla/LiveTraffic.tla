----------------------------- MODULE LiveTraffic ----------------------------
(* What the command centre says of its animation: useLiveTraffic counts the    *)
(* request events of the last five seconds once a second, and CommandCenter    *)
(* reads the outcome, and the connection, every one and a half seconds.  Time  *)
(* is counted in halves of a second.  MaxEvents bounds the events that are     *)
(* remembered at once.                                                         *)
EXTENDS Naturals, FiniteSets

CONSTANTS MaxEvents

ASSUME TrafficAssumption == MaxEvents \in Nat

VARIABLES
    clock,      \* half seconds since the timers were started, modulo their period
    arrived,    \* the ages of the request events, as far as anything depends on them
    realTimes,  \* those of them that realTimesRef still holds
    simulatedRef,
    connectedNow,   \* isConnectedRef
    label           \* what the toolbar says

trafficVars == <<clock, arrived, realTimes, simulatedRef, connectedNow, label>>

Window == 10        \* 5000 ms
TickEvery == 2      \* 1000 ms
PollEvery == 3      \* 1500 ms
Horizon == Window + TickEvery + PollEvery

TrafficInit ==
    /\ clock = 0 /\ arrived = {} /\ realTimes = {}
    /\ simulatedRef = TRUE /\ connectedNow \in BOOLEAN /\ label = "disconnected"

\* A frame on the topic "dashboard" that is a request's completion.
RequestEvent ==
    /\ 0 \notin arrived /\ Cardinality(arrived) < MaxEvents
    /\ arrived' = arrived \cup {0} /\ realTimes' = realTimes \cup {0}
    /\ UNCHANGED <<clock, simulatedRef, connectedNow, label>>

ConnectionChanges ==
    /\ connectedNow' = ~connectedNow
    /\ UNCHANGED <<clock, arrived, realTimes, simulatedRef, label>>

Aged(ages) == {a + 1 : a \in {b \in ages : b < Horizon}}

RecentOrNot(ages) == ages       \* mutant: nothing is forgotten

\* The filter of the tick keeps what is younger than the window; the rate is the
\* number of events by five, and real above 0.2.
Recent(ages) == {a \in ages : a < Window}
Simulates(ages) == ~(Cardinality(ages) > 1)

Label(connected, simulated) ==
    IF ~connected THEN "disconnected" ELSE IF simulated THEN "simulated" ELSE "live"

\* Half a second passes; then the timers that are due run, the tick first.
TimePasses ==
    LET now == (clock + 1) % (TickEvery * PollEvery)
        tick == now % TickEvery = 0
        poll == now % PollEvery = 0
        held == Aged(realTimes)
    IN /\ clock' = now
       /\ arrived' = Aged(arrived)
       /\ realTimes' = IF tick THEN Recent(held) ELSE held
       /\ simulatedRef' = IF tick THEN Simulates(Recent(held)) ELSE simulatedRef
       /\ label' = IF poll THEN Label(connectedNow, simulatedRef') ELSE label
       /\ UNCHANGED connectedNow

TrafficNext == RequestEvent \/ ConnectionChanges \/ TimePasses

TrafficSpec == TrafficInit /\ [][TrafficNext]_trafficVars

-----------------------------------------------------------------------------
\* "Live traffic" is said only while requests have completed within the window and
\* the two delays before the toolbar hears of it, although the counter holds
\* instants and the toolbar a copy of a copy.
LiveMeansTraffic == label = "live" => Cardinality(arrived) >= 2

\* The comment at useLiveTraffic.ts:9: simulated is "True when no real gateway
\* traffic has arrived recently".  A single event in five seconds leaves it so.
SimulatedMeansNone == clock % TickEvery = 0 /\ simulatedRef => Recent(realTimes) = {}
=============================================================================
