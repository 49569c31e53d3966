----------------------------- MODULE LiveSocket -----------------------------
(* The live connection of the console: WebSocketProvider (components/shared/   *)
(* WebSocketProvider.tsx) in the browser, one hub connection (backend/app/api/ *)
(* v1/ws.py) with its Redis subscription, and the pages that register a        *)
(* callback on one topic each.  `subscribe` is a new function on every render, *)
(* so a change of `isConnected` makes the page clean its effect up and         *)
(* subscribe again: after every connect the hub is told subscribe, unsubscribe *)
(* and subscribe of the same topic.                                            *)
(* Messages carry their topic only; the hub's `_control` answers, which no     *)
(* callback listens to, are left out, as are frames the console never sends    *)
(* (ping, malformed JSON, an unknown topic).  MaxQueued bounds each queue.     *)
EXTENDS Naturals, Sequences, FiniteSets

CONSTANTS Pages,        \* the pages under the provider
          Topics,       \* the topics they listen to
          NoTopic,      \* a page without a subscription
          TopicOf,      \* the topic of each page
          MaxTopics,    \* MAX_TOPICS_PER_CONNECTION
          RedisFails,   \* may the hub's Redis connection fail?
          MaxQueued     \* bound: frames in one queue

\* The console has fewer topics than the hub takes from one connection.
ASSUME TopicsAssumption == /\ "none" \notin Pages
                           /\ NoTopic \notin Topics /\ IsFiniteSet(Topics)
                           /\ TopicOf \in [Pages -> Topics \cup {NoTopic}]
                           /\ MaxTopics \in Nat /\ Cardinality(Topics) <= MaxTopics
                           /\ MaxQueued \in Nat
                           /\ RedisFails \in BOOLEAN

VARIABLES
    page,           \* the page under the provider, "none" once it is unmounted
    subscriptions,  \* subscriptionsRef: the topics that have a callback
    readyState,     \* wsRef.current.readyState, "none" before the first connect
    reconnect,      \* reconnection timers that are armed
    isConnected,    \* the state of that name
    rerender,       \* isConnected has changed and React has not rendered yet
    toServer,       \* frames on their way to the hub
    toClient        \* frames on their way to the page

VARIABLES
    topics,         \* TopicSubscription.topics
    channels,       \* PubSub.channels of redis-py
    unsubscribing,  \* PubSub.pending_unsubscribe_channels
    listening,      \* what Redis has this connection subscribed to
    replies,        \* what Redis sent and the pump has not read
    relay           \* TopicSubscription._relay: "none", "running", "ended"

browserVars == <<page, subscriptions, readyState, reconnect, isConnected, rerender>>
hubVars == <<topics, channels, unsubscribing, listening, replies, relay>>
socketVars == <<browserVars, toServer, toClient, hubVars>>

Subscribe(t) == [action |-> "subscribe", topic |-> t]
Unsubscribe(t) == [action |-> "unsubscribe", topic |-> t]
Reply(kind, t) == [type |-> kind, topic |-> t]

Frames == [action : {"subscribe", "unsubscribe"}, topic : Topics]
Replies == [type : {"subscribe", "unsubscribe", "message"}, topic : Topics]

TypeOK ==
    /\ page \in Pages \cup {"none"}
    /\ subscriptions \subseteq Topics
    /\ readyState \in {"none", "connecting", "open", "closing", "closed"}
    /\ reconnect \in Nat
    /\ isConnected \in BOOLEAN /\ rerender \in BOOLEAN
    /\ toServer \in Seq(Frames) /\ toClient \in Seq(Topics)
    /\ topics \subseteq Topics /\ channels \subseteq Topics
    /\ unsubscribing \subseteq Topics /\ listening \subseteq Topics
    /\ replies \in Seq(Replies)
    /\ relay \in {"none", "running", "ended"}

NoHub == /\ topics = {} /\ channels = {} /\ unsubscribing = {} /\ listening = {}
         /\ replies = <<>> /\ relay = "none"
HubGone == /\ topics' = {} /\ channels' = {} /\ unsubscribing' = {} /\ listening' = {}
           /\ replies' = <<>> /\ relay' = "none"

\* The first commit: the page's effect (children first) has registered its
\* topic, then the provider's effect has called connect(), whose constructor
\* may have thrown: then the timer is armed.
Init ==
    /\ page \in Pages
    /\ subscriptions = {TopicOf[page]} \ {NoTopic}
    /\ \/ readyState = "connecting" /\ reconnect = 0
       \/ readyState = "none" /\ reconnect = 1
    /\ isConnected = FALSE /\ rerender = FALSE
    /\ toServer = <<>> /\ toClient = <<>>
    /\ NoHub

-----------------------------------------------------------------------------
(* The browser.                                                                *)

\* Mutant: the new topic is subscribed before the old one is dropped.
SendSwapped(old, new) ==
    toServer' = IF readyState # "open" THEN toServer
                ELSE toServer \o (IF new = NoTopic THEN <<>> ELSE <<Subscribe(new)>>)
                              \o (IF old = NoTopic THEN <<>> ELSE <<Unsubscribe(old)>>)

\* What `subscribe` and its clean-up send, only on a socket that is open.
Send(old, new) ==
    toServer' = IF readyState # "open" THEN toServer
                ELSE toServer \o (IF old = NoTopic THEN <<>> ELSE <<Unsubscribe(old)>>)
                              \o (IF new = NoTopic THEN <<>> ELSE <<Subscribe(new)>>)

\* A commit of React: the user has moved to another page, or the context value
\* has changed.  The effects that go are cleaned up, then the new ones run.
Commit(next) ==
    /\ page # "none" /\ next \in Pages
    /\ next # page \/ rerender
    /\ Len(toServer) + 2 <= MaxQueued
    /\ page' = next /\ rerender' = FALSE
    /\ subscriptions' = (subscriptions \ {TopicOf[page]}) \cup ({TopicOf[next]} \ {NoTopic})
    /\ Send(TopicOf[page], TopicOf[next])
    /\ UNCHANGED <<readyState, reconnect, isConnected, toClient, hubVars>>

\* connect(), run by the timer; when the constructor throws again the timer is
\* armed again, which changes nothing.
Connect ==
    /\ reconnect > 0 /\ readyState \in {"none", "closed"}
    /\ reconnect' = reconnect - 1
    /\ readyState' = "connecting"
    /\ UNCHANGED <<page, subscriptions, isConnected, rerender, toServer, toClient, hubVars>>

\* onopen, after websocket_endpoint has authenticated and accepted.
OnOpen ==
    /\ readyState = "connecting"
    /\ readyState' = "open"
    /\ isConnected' = TRUE /\ rerender' = (page # "none")
    /\ \E order \in [1..Cardinality(subscriptions) -> subscriptions] :
         /\ \A t \in subscriptions : \E i \in DOMAIN order : order[i] = t
         /\ toServer' = [i \in DOMAIN order |-> Subscribe(order[i])]
    /\ UNCHANGED <<page, subscriptions, reconnect, toClient, hubVars>>

\* Mutant: onerror arms a timer, as onclose does.
OnErrorReconnects ==
    /\ readyState \in {"connecting", "open"}
    /\ readyState' = "closing" /\ reconnect' = reconnect + 1
    /\ UNCHANGED <<page, subscriptions, isConnected, rerender, toServer, toClient, hubVars>>

\* onerror: the socket is closed; the close event follows.
OnError ==
    /\ readyState \in {"connecting", "open"}
    /\ readyState' = "closing"
    /\ UNCHANGED <<page, subscriptions, reconnect, isConnected, rerender, toServer, toClient, hubVars>>

\* onclose, whoever closed: the frames are lost and the hub's side ends
\* (TopicSubscription.close).
OnClose ==
    /\ readyState \in {"connecting", "open", "closing"}
    /\ readyState' = "closed"
    /\ isConnected' = FALSE
    /\ rerender' = (page # "none" /\ (rerender \/ isConnected))
    /\ reconnect' = reconnect + 1
    /\ toServer' = <<>> /\ toClient' = <<>>
    /\ HubGone
    /\ UNCHANGED <<page, subscriptions>>

\* The user leaves the authenticated pages: the provider's clean-up clears the
\* timer and closes the socket, whose close handler still runs.
Unmount ==
    /\ page # "none"
    /\ page' = "none" /\ subscriptions' = {} /\ rerender' = FALSE
    /\ reconnect' = 0
    /\ readyState' = IF readyState \in {"connecting", "open"} THEN "closing" ELSE readyState
    /\ UNCHANGED <<isConnected, toServer, toClient, hubVars>>

\* onmessage for topic t: its callbacks run.
OnMessage(t) ==
    /\ readyState = "open" /\ toClient # <<>> /\ Head(toClient) = t
    /\ toClient' = Tail(toClient)
    /\ UNCHANGED <<browserVars, toServer, hubVars>>

-----------------------------------------------------------------------------
(* The hub.                                                                    *)

Live == readyState \in {"open", "closing"}

\* websocket_endpoint on a subscribe frame: the limit, then
\* TopicSubscription.subscribe.
ServeSubscribe(t) ==
    /\ Live /\ toServer # <<>> /\ Head(toServer) = Subscribe(t)
    /\ toServer' = Tail(toServer)
    /\ IF Cardinality(topics) >= MaxTopics \/ t \in topics THEN UNCHANGED hubVars
       ELSE /\ Len(replies) < MaxQueued
            /\ topics' = topics \cup {t}
            /\ channels' = channels \cup {t}
            /\ unsubscribing' = unsubscribing \ {t}
            /\ listening' = listening \cup {t}
            /\ replies' = Append(replies, Reply("subscribe", t))
            /\ relay' = IF relay = "none" THEN "running" ELSE relay
    /\ UNCHANGED <<browserVars, toClient>>

\* Mutant: the topic stays in TopicSubscription.topics.
ServeUnsubscribeKeeping(t) ==
    /\ Live /\ toServer # <<>> /\ Head(toServer) = Unsubscribe(t)
    /\ toServer' = Tail(toServer)
    /\ IF t \notin topics THEN UNCHANGED hubVars
       ELSE /\ Len(replies) < MaxQueued
            /\ unsubscribing' = unsubscribing \cup {t}
            /\ listening' = listening \ {t}
            /\ replies' = Append(replies, Reply("unsubscribe", t))
            /\ UNCHANGED <<topics, channels, relay>>
    /\ UNCHANGED <<browserVars, toClient>>

ServeUnsubscribe(t) ==
    /\ Live /\ toServer # <<>> /\ Head(toServer) = Unsubscribe(t)
    /\ toServer' = Tail(toServer)
    /\ IF t \notin topics THEN UNCHANGED hubVars
       ELSE /\ Len(replies) < MaxQueued
            /\ topics' = topics \ {t}
            /\ unsubscribing' = unsubscribing \cup {t}
            /\ listening' = listening \ {t}
            /\ replies' = Append(replies, Reply("unsubscribe", t))
            /\ UNCHANGED <<channels, relay>>
    /\ UNCHANGED <<browserVars, toClient>>

\* One turn of `async for message in pubsub.listen()`: a channel goes when the
\* answer to its unsubscribe is read and no subscribe came in between, and the
\* loop ends with the last channel.
Pump ==
    /\ Live /\ relay = "running" /\ replies # <<>>
    /\ Len(toClient) < MaxQueued
    /\ LET r == Head(replies)
           gone == IF r.type = "unsubscribe" THEN {r.topic} \cap unsubscribing ELSE {}
       IN /\ replies' = Tail(replies)
          /\ channels' = channels \ gone
          /\ unsubscribing' = unsubscribing \ gone
          /\ relay' = IF channels \ gone = {} THEN "ended" ELSE "running"
          /\ toClient' = IF r.type = "message" THEN Append(toClient, r.topic) ELSE toClient
    /\ UNCHANGED <<browserVars, toServer, topics, listening>>

\* Redis goes away under the pump, which logs and ends.
PumpFails ==
    /\ RedisFails /\ relay = "running"
    /\ relay' = "ended"
    /\ UNCHANGED <<browserVars, toServer, toClient, topics, channels, unsubscribing, listening, replies>>

\* A publisher (a worker, an endpoint) publishes on topic t; Redis hands it to
\* the connections that are subscribed.
Publish(t) ==
    /\ Len(replies) < MaxQueued
    /\ replies' = IF t \in listening THEN Append(replies, Reply("message", t)) ELSE replies
    /\ UNCHANGED <<browserVars, toServer, toClient, topics, channels, unsubscribing, listening, relay>>

Serve == \E t \in Topics : ServeSubscribe(t) \/ ServeUnsubscribe(t)

Connection == Connect \/ OnOpen \/ OnError \/ OnClose \/ Serve \/ Pump \/ PumpFails

Next == \/ \E next \in Pages : Commit(next)
        \/ Unmount
        \/ Connection
        \/ \E t \in Topics : OnMessage(t) \/ Publish(t)

Spec == Init /\ [][Next]_socketVars

-----------------------------------------------------------------------------
\* One chain: the provider never has two connections, or a connection and a
\* timer that will open another (connect is reached from the effect, the catch
\* and every onclose, WebSocketProvider.tsx:45-93).
OneChain == reconnect + (IF readyState \in {"connecting", "open", "closing"} THEN 1 ELSE 0) <= 1

\* What the hub will have once the frames on the way are served is what the
\* page's callbacks listen to: no page is left without its topic by the
\* clean-up of the page before it, or by a reconnection.
FinallySubscribed(t) ==
    LET on == {i \in 1..Len(toServer) : toServer[i].topic = t}
    IN IF on = {} THEN t \in topics
       ELSE \E i \in on : toServer[i].action = "subscribe" /\ \A j \in on : j <= i
TopicsAgree == readyState = "open" => \A t \in Topics : FinallySubscribed(t) <=> t \in subscriptions

\* Redis, redis-py and the hub agree on what the connection is subscribed to,
\* up to the unsubscribe answers that the pump has not read.
ChannelsAgree ==
    /\ listening = topics
    /\ topics \subseteq channels
    /\ channels \ topics \subseteq unsubscribing
    /\ unsubscribing \cap topics = {}

\* The docstring of _pump, ws.py:83: "Relay Redis messages to the socket until
\* the connection closes."
RelayUntilClosed == Live /\ topics # {} => relay = "running"
=============================================================================
