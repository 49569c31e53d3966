---------------------------- MODULE LiveListProofs ----------------------------
(***************************************************************************)
(* Theorems about the socket, for every set of pages and of topics, and    *)
(* about the list that is shown over it.                                   *)
(*                                                                         *)
(* OneChain and ChannelsAgree are inductive.  TopicsAgree needs two facts  *)
(* more: the only subscription is that of the page shown, and a socket     *)
(* that is not open has left nothing behind, neither frames nor topics.    *)
(* What a queue of frames comes to is said by Ends, which the lemmas       *)
(* follow through a frame that is sent and a frame that is served.         *)
(*                                                                         *)
(* LiveList is the socket of LiveSocket with more state beside it, so what *)
(* is proved of the socket holds in it, and the list on the screen never   *)
(* goes back.  The latter needs that an answer that has been read but not  *)
(* shown is never older than what is shown: every later call drops the     *)
(* fetch or joins it, and none of them writes the cache.                   *)
(***************************************************************************)
EXTENDS LiveList, SequenceTheorems, FiniteSetTheorems, TLAPS

-----------------------------------------------------------------------------
(* The socket                                                                  *)

USE TopicsAssumption

Subscribed == subscriptions = IF page \in Pages THEN {TopicOf[page]} \ {NoTopic} ELSE {}

Quiet == readyState \notin {"open", "closing"} => topics = {} /\ toServer = <<>>

\* Is t subscribed when a hub that has the topics S has served the frames q?
Ends(q, S, t) ==
    \/ t \in S /\ \A i \in 1..Len(q) : q[i].topic # t
    \/ \E i \in 1..Len(q) : /\ q[i] = Subscribe(t)
                             /\ \A j \in 1..Len(q) : q[j].topic = t => j <= i

\* TopicsAgree, said with Ends.
Agree == readyState = "open" => \A t \in Topics : Ends(toServer, topics, t) <=> t \in subscriptions

IInv == TypeOK /\ Subscribed /\ Quiet /\ OneChain /\ Agree /\ ChannelsAgree

-----------------------------------------------------------------------------
(* Types *)

LEMMA FrameTypes ==
    ASSUME NEW t \in Topics
    PROVE  Subscribe(t) \in Frames /\ Unsubscribe(t) \in Frames
BY DEF Subscribe, Unsubscribe, Frames

LEMMA SubscribedFinite ==
    ASSUME TypeOK
    PROVE  Cardinality(subscriptions) \in Nat
BY FS_Subset, FS_CardinalityType DEF TypeOK

LEMMA EmptyTypes == <<>> \in Seq(Frames) /\ <<>> \in Seq(Topics) /\ <<>> \in Seq(Replies)
BY EmptySeq

LEMMA InitTypes == Init => TypeOK
<1> SUFFICES ASSUME Init PROVE TypeOK
    OBVIOUS
<1>1. toServer \in Seq(Frames) /\ toClient \in Seq(Topics) /\ replies \in Seq(Replies)
    BY EmptyTypes DEF Init, NoHub
<1>2. page \in Pages /\ subscriptions \subseteq Topics
    BY DEF Init
<1>3. reconnect \in Nat /\ readyState \in {"none", "connecting", "open", "closing", "closed"}
    BY DEF Init
<1>4. topics = {} /\ channels = {} /\ unsubscribing = {} /\ listening = {} /\ relay = "none"
    BY DEF Init, NoHub
<1>5. isConnected \in BOOLEAN /\ rerender \in BOOLEAN
    BY DEF Init
<1> QED BY <1>1, <1>2, <1>3, <1>4, <1>5 DEF TypeOK

LEMMA CommitTypes ==
    ASSUME TypeOK, NEW next \in Pages, Commit(next)
    PROVE  TypeOK'
<1> USE DEF Commit, TypeOK
<1>1. TopicOf[page] \in Topics \cup {NoTopic} /\ TopicOf[next] \in Topics \cup {NoTopic}
    OBVIOUS
<1>2. subscriptions' \subseteq Topics
    BY <1>1
<1>3. toServer' \in Seq(Frames)
    <2> DEFINE leaving == IF TopicOf[page] = NoTopic THEN <<>> ELSE <<Unsubscribe(TopicOf[page])>>
               coming == IF TopicOf[next] = NoTopic THEN <<>> ELSE <<Subscribe(TopicOf[next])>>
    <2>1. leaving \in Seq(Frames) /\ coming \in Seq(Frames)
        BY <1>1, FrameTypes
    <2>2. toServer \o leaving \o coming \in Seq(Frames)
        <3> HIDE DEF leaving, coming
        <3> QED BY <2>1, ConcatProperties
    <2> QED BY <2>2 DEF Send
<1> QED BY <1>2, <1>3 DEF hubVars

LEMMA OpenTypes ==
    ASSUME TypeOK, OnOpen
    PROVE  TypeOK'
<1> USE DEF OnOpen, TypeOK
<1> DEFINE n == Cardinality(subscriptions)
<1>1. PICK order \in [1..n -> subscriptions] : toServer' = [i \in DOMAIN order |-> Subscribe(order[i])]
    OBVIOUS
<1>2. n \in Nat /\ DOMAIN order = 1..n /\ \A i \in 1..n : order[i] \in Topics
    BY SubscribedFinite
<1> HIDE DEF n
<1>3. toServer' = [i \in 1..n |-> Subscribe(order[i])]
    BY <1>1, <1>2
<1>4. toServer' \in Seq(Frames)
    <2>1. \A i \in 1..n : Subscribe(order[i]) \in Frames
        BY <1>2, FrameTypes
    <2>2. [i \in 1..n |-> Subscribe(order[i])] \in Seq(Frames)
        BY <1>2, <2>1
    <2> QED BY <1>3, <2>2
<1> QED BY <1>4 DEF hubVars

LEMMA ServeTypes ==
    ASSUME TypeOK, NEW t \in Topics, ServeSubscribe(t) \/ ServeUnsubscribe(t)
    PROVE  TypeOK'
<1> USE DEF TypeOK
<1>1. Reply("subscribe", t) \in Replies /\ Reply("unsubscribe", t) \in Replies
    BY DEF Reply, Replies
<1>2. CASE ServeSubscribe(t)
    <2> USE <1>2 DEF ServeSubscribe
    <2>1. toServer' \in Seq(Frames)
        BY HeadTailProperties
    <2>2. replies' \in Seq(Replies)
        <3>1. Append(replies, Reply("subscribe", t)) \in Seq(Replies)
            BY <1>1, AppendProperties
        <3> QED BY <3>1 DEF hubVars
    <2> QED BY <2>1, <2>2 DEF hubVars, browserVars
<1>3. CASE ServeUnsubscribe(t)
    <2> USE <1>3 DEF ServeUnsubscribe
    <2>1. toServer' \in Seq(Frames)
        BY HeadTailProperties
    <2>2. replies' \in Seq(Replies)
        <3>1. Append(replies, Reply("unsubscribe", t)) \in Seq(Replies)
            BY <1>1, AppendProperties
        <3> QED BY <3>1 DEF hubVars
    <2> QED BY <2>1, <2>2 DEF hubVars, browserVars
<1> QED BY <1>2, <1>3

LEMMA PumpTypes ==
    ASSUME TypeOK, Pump
    PROVE  TypeOK'
<1> USE DEF TypeOK, Pump
<1>1. Head(replies) \in Replies /\ replies' \in Seq(Replies)
    BY HeadTailProperties
<1>2. Head(replies).topic \in Topics
    BY <1>1 DEF Replies
<1>3. toClient' \in Seq(Topics)
    BY <1>2, AppendProperties
<1> QED BY <1>1, <1>3 DEF browserVars

LEMMA MessageTypes ==
    ASSUME TypeOK, NEW t \in Topics, OnMessage(t) \/ Publish(t)
    PROVE  TypeOK'
<1> USE DEF TypeOK
<1>1. Reply("message", t) \in Replies
    BY DEF Reply, Replies
<1>2. CASE OnMessage(t)
    BY <1>2, HeadTailProperties DEF OnMessage, browserVars, hubVars
<1>3. CASE Publish(t)
    BY <1>1, <1>3, AppendProperties DEF Publish, browserVars
<1> QED BY <1>2, <1>3

LEMMA NextTypes == TypeOK /\ [Next]_socketVars => TypeOK'
<1> SUFFICES ASSUME TypeOK, [Next]_socketVars PROVE TypeOK'
    OBVIOUS
<1>1. ASSUME NEW next \in Pages, Commit(next) PROVE TypeOK'
    BY <1>1, CommitTypes
<1>2. CASE Unmount
    BY <1>2 DEF Unmount, TypeOK, hubVars
<1>3. CASE Connect
    BY <1>3 DEF Connect, TypeOK, hubVars
<1>4. CASE OnOpen
    BY <1>4, OpenTypes
<1>5. CASE OnError
    BY <1>5 DEF OnError, TypeOK, hubVars
<1>6. CASE OnClose
    <2> USE <1>6 DEF OnClose, HubGone
    <2>1. toServer' \in Seq(Frames) /\ toClient' \in Seq(Topics) /\ replies' \in Seq(Replies)
        BY EmptyTypes
    <2>2. reconnect' \in Nat
        BY DEF TypeOK
    <2>6. isConnected' \in BOOLEAN /\ rerender' \in BOOLEAN
        BY Zenon
    <2>3. page' \in Pages \cup {"none"} /\ subscriptions' \subseteq Topics
        BY DEF TypeOK
    <2>4. topics' = {} /\ channels' = {} /\ unsubscribing' = {} /\ listening' = {} /\ relay' = "none"
        OBVIOUS
    <2>5. readyState' = "closed"
        OBVIOUS
    <2> QED BY <2>1, <2>2, <2>3, <2>4, <2>5, <2>6 DEF TypeOK
<1>7. CASE Serve
    BY <1>7, ServeTypes DEF Serve
<1>8. CASE Pump
    BY <1>8, PumpTypes
<1>9. CASE PumpFails
    BY <1>9 DEF PumpFails, TypeOK, browserVars
<1>10. ASSUME NEW t \in Topics, OnMessage(t) \/ Publish(t) PROVE TypeOK'
    BY <1>10, MessageTypes
<1>11. CASE UNCHANGED socketVars
    BY <1>11 DEF socketVars, browserVars, hubVars, TypeOK
<1> QED BY <1>1, <1>2, <1>3, <1>4, <1>5, <1>6, <1>7, <1>8, <1>9, <1>10, <1>11 DEF Next, Connection

\* Every variable of the socket, its hub and their queues keeps its type.
THEOREM TypeCorrect == Spec => []TypeOK
BY InitTypes, NextTypes, PTL DEF Spec

-----------------------------------------------------------------------------
(* One connection, or one timer that will open it.                             *)

LEMMA ChainStep == TypeOK /\ OneChain /\ [Next]_socketVars => OneChain'
<1> SUFFICES ASSUME TypeOK, OneChain, [Next]_socketVars PROVE OneChain'
    OBVIOUS
<1> USE DEF OneChain
<1>0. reconnect \in Nat
    BY DEF TypeOK
<1>1. CASE UNCHANGED <<readyState, reconnect>>
    BY <1>0, <1>1
<1>2. CASE Unmount
    BY <1>0, <1>2 DEF Unmount
<1>3. CASE Connect
    BY <1>0, <1>3 DEF Connect
<1>4. CASE OnOpen
    BY <1>0, <1>4 DEF OnOpen
<1>5. CASE OnError
    BY <1>0, <1>5 DEF OnError
<1>6. CASE OnClose
    BY <1>0, <1>6 DEF OnClose
<1>7. Next => UNCHANGED <<readyState, reconnect>> \/ Unmount \/ Connect \/ OnOpen \/ OnError \/ OnClose
    BY DEF Next, Connection, Serve, Commit, OnMessage, Publish, ServeSubscribe, ServeUnsubscribe,
           Pump, PumpFails, browserVars
<1> QED BY <1>1, <1>2, <1>3, <1>4, <1>5, <1>6, <1>7 DEF socketVars, browserVars

-----------------------------------------------------------------------------
(* What the hub, redis-py and Redis hold.                                      *)

LEMMA ChannelsStep == ChannelsAgree /\ [Next]_socketVars => ChannelsAgree'
<1> SUFFICES ASSUME ChannelsAgree, [Next]_socketVars PROVE ChannelsAgree'
    OBVIOUS
<1> USE DEF ChannelsAgree
<1>1. CASE UNCHANGED <<topics, channels, unsubscribing, listening>>
    BY <1>1
<1>2. CASE OnClose
    BY <1>2 DEF OnClose, HubGone
<1>3. ASSUME NEW t \in Topics, ServeSubscribe(t) PROVE ChannelsAgree'
    BY <1>3 DEF ServeSubscribe, hubVars
<1>4. ASSUME NEW t \in Topics, ServeUnsubscribe(t) PROVE ChannelsAgree'
    BY <1>4 DEF ServeUnsubscribe, hubVars
<1>5. CASE Pump
    BY <1>5 DEF Pump
<1>6. Next => \/ UNCHANGED <<topics, channels, unsubscribing, listening>> \/ OnClose \/ Pump
              \/ \E t \in Topics : ServeSubscribe(t) \/ ServeUnsubscribe(t)
    BY DEF Next, Connection, Serve, Commit, Unmount, Connect, OnOpen, OnError, OnMessage, Publish,
           PumpFails, hubVars
<1> QED BY <1>1, <1>2, <1>3, <1>4, <1>5, <1>6 DEF socketVars, hubVars

-----------------------------------------------------------------------------
(* What the page listens to, and what the hub comes to.                        *)

LEMMA SubscribedStep == Subscribed /\ [Next]_socketVars => Subscribed'
<1> SUFFICES ASSUME Subscribed, [Next]_socketVars PROVE Subscribed'
    OBVIOUS
<1>1. CASE UNCHANGED <<page, subscriptions>>
    BY <1>1 DEF Subscribed
<1>2. ASSUME NEW next \in Pages, Commit(next) PROVE Subscribed'
    BY <1>2 DEF Commit, Subscribed
<1>3. CASE Unmount
    BY <1>3 DEF Unmount, Subscribed
<1>4. Next => \/ UNCHANGED <<page, subscriptions>> \/ Unmount \/ \E next \in Pages : Commit(next)
    BY DEF Next, Connection, Serve, Connect, OnOpen, OnError, OnClose, OnMessage, Publish,
           ServeSubscribe, ServeUnsubscribe, Pump, PumpFails, browserVars
<1> QED BY <1>1, <1>2, <1>3, <1>4 DEF socketVars, browserVars

LEMMA QuietStep == Quiet /\ [Next]_socketVars => Quiet'
<1> SUFFICES ASSUME Quiet, [Next]_socketVars PROVE Quiet'
    OBVIOUS
<1> USE DEF Quiet
<1>1. CASE UNCHANGED <<readyState, topics, toServer>>
    BY <1>1
<1>2. ASSUME NEW next \in Pages, Commit(next) PROVE Quiet'
    BY <1>2 DEF Commit, Send, hubVars
<1>3. CASE Unmount \/ Connect \/ OnOpen \/ OnError
    BY <1>3 DEF Unmount, Connect, OnOpen, OnError, hubVars
<1>4. CASE OnClose
    BY <1>4 DEF OnClose, HubGone
<1>5. ASSUME NEW t \in Topics, ServeSubscribe(t) \/ ServeUnsubscribe(t) PROVE Quiet'
    BY <1>5 DEF ServeSubscribe, ServeUnsubscribe, Live, browserVars
<1>6. Next => \/ UNCHANGED <<readyState, topics, toServer>>
              \/ \E next \in Pages : Commit(next)
              \/ Unmount \/ Connect \/ OnOpen \/ OnError \/ OnClose
              \/ \E t \in Topics : ServeSubscribe(t) \/ ServeUnsubscribe(t)
    BY DEF Next, Connection, Serve, OnMessage, Publish, Pump, PumpFails, browserVars, hubVars
<1> QED BY <1>1, <1>2, <1>3, <1>4, <1>5, <1>6 DEF socketVars, browserVars, hubVars

LEMMA EndsIs ==
    ASSUME NEW t \in Topics, TypeOK
    PROVE  FinallySubscribed(t) <=> Ends(toServer, topics, t)
<1>1. \A i \in 1..Len(toServer) : toServer[i] \in Frames
    BY DEF TypeOK
<1>2. \A f \in Frames : f = Subscribe(t) <=> f.topic = t /\ f.action = "subscribe"
    BY DEF Frames, Subscribe
<1> QED BY <1>1, <1>2 DEF FinallySubscribed, Ends

\* A frame that is sent has the last word on its topic.
LEMMA EndsAppend ==
    ASSUME NEW q \in Seq(Frames), NEW f \in Frames, NEW S, NEW t \in Topics
    PROVE  Ends(Append(q, f), S, t) <=> IF f.topic = t THEN f = Subscribe(t) ELSE Ends(q, S, t)
<1> DEFINE p == Append(q, f)
<1>1. /\ Len(q) \in Nat /\ Len(p) = Len(q) + 1 /\ p[Len(q) + 1] = f
      /\ \A i \in 1..Len(q) : p[i] = q[i]
    BY AppendProperties
<1> HIDE DEF p
<1>2. Subscribe(t).topic = t
    BY DEF Subscribe
<1>3. CASE f.topic = t
    <2>1. ASSUME Ends(p, S, t) PROVE f = Subscribe(t)
        <3>1. Len(p) \in 1..Len(p) /\ p[Len(p)].topic = t
            BY <1>1, <1>3
        <3>2. PICK i \in 1..Len(p) : p[i] = Subscribe(t) /\ \A j \in 1..Len(p) : p[j].topic = t => j <= i
            BY <2>1, <3>1 DEF Ends
        <3>3. i = Len(p)
            BY <1>1, <3>1, <3>2
        <3> QED BY <1>1, <3>2, <3>3
    <2>2. ASSUME f = Subscribe(t) PROVE Ends(p, S, t)
        <3>1. Len(q) + 1 \in 1..Len(p) /\ \A j \in 1..Len(p) : j <= Len(q) + 1
            BY <1>1
        <3> QED BY <1>1, <2>2, <3>1 DEF Ends
    <2> QED BY <1>3, <2>1, <2>2 DEF p
<1>4. CASE f.topic # t
    <2>1. \A i \in 1..Len(p) : p[i].topic = t => i \in 1..Len(q)
        BY <1>1, <1>4
    <2>2. 1..Len(q) \subseteq 1..Len(p)
        BY <1>1
    <2>3. ASSUME Ends(p, S, t) PROVE Ends(q, S, t)
        BY <1>1, <1>2, <2>1, <2>2, <2>3 DEF Ends
    <2>4. ASSUME Ends(q, S, t) PROVE Ends(p, S, t)
        BY <1>1, <1>2, <2>1, <2>2, <2>4 DEF Ends
    <2> QED BY <1>4, <2>3, <2>4 DEF p
<1> QED BY <1>3, <1>4

\* A frame that is served does to the topics what was still to come of it.
LEMMA EndsTail ==
    ASSUME NEW q \in Seq(Frames), q # <<>>, NEW S, NEW R, NEW t \in Topics,
           Head(q).topic # t => (t \in R <=> t \in S),
           Head(q).topic = t => (t \in R <=> Head(q) = Subscribe(t))
    PROVE  Ends(q, S, t) <=> Ends(Tail(q), R, t)
<1> DEFINE r == Tail(q)
<1>1. /\ Len(q) \in Nat \ {0} /\ Len(r) = Len(q) - 1 /\ Head(q) = q[1]
      /\ \A i \in 1..Len(r) : i + 1 \in 1..Len(q) /\ r[i] = q[i + 1]
    BY HeadTailProperties, EmptySeq
<1>2. \A i \in 1..Len(q) : i = 1 \/ (i - 1 \in 1..Len(r) /\ q[i] = r[i - 1])
    BY <1>1
<1> HIDE DEF r
<1>3. Subscribe(t).topic = t
    BY DEF Subscribe
<1>4. CASE \A i \in 1..Len(r) : r[i].topic # t
    <2>1. \A i \in 1..Len(q) : q[i].topic = t => i = 1
        BY <1>2, <1>4
    <2>2. Ends(r, R, t) <=> t \in R
        BY <1>3, <1>4 DEF Ends
    <2>3. CASE q[1].topic = t
        <3>1. Ends(q, S, t) <=> q[1] = Subscribe(t)
            BY <1>1, <1>3, <2>1, <2>3 DEF Ends
        <3> QED BY <1>1, <2>2, <2>3, <3>1 DEF r
    <2>4. CASE q[1].topic # t
        <3>1. Ends(q, S, t) <=> t \in S
            BY <1>1, <1>3, <2>1, <2>4 DEF Ends
        <3> QED BY <1>1, <2>2, <2>4, <3>1 DEF r
    <2> QED BY <2>3, <2>4
<1>5. CASE \E i \in 1..Len(r) : r[i].topic = t
    <2>1. PICK k \in 1..Len(r) : r[k].topic = t
        BY <1>5
    <2>2. k + 1 \in 1..Len(q) /\ q[k + 1].topic = t
        BY <1>1, <2>1
    <2>3. ASSUME Ends(q, S, t) PROVE Ends(r, R, t)
        <3>1. PICK i \in 1..Len(q) : q[i] = Subscribe(t) /\ \A j \in 1..Len(q) : q[j].topic = t => j <= i
            BY <2>2, <2>3 DEF Ends
        <3>2. i # 1
            BY <1>1, <2>1, <2>2, <3>1
        <3>3. i - 1 \in 1..Len(r) /\ r[i - 1] = Subscribe(t)
            BY <1>2, <3>1, <3>2
        <3>4. ASSUME NEW j \in 1..Len(r), r[j].topic = t PROVE j <= i - 1
            <4>1. j + 1 \in 1..Len(q) /\ q[j + 1].topic = t
                BY <1>1, <3>4
            <4> QED BY <3>1, <4>1
        <3> QED BY <3>3, <3>4 DEF Ends
    <2>4. ASSUME Ends(r, R, t) PROVE Ends(q, S, t)
        <3>1. PICK i \in 1..Len(r) : r[i] = Subscribe(t) /\ \A j \in 1..Len(r) : r[j].topic = t => j <= i
            BY <2>1, <2>4 DEF Ends
        <3>2. i + 1 \in 1..Len(q) /\ q[i + 1] = Subscribe(t)
            BY <1>1, <3>1
        <3>3. \A j \in 1..Len(q) : q[j].topic = t => j <= i + 1
            BY <1>1, <1>2, <3>1
        <3> QED BY <3>2, <3>3 DEF Ends
    <2> QED BY <2>3, <2>4 DEF r
<1> QED BY <1>4, <1>5

\* A commit says goodbye to the old topic and then subscribes to the new one.
LEMMA AgreeCommit ==
    ASSUME TypeOK, Subscribed, Agree, NEW next \in Pages, Commit(next)
    PROVE  Agree'
<1> SUFFICES ASSUME readyState = "open", NEW t \in Topics
             PROVE  Ends(toServer', topics, t) <=> t \in subscriptions'
    BY DEF Agree, Commit, hubVars
<1> DEFINE old == TopicOf[page]
           new == TopicOf[next]
           left == IF old = NoTopic THEN toServer ELSE Append(toServer, Unsubscribe(old))
           sent == IF new = NoTopic THEN left ELSE Append(left, Subscribe(new))
<1>1. page \in Pages /\ old \in Topics \cup {NoTopic} /\ new \in Topics \cup {NoTopic}
    BY DEF Commit, TypeOK
<1>2. toServer \in Seq(Frames)
    BY DEF TypeOK
<1>3. toServer' = sent
    <2>1. \A q \in Seq(Frames) : q \o <<>> = q
        BY ConcatEmptySeq
    <2>2. \A q \in Seq(Frames), f \in Frames : q \o <<f>> = Append(q, f)
        BY AppendIsConcat
    <2>3. toServer \o (IF old = NoTopic THEN <<>> ELSE <<Unsubscribe(old)>>) = left
        BY <1>1, <1>2, <2>1, <2>2, FrameTypes
    <2>4. left \in Seq(Frames)
        BY <1>1, <1>2, FrameTypes, AppendProperties
    <2>5. left \o (IF new = NoTopic THEN <<>> ELSE <<Subscribe(new)>>) = sent
        <3> HIDE DEF left
        <3> QED BY <1>1, <2>1, <2>2, <2>4, FrameTypes
    <2>6. toServer' = toServer \o (IF old = NoTopic THEN <<>> ELSE <<Unsubscribe(old)>>)
                               \o (IF new = NoTopic THEN <<>> ELSE <<Subscribe(new)>>)
        BY DEF Commit, Send
    <2> QED BY <2>3, <2>5, <2>6
<1>4. Ends(toServer, topics, t) <=> t \in {old} \ {NoTopic}
    BY <1>1 DEF Agree, Subscribed
<1>5. ~Ends(left, topics, t) /\ left \in Seq(Frames)
    <2>1. CASE old = NoTopic
        BY <1>2, <1>4, <2>1
    <2>2. CASE old # NoTopic
        <3>1. Unsubscribe(old) \in Frames /\ Unsubscribe(old).topic = old
            BY <1>1, <2>2, FrameTypes DEF Unsubscribe
        <3>2. Unsubscribe(old) # Subscribe(t)
            BY DEF Unsubscribe, Subscribe
        <3>3. ~Ends(Append(toServer, Unsubscribe(old)), topics, t)
            BY <1>2, <1>4, <2>2, <3>1, <3>2, EndsAppend
        <3> QED BY <1>2, <2>2, <3>1, <3>3, AppendProperties
    <2> QED BY <2>1, <2>2
<1>6. Ends(sent, topics, t) <=> t \in {new} \ {NoTopic}
    <2> HIDE DEF left
    <2>1. CASE new = NoTopic
        BY <1>5, <2>1
    <2>2. CASE new # NoTopic
        <3>1. Subscribe(new) \in Frames /\ Subscribe(new).topic = new
            BY <1>1, <2>2, FrameTypes DEF Subscribe
        <3>2. Subscribe(new) = Subscribe(t) <=> new = t
            BY DEF Subscribe
        <3>3. Ends(Append(left, Subscribe(new)), topics, t) <=> new = t
            BY <1>5, <3>1, <3>2, EndsAppend
        <3> QED BY <2>2, <3>3
    <2> QED BY <2>1, <2>2
<1>7. t \in subscriptions' <=> t \in {new} \ {NoTopic}
    BY <1>1 DEF Commit, Subscribed
<1> QED BY <1>3, <1>6, <1>7

\* A socket that opens subscribes to the topic of the page, of which there is
\* at most one.
LEMMA AgreeOpen ==
    ASSUME TypeOK, Subscribed, Quiet, OnOpen
    PROVE  Agree'
<1> SUFFICES ASSUME NEW t \in Topics
             PROVE  Ends(toServer', {}, t) <=> t \in subscriptions
    BY DEF Agree, OnOpen, Quiet, hubVars
<1> DEFINE n == Cardinality(subscriptions)
<1>1. PICK order \in [1..n -> subscriptions] :
         /\ \A s \in subscriptions : \E i \in DOMAIN order : order[i] = s
         /\ toServer' = [i \in DOMAIN order |-> Subscribe(order[i])]
    BY DEF OnOpen
<1>2. n \in Nat
    BY SubscribedFinite
<1>3. subscriptions = {} \/ \E s \in Topics : subscriptions = {s}
    BY DEF Subscribed, TypeOK
<1>4. n \in {0, 1}
    BY <1>3, FS_EmptySet, FS_Singleton
<1> HIDE DEF n
<1>5. toServer' = [i \in 1..n |-> Subscribe(order[i])] /\ Len(toServer') = n
    BY <1>1, <1>2
<1>6. \A s : Subscribe(s).topic = s /\ (Subscribe(s) = Subscribe(t) <=> s = t)
    BY DEF Subscribe
<1>7. \A i \in 1..n : toServer'[i] = Subscribe(order[i])
    BY <1>5
<1>8. ASSUME Ends(toServer', {}, t) PROVE t \in subscriptions
    BY <1>1, <1>5, <1>6, <1>7, <1>8 DEF Ends
<1>9. ASSUME t \in subscriptions PROVE Ends(toServer', {}, t)
    <2>1. PICK i \in 1..n : order[i] = t
        BY <1>1, <1>9
    <2>2. i = 1 /\ n = 1
        BY <1>4, <2>1
    <2>3. toServer'[1] = Subscribe(t) /\ \A j \in 1..Len(toServer') : j <= 1
        BY <1>5, <1>7, <2>1, <2>2
    <2> QED BY <1>5, <2>2, <2>3 DEF Ends
<1> QED BY <1>8, <1>9

\* The hub does what the frame says: its topics never reach the limit.
LEMMA AgreeServe ==
    ASSUME TypeOK, Agree, NEW s \in Topics, ServeSubscribe(s) \/ ServeUnsubscribe(s)
    PROVE  Agree'
<1> SUFFICES ASSUME readyState = "open", NEW t \in Topics
             PROVE  Ends(toServer', topics', t) <=> t \in subscriptions
    BY DEF Agree, ServeSubscribe, ServeUnsubscribe, browserVars
<1>1. toServer \in Seq(Frames) /\ toServer # <<>> /\ toServer' = Tail(toServer)
    BY DEF TypeOK, ServeSubscribe, ServeUnsubscribe
<1>2. Ends(toServer, topics, t) <=> t \in subscriptions
    BY DEF Agree
<1>3. CASE ServeSubscribe(s)
    <2>1. Head(toServer) = Subscribe(s) /\ Subscribe(s).topic = s
        BY <1>3 DEF ServeSubscribe, Subscribe
    <2>2. topics' = topics \cup {s}
        <3>1. CASE s \in topics
            BY <1>3, <3>1 DEF ServeSubscribe, hubVars
        <3>2. CASE s \notin topics
            <4>1. topics \subseteq Topics /\ topics # Topics
                BY <3>2 DEF TypeOK
            <4>2. /\ IsFiniteSet(topics) /\ Cardinality(topics) <= Cardinality(Topics)
                  /\ Cardinality(topics) # Cardinality(Topics)
                BY <4>1, FS_Subset
            <4>3. Cardinality(topics) \in Nat /\ Cardinality(Topics) \in Nat
                BY <4>2, FS_CardinalityType
            <4>4. ~(Cardinality(topics) >= MaxTopics)
                BY <4>2, <4>3
            <4> QED BY <1>3, <3>2, <4>4 DEF ServeSubscribe
        <3> QED BY <3>1, <3>2
    <2>3. Subscribe(s) = Subscribe(t) <=> s = t
        BY DEF Subscribe
    <2> QED BY <1>1, <1>2, <2>1, <2>2, <2>3, EndsTail
<1>4. CASE ServeUnsubscribe(s)
    <2>1. Head(toServer) = Unsubscribe(s) /\ Unsubscribe(s).topic = s /\ Unsubscribe(s) # Subscribe(t)
        BY <1>4 DEF ServeUnsubscribe, Unsubscribe, Subscribe
    <2>2. topics' = topics \ {s}
        BY <1>4 DEF ServeUnsubscribe, hubVars
    <2> QED BY <1>1, <1>2, <2>1, <2>2, EndsTail
<1> QED BY <1>3, <1>4

LEMMA AgreeStep ==
    ASSUME TypeOK, Subscribed, Quiet, Agree, [Next]_socketVars
    PROVE  Agree'
<1>1. CASE UNCHANGED <<readyState, topics, toServer, subscriptions>>
    BY <1>1 DEF Agree
<1>2. ASSUME NEW next \in Pages, Commit(next) PROVE Agree'
    BY <1>2, AgreeCommit
<1>3. CASE OnOpen
    BY <1>3, AgreeOpen
<1>4. ASSUME NEW t \in Topics, ServeSubscribe(t) \/ ServeUnsubscribe(t) PROVE Agree'
    BY <1>4, AgreeServe
<1>5. CASE readyState' # "open"
    BY <1>5 DEF Agree
<1>6. Next => \/ UNCHANGED <<readyState, topics, toServer, subscriptions>>
              \/ \E next \in Pages : Commit(next)
              \/ OnOpen
              \/ \E t \in Topics : ServeSubscribe(t) \/ ServeUnsubscribe(t)
              \/ readyState' # "open"
    BY DEF Next, Connection, Serve, Unmount, Connect, OnError, OnClose, OnMessage, Publish, Pump,
           PumpFails, browserVars, hubVars
<1> QED BY <1>1, <1>2, <1>3, <1>4, <1>5, <1>6 DEF socketVars, browserVars, hubVars

-----------------------------------------------------------------------------
(* The theorems                                                                *)

LEMMA InitIInv == Init => IInv
<1> SUFFICES ASSUME Init PROVE IInv
    OBVIOUS
<1>1. TypeOK
    BY InitTypes
<1>2. page \in Pages /\ Subscribed /\ Quiet
    BY DEF Init, NoHub, Subscribed, Quiet
<1>3. OneChain /\ Agree
    BY DEF Init, OneChain, Agree
<1>4. ChannelsAgree
    BY DEF Init, NoHub, ChannelsAgree
<1> QED BY <1>1, <1>2, <1>3, <1>4 DEF IInv

LEMMA StepIInv == IInv /\ [Next]_socketVars => IInv'
BY NextTypes, SubscribedStep, QuietStep, ChainStep, AgreeStep, ChannelsStep DEF IInv

LEMMA AgreeIsTopicsAgree == IInv => TopicsAgree
BY EndsIs DEF IInv, Agree, TopicsAgree

\* The inductive invariant holds in every state of the socket and its hub.
THEOREM Invariant == Spec => []IInv
BY InitIInv, StepIInv, PTL DEF Spec

\* The provider never has two connections, nor a connection and a timer that
\* will open another, however it is mounted, opened, closed and timed
\* (WebSocketProvider.tsx:45-93).
THEOREM OneChainCorrect == Spec => []OneChain
<1>1. IInv => OneChain
    BY DEF IInv
<1> QED BY <1>1, Invariant, PTL

\* On an open socket, what the hub will have once it has served the frames on
\* the way is what the page listens to, for every set of pages and topics that
\* fits the hub's limit.
THEOREM TopicsAgreeCorrect == Spec => []TopicsAgree
BY AgreeIsTopicsAgree, Invariant, PTL

\* Redis, redis-py and the hub never disagree on the subscriptions of a
\* connection, up to unsubscribe answers that the pump has yet to read.
THEOREM ChannelsAgreeCorrect == Spec => []ChannelsAgree
<1>1. IInv => ChannelsAgree
    BY DEF IInv
<1> QED BY <1>1, Invariant, PTL

-----------------------------------------------------------------------------
(* The list                                                                    *)

USE FeedAssumption

Versions ==
    /\ worker = "announced" => row < MaxVersion
    /\ shown <= row /\ owed <= row
    /\ fetch.stage = "answered" => shown <= fetch.got /\ 0 <= fetch.got /\ fetch.got <= row

ListIInv == ListTypeOK /\ Versions

FetchType == [stage : {"idle", "asked", "answered", "waiting"}, got : {Nothing} \cup 0..MaxVersion, tries : 0..1]
ActionType == [stage : {"idle", "sent", "accepted"}, got : {Nothing} \cup 0..MaxVersion]

-----------------------------------------------------------------------------
(* The socket in the list                                                      *)

LEMMA ListNextSocket == [ListNext]_vars => [Next]_socketVars
<1> SUFFICES ASSUME [ListNext]_vars PROVE [Next]_socketVars
    OBVIOUS
<1>1. ASSUME NEW next \in Pages, CommitPage(next) PROVE Next
    BY <1>1 DEF CommitPage, Next
<1>2. CASE OnSocket
    BY <1>2 DEF OnSocket, Next
<1>3. CASE Deliver \/ WorkerAnnounces \/ PollAnnounces
    BY <1>3 DEF Deliver, WorkerAnnounces, PollAnnounces, Next
<1>4. CASE UNCHANGED vars
    BY <1>4 DEF vars
<1>5. ListNext => \/ \E next \in Pages : CommitPage(next)
                  \/ OnSocket \/ Deliver \/ WorkerAnnounces \/ PollAnnounces
                  \/ UNCHANGED socketVars
    BY DEF ListNext, Answer, Settle, Retry, Fail, Act, Accept, ActionDone, ActionFails,
           WorkerCommits, PollCommits, AnnouncementLost
<1> QED BY <1>1, <1>2, <1>3, <1>4, <1>5

\* Everything the list does, the socket may do or does not see: the list is an
\* implementation of LiveSocket's specification.
THEOREM ListImplementsSocket == ListSpec => Spec
<1>1. ListInit => Init
    BY DEF ListInit
<1> QED BY <1>1, ListNextSocket, PTL DEF ListSpec, Spec

\* So under the list too there is one connection or one timer, and the hub,
\* Redis and the page agree on the topics.
THEOREM SocketInList == ListSpec => [](OneChain /\ TopicsAgree /\ ChannelsAgree)
BY ListImplementsSocket, OneChainCorrect, TopicsAgreeCorrect, ChannelsAgreeCorrect, PTL

-----------------------------------------------------------------------------
(* Versions                                                                    *)

LEMMA ListInitIInv == ListInit => ListIInv
<1> SUFFICES ASSUME ListInit PROVE ListIInv
    OBVIOUS
<1>1. TypeOK
    BY InitTypes DEF ListInit
<1>2. fetch \in FetchType /\ action \in ActionType /\ fetch.stage # "answered"
    BY DEF ListInit, FetchType, ActionType, Asked, Idle, NoAction, Nothing
<1>3. row = 0 /\ worker = "idle" /\ owed = 0 /\ shown = -1 /\ actions = 0
    BY DEF ListInit, Nothing
<1>4. invalid \in BOOLEAN /\ failed \in BOOLEAN
    BY DEF ListInit
<1> QED BY <1>1, <1>2, <1>3, <1>4 DEF ListIInv, ListTypeOK, Versions, FetchType, ActionType, Nothing

\* What a call that invalidates the query may do to it.
LEMMA InvalidateKeeps ==
    ASSUME ListIInv, Invalidate, UNCHANGED <<row, worker>>
    PROVE  /\ owed' \in 0..MaxVersion /\ invalid' \in BOOLEAN /\ failed' \in BOOLEAN
           /\ shown' \in {Nothing} \cup 0..MaxVersion /\ fetch' \in FetchType /\ Versions'
<1>1. /\ row \in 0..MaxVersion /\ owed \in 0..MaxVersion /\ fetch \in FetchType
      /\ shown \in {Nothing} \cup 0..MaxVersion /\ failed \in BOOLEAN /\ Versions
    BY DEF ListIInv, ListTypeOK, FetchType
<1>2. Asked(0) \in FetchType /\ Asked(0).stage # "answered"
    BY DEF Asked, FetchType, Nothing
<1>3. (owed' = owed \/ owed' = row) /\ (fetch' = fetch \/ fetch' = Asked(0))
    BY DEF Invalidate
<1>4. invalid' = TRUE /\ shown' = shown /\ failed' = failed
    BY DEF Invalidate
<1>5. owed' \in 0..MaxVersion /\ owed' <= row
    BY <1>1, <1>3 DEF Versions
<1>6. fetch' \in FetchType
    BY <1>1, <1>2, <1>3
<1>7. fetch'.stage = "answered" => shown <= fetch'.got /\ 0 <= fetch'.got /\ fetch'.got <= row
    BY <1>1, <1>2, <1>3 DEF Versions
<1>8. Versions'
    BY <1>1, <1>4, <1>5, <1>7 DEF Versions
<1> QED BY <1>1, <1>4, <1>5, <1>6, <1>8

\* The steps of the query itself.
LEMMA FetchStep ==
    ASSUME ListIInv, Answer \/ Settle \/ Retry \/ (\E status \in {"server", "client"} : Fail(status))
    PROVE  /\ invalid' \in BOOLEAN /\ failed' \in BOOLEAN
           /\ shown' \in {Nothing} \cup 0..MaxVersion /\ fetch' \in FetchType /\ Versions'
<1>1. /\ row \in 0..MaxVersion /\ fetch \in FetchType /\ shown \in {Nothing} \cup 0..MaxVersion
      /\ invalid \in BOOLEAN /\ failed \in BOOLEAN /\ Versions /\ shown <= row
    BY DEF ListIInv, ListTypeOK, FetchType, Versions
<1>2. Idle \in FetchType /\ Idle.stage # "answered"
    BY DEF Idle, FetchType, Nothing
<1>3. CASE Answer
    <2>1. fetch' \in FetchType /\ fetch'.got = row
        BY <1>1, <1>3 DEF Answer, FetchType
    <2> QED BY <1>1, <1>3, <2>1 DEF Answer, Versions
<1>4. CASE Settle
    <2>1. shown' = fetch.got /\ fetch' = Idle /\ 0 <= fetch.got /\ fetch.got <= row
        BY <1>1, <1>4 DEF Settle, Versions
    <2>2. shown' \in {Nothing} \cup 0..MaxVersion
        BY <1>1, <2>1 DEF FetchType
    <2>3. Versions'
        BY <1>1, <1>2, <1>4, <2>1 DEF Settle, Versions
    <2> QED BY <1>2, <1>4, <2>1, <2>2, <2>3 DEF Settle
<1>5. CASE Retry
    <2>1. fetch' \in FetchType /\ fetch'.stage # "answered"
        BY <1>1, <1>5 DEF Retry, Asked, FetchType, Nothing
    <2> QED BY <1>1, <1>5, <2>1 DEF Retry, Versions
<1>6. ASSUME NEW status \in {"server", "client"}, Fail(status)
      PROVE  /\ invalid' \in BOOLEAN /\ failed' \in BOOLEAN
             /\ shown' \in {Nothing} \cup 0..MaxVersion /\ fetch' \in FetchType /\ Versions'
    <2>1. fetch' \in FetchType /\ fetch'.stage # "answered"
        BY <1>2, <1>6 DEF Fail, FetchType, Nothing
    <2>2. failed' \in BOOLEAN
        BY <1>1, <1>6 DEF Fail
    <2> QED BY <1>1, <1>6, <2>1, <2>2 DEF Fail, Versions
<1> QED BY <1>3, <1>4, <1>5, <1>6

LEMMA ActionSteps ==
    ASSUME ListIInv, Act \/ Accept \/ ActionDone \/ ActionFails
    PROVE  action' \in ActionType /\ actions' \in 0..MaxActions
<1>1. action \in ActionType /\ actions \in 0..MaxActions /\ row \in 0..MaxVersion
    BY DEF ListIInv, ListTypeOK, ActionType
<1>2. NoAction \in ActionType
    BY DEF NoAction, ActionType, Nothing
<1>3. CASE Act
    BY <1>1, <1>2, <1>3 DEF Act, ActionType
<1>4. CASE Accept
    BY <1>1, <1>4 DEF Accept, ActionType
<1>5. CASE ActionDone \/ ActionFails
    BY <1>1, <1>2, <1>5 DEF ActionDone, ActionFails
<1> QED BY <1>3, <1>4, <1>5

LEMMA ListStepIInv == ListIInv /\ [ListNext]_vars => ListIInv'
<1> SUFFICES ASSUME ListIInv, [ListNext]_vars PROVE ListIInv'
    OBVIOUS
<1>0. TypeOK'
    BY ListNextSocket, NextTypes DEF ListIInv, ListTypeOK
<1>1. /\ row \in 0..MaxVersion /\ worker \in {"idle", "committed", "announced"}
      /\ shown \in {Nothing} \cup 0..MaxVersion /\ owed \in 0..MaxVersion
      /\ invalid \in BOOLEAN /\ failed \in BOOLEAN
      /\ fetch \in FetchType /\ action \in ActionType /\ actions \in 0..MaxActions
      /\ Versions
    BY DEF ListIInv, ListTypeOK, FetchType, ActionType
<1> SUFFICES /\ row' \in 0..MaxVersion /\ worker' \in {"idle", "committed", "announced"}
             /\ shown' \in {Nothing} \cup 0..MaxVersion /\ owed' \in 0..MaxVersion
             /\ invalid' \in BOOLEAN /\ failed' \in BOOLEAN
             /\ fetch' \in FetchType /\ action' \in ActionType /\ actions' \in 0..MaxActions
             /\ Versions'
    BY <1>0 DEF ListIInv, ListTypeOK, FetchType, ActionType
<1>2. CASE UNCHANGED listVars
    BY <1>1, <1>2 DEF listVars, Versions
<1>3. ASSUME NEW next \in Pages, CommitPage(next)
      PROVE  /\ UNCHANGED <<row, worker, shown, invalid, failed, owed, action, actions>>
             /\ fetch' = fetch \/ fetch' = Asked(0)
    BY <1>3 DEF CommitPage, Mount, queryVars
<1>4. ASSUME NEW next \in Pages, CommitPage(next)
      PROVE  fetch' \in FetchType /\ Versions'
    <2>1. Asked(0) \in FetchType /\ Asked(0).stage # "answered"
        BY DEF Asked, FetchType, Nothing
    <2> QED BY <1>1, <1>3, <1>4, <2>1 DEF Versions
<1>5. CASE Deliver
    <2>1. CASE Invalidate
        BY <1>1, <1>5, <2>1, InvalidateKeeps DEF Deliver
    <2>2. CASE UNCHANGED queryVars
        BY <1>1, <1>5, <2>2 DEF Deliver, queryVars, Versions
    <2> QED BY <1>5, <2>1, <2>2 DEF Deliver
<1>6. CASE Answer \/ Settle \/ Retry \/ (\E status \in {"server", "client"} : Fail(status))
    <2>1. UNCHANGED <<row, worker, action, actions, owed>>
        BY <1>6 DEF Answer, Settle, Retry, Fail
    <2> QED BY <1>1, <1>6, <2>1, FetchStep
<1>7. CASE Act \/ Accept \/ ActionDone \/ ActionFails
    <2>1. CASE ActionDone
        BY <1>1, <1>7, <2>1, ActionSteps, InvalidateKeeps DEF ActionDone
    <2>2. CASE Act \/ Accept \/ ActionFails
        <3>1. UNCHANGED <<row, worker, shown, invalid, failed, fetch, owed>>
            BY <2>2 DEF Act, Accept, ActionFails, queryVars
        <3> QED BY <1>1, <1>7, <3>1, ActionSteps DEF Versions
    <2> QED BY <1>7, <2>1, <2>2
<1>8. CASE WorkerCommits \/ WorkerAnnounces \/ PollAnnounces \/ PollCommits \/ AnnouncementLost
    <2>1. UNCHANGED <<shown, invalid, failed, fetch, owed, action, actions>>
        BY <1>8 DEF WorkerCommits, WorkerAnnounces, PollAnnounces, PollCommits, AnnouncementLost, queryVars
    <2>2. row' \in 0..MaxVersion /\ row <= row' /\ worker' \in {"idle", "committed", "announced"}
        BY <1>1, <1>8 DEF WorkerCommits, WorkerAnnounces, PollAnnounces, PollCommits, AnnouncementLost, Versions
    <2>3. worker' = "announced" => row' < MaxVersion
        BY <1>1, <1>8 DEF WorkerCommits, WorkerAnnounces, PollAnnounces, PollCommits, AnnouncementLost, Versions
    <2>4. shown \in Int /\ owed \in Int /\ fetch.got \in Int /\ row \in Int /\ row' \in Int
        BY <1>1, <2>2 DEF FetchType, Nothing
    <2>5. Versions'
        BY <1>1, <2>1, <2>2, <2>3, <2>4 DEF Versions
    <2> QED BY <1>1, <2>1, <2>2, <2>5
<1>9. ListNext => \/ UNCHANGED listVars
                  \/ \E next \in Pages : CommitPage(next)
                  \/ Deliver
                  \/ Answer \/ Settle \/ Retry \/ (\E status \in {"server", "client"} : Fail(status))
                  \/ Act \/ Accept \/ ActionDone \/ ActionFails
                  \/ WorkerCommits \/ WorkerAnnounces \/ PollAnnounces \/ PollCommits \/ AnnouncementLost
    BY DEF ListNext, OnSocket
<1> QED BY <1>1, <1>2, <1>3, <1>4, <1>5, <1>6, <1>7, <1>8, <1>9 DEF vars

-----------------------------------------------------------------------------
(* The theorems                                                                *)

\* An answer that waits to be shown is never older than what is shown, and
\* nothing is newer than the database.
THEOREM ListInvariant == ListSpec => []ListIInv
BY ListInitIInv, ListStepIInv, PTL DEF ListSpec

LEMMA StepForward == ListIInv /\ [ListNext]_vars => [shown # Nothing => shown' >= shown]_vars
<1> SUFFICES ASSUME ListIInv, ListNext, shown # Nothing PROVE shown' >= shown
    OBVIOUS
<1>1. shown \in Int
    BY DEF ListIInv, ListTypeOK, Nothing
<1>2. CASE Settle
    <2>1. shown <= fetch.got /\ shown' = fetch.got /\ fetch.got \in Int
        BY <1>2 DEF Settle, ListIInv, ListTypeOK, Versions, Nothing
    <2> QED BY <1>1, <2>1
<1>3. CASE shown' = shown
    BY <1>1, <1>3
<1>4. ListNext => Settle \/ shown' = shown
    BY DEF ListNext, CommitPage, Mount, OnSocket, Deliver, Invalidate, Answer, Retry, Fail, Act, Accept,
           ActionDone, ActionFails, WorkerCommits, WorkerAnnounces, PollAnnounces, PollCommits,
           AnnouncementLost, queryVars, listVars
<1> QED BY <1>2, <1>3, <1>4

\* The list on the screen never goes back to an older state of the deployments,
\* whatever announcements, actions, failures and page changes come in between.
THEOREM NoStepBackCorrect == ListSpec => NoStepBack
BY ListInvariant, StepForward, PTL DEF ListSpec, NoStepBack
=============================================================================
