----------------------------- MODULE LogStream ------------------------------
(* The container logs of a deployment (components/deployment/                  *)
(* DeploymentLogs.tsx): a fetch whose body is read in chunks, cut into frames  *)
(* and appended to the last MAX_LINES lines, with pause, resume, clear and     *)
(* follow.  The body is a sequence of tokens: NL is a newline, Comment the     *)
(* comment that opens every stream, and frame n the data token n twice, so     *)
(* that a chunk may end inside a frame, inside its payload or between the two  *)
(* newlines that end it.  MaxFrames bounds the frames of a stream, MaxStreams  *)
(* the streams and MaxChunk a chunk.                                           *)
EXTENDS Integers, Sequences, SequencesExt, Subsequences

CONSTANTS MaxLines, MaxFrames, MaxStreams, MaxChunk

ASSUME LogAssumption == {MaxLines, MaxFrames, MaxStreams, MaxChunk} \subseteq Nat \ {0}

VARIABLES
    shown,      \* the panel is mounted
    connState,  \* state: "connecting", "streaming", "paused", "closed", "error"
    lines,      \* the state of that name
    stream,     \* the request behind abortRef: "none", "asked", "reading", "over"
    streams,    \* how many have been started
    aborted,    \* requests that were aborted and whose rejection is still to come
    received,   \* the tokens read from the stream
    buffer,     \* its trailing partial frame
    before,     \* the lines there were when it started, or when they were cleared
    cleared     \* the frames that had come by then

VARIABLES
    follow,     \* the state of that name
    atEnd,      \* the view shows the last line
    scrolled    \* a scroll event is to come

logVars == <<shown, connState, lines, stream, streams, aborted, received, buffer, before,
             cleared, follow, atEnd, scrolled>>
reading == <<received, buffer, before, cleared>>
view == <<follow, atEnd, scrolled>>

NL == 0
Comment == -1

\* What the endpoint sends: a comment, then a frame per line of the container.
FrameOf(n) == <<n, n, NL, NL>>
Body == <<Comment, NL, NL>> \o [i \in 1..(4 * MaxFrames) |-> FrameOf(((i - 1) \div 4) + 1)[((i - 1) % 4) + 1]]

LogTypeOK ==
    /\ shown \in BOOLEAN
    /\ connState \in {"connecting", "streaming", "paused", "closed", "error"}
    /\ lines \in Seq(Seq(1..MaxFrames)) /\ Len(lines) <= MaxLines
    /\ stream \in {"none", "asked", "reading", "over"} /\ streams \in 0..MaxStreams
    /\ aborted \in 0..MaxStreams
    /\ IsPrefix(received, Body) /\ IsSuffix(buffer, received)
    /\ before \in Seq(Seq(1..MaxFrames)) /\ cleared \in 0..MaxFrames
    /\ follow \in BOOLEAN /\ atEnd \in BOOLEAN /\ scrolled \in BOOLEAN

\* buffer.split("\n\n"): the frames, and the partial one that is kept.
SplitFrames(tokens) ==
    LET split[k \in 0..Len(tokens)] ==
            IF k = 0 THEN [frames |-> <<>>, rest |-> <<>>]
            ELSE LET so == split[k - 1]
                 IN IF tokens[k] = NL /\ so.rest # <<>> /\ Last(so.rest) = NL
                    THEN [frames |-> Append(so.frames, Front(so.rest)), rest |-> <<>>]
                    ELSE [frames |-> so.frames, rest |-> Append(so.rest, tokens[k])]
    IN split[Len(tokens)]

\* The lines of the frames: a payload is read as JSON or passes as it is; what
\* does not begin with "data:" is skipped.
Payload(frame) == Kept(frame, {i \in DOMAIN frame : frame[i] \notin {NL, Comment}})
Incoming(frames) ==
    LET payloads == [i \in DOMAIN frames |-> Payload(frames[i])]
    IN Kept(payloads, {i \in DOMAIN frames : payloads[i] # <<>>})

KeepAll(s) == s     \* mutant

Keep(s) == IF Len(s) > MaxLines THEN SubSeq(s, Len(s) - MaxLines + 1, Len(s)) ELSE s

\* stop(): the controller that is in charge is aborted.
Pending == stream \in {"asked", "reading"}
Stop == aborted' = aborted + IF Pending THEN 1 ELSE 0

Start ==
    /\ Stop
    /\ stream' = "asked" /\ streams' = streams + 1 /\ connState' = "connecting"
    /\ received' = <<>> /\ buffer' = <<>> /\ before' = lines /\ cleared' = 0

LogInit ==
    /\ shown = TRUE /\ connState = "connecting" /\ lines = <<>>
    /\ stream = "asked" /\ streams = 1 /\ aborted = 0
    /\ received = <<>> /\ buffer = <<>> /\ before = <<>> /\ cleared = 0
    /\ follow = TRUE /\ atEnd = TRUE /\ scrolled = FALSE

-----------------------------------------------------------------------------
(* The request.                                                                *)

\* res.ok and a body; or neither.
Opened ==
    /\ stream = "asked"
    /\ stream' = "reading" /\ connState' = "streaming"
    /\ UNCHANGED <<shown, lines, streams, aborted, reading, view>>

Refused ==
    /\ stream = "asked"
    /\ stream' = "over" /\ connState' = "error"
    /\ UNCHANGED <<shown, lines, streams, aborted, reading, view>>

FollowEffectMissing(changed) == UNCHANGED <<atEnd, scrolled>>   \* mutant

\* The effect that follows the output runs when lines or follow have changed.
FollowEffect(changed) ==
    IF ~changed THEN UNCHANGED <<atEnd, scrolled>>
    ELSE IF follow' THEN atEnd' = TRUE /\ scrolled' = (scrolled \/ ~atEnd \/ lines' # lines)
    ELSE atEnd' = (atEnd /\ lines' = lines) /\ UNCHANGED scrolled

\* Mutant: the partial frame of the last chunk is dropped.
ReadChunkAlone(size) ==
    /\ stream = "reading"
    /\ size <= Len(Body) - Len(received)
    /\ LET chunk == SubSeq(Body, Len(received) + 1, Len(received) + size)
           split == SplitFrames(chunk)
       IN /\ received' = received \o chunk
          /\ buffer' = split.rest
          /\ lines' = Keep(lines \o Incoming(split.frames))
    /\ UNCHANGED follow /\ FollowEffect(lines' # lines)
    /\ UNCHANGED <<shown, connState, stream, streams, aborted, before, cleared>>

\* reader.read() hands over a chunk, wherever the network has cut it.
ReadChunk(size) ==
    /\ stream = "reading"
    /\ size <= Len(Body) - Len(received)
    /\ LET chunk == SubSeq(Body, Len(received) + 1, Len(received) + size)
           split == SplitFrames(buffer \o chunk)
       IN /\ received' = received \o chunk
          /\ buffer' = split.rest
          /\ lines' = Keep(lines \o Incoming(split.frames))
    /\ UNCHANGED follow /\ FollowEffect(lines' # lines)
    /\ UNCHANGED <<shown, connState, stream, streams, aborted, before, cleared>>

\* The body ends; or the connection breaks.
StreamEnds ==
    /\ stream = "reading"
    /\ stream' = "over" /\ connState' = "closed"
    /\ UNCHANGED <<shown, lines, streams, aborted, reading, view>>

StreamBreaks ==
    /\ Pending
    /\ stream' = "over" /\ connState' = "error"
    /\ UNCHANGED <<shown, lines, streams, aborted, reading, view>>

\* Mutant: an abort passes for an error.
AbortSeenAsError ==
    /\ aborted > 0
    /\ aborted' = aborted - 1 /\ connState' = "error"
    /\ UNCHANGED <<shown, lines, stream, streams, reading, view>>

\* The rejection of a request that was aborted: `controller.signal.aborted`.
AbortSeen ==
    /\ aborted > 0
    /\ aborted' = aborted - 1
    /\ UNCHANGED <<shown, connState, lines, stream, streams, reading, view>>

-----------------------------------------------------------------------------
(* The user.                                                                   *)

Pause ==
    /\ shown /\ connState # "paused"
    /\ Stop /\ stream' = "none" /\ connState' = "paused"
    /\ UNCHANGED <<shown, lines, streams, reading, view>>

Resume ==
    /\ shown /\ connState = "paused" /\ streams < MaxStreams
    /\ Start
    /\ UNCHANGED <<shown, lines, view>>

ClearLines ==
    /\ shown /\ lines # <<>>
    /\ lines' = <<>> /\ before' = <<>>
    /\ cleared' = Len(Incoming(SplitFrames(received).frames))
    /\ UNCHANGED follow /\ FollowEffect(TRUE)
    /\ UNCHANGED <<shown, connState, stream, streams, aborted, received, buffer>>

ToggleFollow ==
    /\ shown
    /\ follow' = ~follow /\ UNCHANGED lines /\ FollowEffect(TRUE)
    /\ UNCHANGED <<shown, connState, stream, streams, aborted, reading>>

\* The user scrolls; the event comes later and finds the view where it is then.
Scroll ==
    /\ shown
    /\ atEnd' \in BOOLEAN /\ scrolled' = TRUE
    /\ UNCHANGED <<shown, connState, lines, stream, streams, aborted, reading, follow>>

OnScroll ==
    /\ shown /\ scrolled
    /\ scrolled' = FALSE
    /\ follow' = (follow /\ atEnd)
    /\ UNCHANGED <<shown, connState, lines, stream, streams, aborted, reading, atEnd>>

\* The page is left: the effect's clean-up stops the stream.
UnmountLogs ==
    /\ shown
    /\ shown' = FALSE /\ Stop /\ stream' = "none"
    /\ UNCHANGED <<connState, lines, streams, reading, view>>

LogNext ==
    \/ Opened \/ Refused \/ StreamEnds \/ StreamBreaks \/ AbortSeen
    \/ \E size \in 1..MaxChunk : ReadChunk(size)
    \/ Pause \/ Resume \/ ClearLines \/ ToggleFollow \/ Scroll \/ OnScroll \/ UnmountLogs

LogSpec == LogInit /\ [][LogNext]_logVars

-----------------------------------------------------------------------------
\* The panel holds the last MAX_LINES of what it had and of every frame that has
\* come completely, none twice, none torn, wherever the chunks were cut.
Complete == IF Len(received) < 3 THEN 0 ELSE (Len(received) - 3) \div 4
LinesOfStream ==
    lines = Keep(before \o [i \in 1..(Complete - cleared) |-> <<cleared + i, cleared + i>>])

\* What the badge says is true of the request in charge: an earlier one that was
\* aborted by a pause, a resume or a new deployment does not speak for it.
BadgeTellsStream ==
    shown => CASE stream = "asked" -> connState = "connecting"
               [] stream = "reading" -> connState = "streaming"
               [] stream = "over" -> connState \in {"closed", "error"}
               [] stream = "none" -> connState = "paused"

\* Following means that the last line is in view, but for a scroll whose event is
\* still to come.
FollowsEnd == follow => atEnd \/ scrolled
=============================================================================
