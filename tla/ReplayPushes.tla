---------------------------- MODULE ReplayPushes ----------------------------
(***************************************************************************)
(* The catch-up buffer at work: the events of a session are numbered and   *)
(* pushed, and a turn that opens or reaches the transcript clears it.      *)
(***************************************************************************)
EXTENDS ReplayBuffer

CONSTANTS
    Turns,
    Kinds,      \* the kinds of event, "text_delta" among them
    MaxText,    \* bound: the longest text of one event
    MaxPushes   \* bound: events pushed in a behaviour

ASSUME PushesBounds ==
    /\ "text_delta" \in Kinds
    /\ MaxText \in Nat
    /\ MaxPushes \in Nat

\* JSON writes a text with no character escaped or with all of them; the other
\* kinds come small and large.
Events ==
    {[kind |-> "text_delta", text |-> n, escaped |-> w * n] :
        n \in 0 .. MaxText, w \in {1, 2}}
    \cup
    {[kind |-> k, text |-> 0, escaped |-> n] :
        k \in Kinds \ {"text_delta"}, n \in {0, 2 * MaxText}}

VARIABLES
    buffer,
    number,     \* the last one assigned
    pushed      \* what was pushed since the buffer was last cleared

pushes == <<buffer, number, pushed>>

PushesInit ==
    /\ buffer = Empty
    /\ number = 0
    /\ pushed = <<>>

PushEvent(turn, event) ==
    /\ number < MaxPushes
    /\ number' = number + 1
    /\ buffer' = Push(buffer, number', turn, event)
    /\ pushed' = Append(pushed, [seq |-> number', turn |-> turn, event |-> event])

\* Mutant: the mark of a dropped frame outlives the turn.
ClearKeepsMark ==
    /\ buffer' = [Empty EXCEPT !.truncated = buffer.truncated]
    /\ pushed' = <<>>
    /\ UNCHANGED number

Clear ==
    /\ buffer' = Empty
    /\ pushed' = <<>>
    /\ UNCHANGED number

PushesNext ==
    \/ \E turn \in Turns, event \in Events : PushEvent(turn, event)
    \/ Clear

PushesSpec == PushesInit /\ [][PushesNext]_pushes

-----------------------------------------------------------------------------
(* Properties *)

PushesTypeOK ==
    /\ number \in 0 .. MaxPushes
    /\ buffer.bytes \in Nat
    /\ buffer.truncated \in BOOLEAN
    /\ \A i \in DOMAIN buffer.frames :
        /\ buffer.frames[i].turn \in Turns
        /\ buffer.frames[i].event.kind \in Kinds

\* The text pushed under the numbers a frame carries.
Carried(frame) == {i \in DOMAIN pushed : pushed[i].seq \in frame.from .. frame.seq}

TextOf(frame) ==
    Total([i \in DOMAIN pushed |->
              IF i \in Carried(frame) THEN pushed[i].event.text ELSE 0])

\* A snapshot is the end of the turn with nothing missing or told twice: its
\* frames account for consecutive numbers up to the last one assigned, each
\* with all the text pushed under the numbers it carries and only events of
\* its own turn. A client that draws it and goes on from seq loses nothing.
SnapshotHasNoHole ==
    LET frames == buffer.frames
    IN  /\ frames # <<>> => Last(frames).seq = number
        /\ \A i \in 1 .. Len(frames) - 1 : frames[i + 1].from = frames[i].seq + 1
        /\ \A i \in DOMAIN frames :
            /\ TextOf(frames[i]) = frames[i].event.text
            /\ \A k \in Carried(frames[i]) :
                /\ pushed[k].turn = frames[i].turn
                /\ pushed[k].event.kind = frames[i].event.kind

\* truncated says exactly whether the snapshot lacks something pushed since the
\* buffer was cleared: a hole is never silent and never announced in vain.
HolesAreReported ==
    buffer.truncated <=> Covers(buffer.frames) # {entry.seq : entry \in ToSet(pushed)}

\* The running count never exceeds what the frames weigh: the buffer never
\* drops a frame while it is really within its ceiling, and the number of
\* frames stays under its own.
NothingDroppedInVain ==
    /\ buffer.bytes <= WireSum(buffer.frames)
    /\ Len(buffer.frames) <= MaxFrames

\* replay.rs: MAX_BYTES is "the byte ceiling over" the frames kept.
UnderTheByteCeiling == WireSum(buffer.frames) <= MaxBytes
=============================================================================
