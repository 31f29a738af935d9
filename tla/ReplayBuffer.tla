---------------------------- MODULE ReplayBuffer ----------------------------
(***************************************************************************)
(* The catch-up buffer of one session as a value: Buffer in                *)
(* crates/hub/src/replay.rs.                                               *)
(*                                                                         *)
(* An event is its kind and two lengths: that of its text, and that of the *)
(* text as JSON writes it, which is longer where a character is escaped.   *)
(* Everything else of its JSON form has the fixed length Overhead.  A frame *)
(* also carries the number of the first event merged into it, which the    *)
(* code does not keep and only the properties read.                        *)
(***************************************************************************)
EXTENDS SequencesExt, Integers

CONSTANTS
    MaxFrames,      \* MAX_FRAMES
    MaxBytes,       \* MAX_BYTES
    CoalesceBytes,  \* COALESCE_BYTES
    Overhead        \* length of an event's JSON form without its text

ASSUME BufferBounds ==
    /\ MaxFrames \in Nat \ {0}
    /\ MaxBytes \in Nat \ {0}
    /\ CoalesceBytes \in Nat
    /\ Overhead \in Nat \ {0}

Empty == [frames |-> <<>>, bytes |-> 0, truncated |-> FALSE]

\* event.to_string().len()
Wire(event) == Overhead + event.escaped

\* The sum of a sequence of numbers.
Total(weights) ==
    LET sum[n \in 0 .. Len(weights)] ==
            IF n = 0 THEN 0 ELSE sum[n - 1] + weights[n]
    IN  sum[Len(weights)]

WireSum(frames) == Total([i \in DOMAIN frames |-> Wire(frames[i].event)])

\* A text delta joins the frame before it while that one is a text delta of
\* the same turn and not yet long enough.
Mergeable(buffer, turn, event) ==
    /\ event.kind = "text_delta"
    /\ buffer.frames # <<>>
    /\ LET last == Last(buffer.frames)
       IN  /\ last.turn = turn
           /\ last.event.kind = "text_delta"
           /\ last.event.text < CoalesceBytes

\* The merged frame carries the newest seq.
Merged(frame, seq, event) ==
    [from |-> frame.from,
     seq |-> seq,
     turn |-> frame.turn,
     event |-> [kind |-> frame.event.kind,
                text |-> frame.event.text + event.text,
                escaped |-> frame.event.escaped + event.escaped]]

\* Mutant: the merged frame keeps the seq it had.
MergeDeltaKeepsSeq(buffer, seq, event) ==
    LET n == Len(buffer.frames)
        last == buffer.frames[n]
    IN  [frames |-> ReplaceAt(buffer.frames, n, Merged(last, last.seq, event)),
         bytes |-> buffer.bytes + event.text,
         truncated |-> buffer.truncated]

\* Mutant: the merge counts the whole of the event's JSON form.
MergeDeltaCountsWire(buffer, seq, event) ==
    LET n == Len(buffer.frames)
        last == buffer.frames[n]
    IN  [frames |-> ReplaceAt(buffer.frames, n, Merged(last, seq, event)),
         bytes |-> buffer.bytes + Wire(event),
         truncated |-> buffer.truncated]

\* The length of the bare text is added, and nothing is trimmed.
MergeDelta(buffer, seq, event) ==
    LET n == Len(buffer.frames)
        last == buffer.frames[n]
    IN  [frames |-> ReplaceAt(buffer.frames, n, Merged(last, seq, event)),
         bytes |-> buffer.bytes + event.text,
         truncated |-> buffer.truncated]

\* Mutant: a plain subtraction.
PoppedWraps(buffer, k) ==
    [frames |-> SubSeq(buffer.frames, k + 1, Len(buffer.frames)),
     bytes |-> buffer.bytes - WireSum(SubSeq(buffer.frames, 1, k)),
     truncated |-> buffer.truncated \/ k > 0]

\* The buffer after its k oldest frames were popped, the count of bytes
\* saturating at zero.
Popped(buffer, k) ==
    LET gone == WireSum(SubSeq(buffer.frames, 1, k))
    IN  [frames |-> SubSeq(buffer.frames, k + 1, Len(buffer.frames)),
         bytes |-> IF gone > buffer.bytes THEN 0 ELSE buffer.bytes - gone,
         truncated |-> buffer.truncated \/ k > 0]

Fits(buffer) == Len(buffer.frames) <= MaxFrames /\ buffer.bytes <= MaxBytes

\* Mutant: the drop is not recorded.
TrimSilently(buffer) ==
    LET k == CHOOSE k \in 0 .. Len(buffer.frames) :
                /\ Fits(Popped(buffer, k)) \/ k = Len(buffer.frames)
                /\ \A j \in 0 .. k - 1 : ~Fits(Popped(buffer, j))
    IN  [Popped(buffer, k) EXCEPT !.truncated = buffer.truncated]

\* The oldest frames go until the rest fits, or none is left.
Trim(buffer) ==
    LET k == CHOOSE k \in 0 .. Len(buffer.frames) :
                /\ Fits(Popped(buffer, k)) \/ k = Len(buffer.frames)
                /\ \A j \in 0 .. k - 1 : ~Fits(Popped(buffer, j))
    IN  Popped(buffer, k)

Pushed(buffer, seq, turn, event) ==
    [frames |-> Append(buffer.frames, [from |-> seq, seq |-> seq,
                                       turn |-> turn, event |-> event]),
     bytes |-> buffer.bytes + Wire(event),
     truncated |-> buffer.truncated]

Push(buffer, seq, turn, event) ==
    IF Mergeable(buffer, turn, event) THEN MergeDelta(buffer, seq, event)
    ELSE Trim(Pushed(buffer, seq, turn, event))

\* The numbers a snapshot of the buffer accounts for.
Covers(frames) == UNION {frame.from .. frame.seq : frame \in ToSet(frames)}
=============================================================================
