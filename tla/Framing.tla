------------------------------ MODULE Framing ------------------------------
(***************************************************************************)
(* How the readers of the panel and of the ventilator find frames in the   *)
(* byte stream (receive_packets): bytes are collected until the buffer     *)
(* begins with a start of frame and holds a whole frame; it is handled if  *)
(* its checksum is right.  In any other case one byte is dropped.          *)
(*                                                                         *)
(* Anything may be in the stream: noise, broken frames, the two halves of  *)
(* what was lost with a connection, and the empty element that an ended    *)
(* connection leaves in the buffer.                                        *)
(***************************************************************************)
EXTENDS Integers, Sequences

CONSTANTS
    Bytes,          \* what one read can return
    FrameLength,    \* SOF_LENGTH_MAP: from a pair of bytes to a frame's length
    Valid(_),       \* validate_checksum
    MaxLength,      \* an upper bound of the lengths
    MaxRead         \* bound: how much is read

Starts == DOMAIN FrameLength

ASSUME FramingAssumption ==
    /\ Starts \subseteq Bytes \X Bytes
    /\ FrameLength \in [Starts -> 2 .. MaxLength]
    /\ MaxLength \in Nat

VARIABLES
    buf,            \* the bytes that are not decided on
    read,           \* history: all the bytes there were
    handled         \* history: where in the stream handled frames lie: <<first, last>>

vars == <<buf, read, handled>>

Init == buf = <<>> /\ read = <<>> /\ handled = {}

\* The first byte of the buffer, as a place in the stream.
FirstKept == Len(read) - Len(buf) + 1

Sof == <<buf[1], buf[2]>>
Started == Len(buf) >= 2 /\ Sof \in Starts
CompleteLate == Started /\ Len(buf) > FrameLength[Sof]    \* mutant: one byte too many
Complete == Started /\ Len(buf) >= FrameLength[Sof]
Packet == SubSeq(buf, 1, FrameLength[Sof])

\* The inner loop is left, and the next byte awaited, when too little is there.
Waiting == Len(buf) < 2 \/ (Started /\ ~Complete)

Rest(n) == SubSeq(buf, n + 1, Len(buf))

Read(b) ==
    /\ Waiting /\ Len(read) < MaxRead
    /\ buf' = Append(buf, b) /\ read' = Append(read, b)
    /\ UNCHANGED handled

NoStart ==
    /\ Len(buf) >= 2 /\ Sof \notin Starts
    /\ buf' = Rest(1)
    /\ UNCHANGED <<read, handled>>

HandleKept ==       \* mutant: of a handled frame only the first byte is dropped
    /\ Complete /\ Valid(Packet)
    /\ buf' = Rest(1)
    /\ handled' = handled \cup {<<FirstKept, FirstKept + FrameLength[Sof] - 1>>}
    /\ UNCHANGED read

Handle ==
    /\ Complete /\ Valid(Packet)
    /\ buf' = Rest(FrameLength[Sof])
    /\ handled' = handled \cup {<<FirstKept, FirstKept + FrameLength[Sof] - 1>>}
    /\ UNCHANGED read

BrokenWhole ==      \* mutant: a broken frame is dropped as a whole
    /\ Complete /\ ~Valid(Packet)
    /\ buf' = Rest(FrameLength[Sof])
    /\ UNCHANGED <<read, handled>>

Broken ==
    /\ Complete /\ ~Valid(Packet)
    /\ buf' = Rest(1)
    /\ UNCHANGED <<read, handled>>

Next == (\E b \in Bytes : Read(b)) \/ NoStart \/ Handle \/ Broken

Spec == Init /\ [][Next]_vars

-----------------------------------------------------------------------------

\* A frame with a right checksum lies at f of the stream.
Intact(f) ==
    LET first == f[1] last == f[2]
        sof == <<read[first], read[first + 1]>>
    IN  /\ first + 1 <= Len(read) /\ last <= Len(read)
        /\ sof \in Starts /\ last = first + FrameLength[sof] - 1
        /\ Valid(SubSeq(read, first, last))

Places == (1 .. Len(read)) \X (1 .. Len(read))

Overlap(f, g) == f[1] <= g[2] /\ g[1] <= f[2]

TypeOK ==
    /\ buf \in Seq(Bytes) /\ read \in Seq(Bytes)
    /\ Len(buf) <= Len(read)
    /\ \A i \in 1 .. Len(buf) : buf[i] = read[Len(read) - Len(buf) + i]
    /\ handled \subseteq Places

\* What is handled was really there, and no byte belongs to two frames.
HandledIntact ==
    /\ \A f \in handled : Intact(f)
    /\ \A f, g \in handled : f # g => ~Overlap(f, g)

\* No frame is lost to what precedes it, be it noise, a false start, a broken
\* frame or half of one: an intact frame is handled once the reader is past
\* its beginning, unless it lies in another one that was handled.
NoFrameSkipped ==
    \A f \in Places :
        Intact(f) /\ f[1] < FirstKept => \E g \in handled : Overlap(f, g)

\* And the reader is past it at the latest when as many bytes have come as the
\* longest frame has: a false start delays a frame, it does not block it.
NoFrameDelayed ==
    Waiting => \A f \in Places :
        Intact(f) /\ f[1] + MaxLength <= Len(read) + 1 =>
            \E g \in handled : Overlap(f, g)

\* What makes it so: handled frames lie behind, and every byte behind belongs
\* to one or was rejected for a reason that no later byte can change.
HandledBehind == \A f \in handled : f[1] <= f[2] /\ f[2] < FirstKept

Rejected(first) ==
    LET sof == <<read[first], read[first + 1]>>
        last == first + FrameLength[sof] - 1
    IN  sof \in Starts => last <= Len(read) /\ ~Valid(SubSeq(read, first, last))

EveryByteDecided ==
    \A i \in 1 .. FirstKept - 1 :
        \/ \E f \in handled : f[1] <= i /\ i <= f[2]
        \/ i < Len(read) /\ Rejected(i)

IInv == TypeOK /\ HandledBehind /\ HandledIntact /\ EveryByteDecided
=============================================================================
