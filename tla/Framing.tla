------------------------------ MODULE Framing ------------------------------
(***************************************************************************)
(* The framing state machine in the loop of Start(): what the engine does  *)
(* with each byte Read returns, up to the rawMessage processMessage hands  *)
(* to decodeCharlesMessage. The input is any sequence of bytes: what the   *)
(* STM32 wrote, with whatever a reconnect cut out of it.                   *)
(***************************************************************************)
EXTENDS Naturals, Sequences, SequencesExt

CONSTANTS
    BUFFER_SIZE,    \* len(rcvMsgBuffer), 100 in constants.go
    Others,         \* the bytes that are neither '[' nor ']'
    NUL,            \* the byte 0
    NoFrame,        \* FrameReceiver's "no frame has begun"
    MaxBytes        \* bytes read

RECEIVING_DATA      == 0
WAITING_FOR_MESSAGE == 1

Alphabet == {"[", "]"} \cup Others

ASSUME /\ BUFFER_SIZE \in Nat \ {0, 1}
       /\ MaxBytes \in Nat
       /\ Others \cap {"[", "]"} = {}
       /\ NUL \notin Alphabet

VARIABLES
    rcvMsgState,          \* h.rcvMsgState
    rcvMsgBufferControl,  \* h.rcvMsgBufferControl
    rcvMsgBuffer,         \* h.rcvMsgBuffer, indexed from 0
    read,                 \* history: the bytes read
    processed             \* history: the rawMessages given to decodeCharlesMessage

vars == <<rcvMsgState, rcvMsgBufferControl, rcvMsgBuffer, read, processed>>

\* InitCC: the state is set, the rest has Go's zero values.
Init ==
    /\ rcvMsgState = WAITING_FOR_MESSAGE
    /\ rcvMsgBufferControl = 0
    /\ rcvMsgBuffer = [i \in 0..(BUFFER_SIZE - 1) |-> NUL]
    /\ read = <<>>
    /\ processed = <<>>

\* rcvMsgBuffer[:n] as a sequence.
Prefix(buffer, n) == [i \in 1..n |-> buffer[i - 1]]

\* Read returned one byte.
Reads(byte) ==
    /\ Len(read) < MaxBytes
    /\ read' = Append(read, byte)

\* case '[' without the reset of rcvMsgBufferControl.
ReadOpenKeepsIndex ==
    /\ Reads("[")
    /\ rcvMsgState' = RECEIVING_DATA
    /\ UNCHANGED <<rcvMsgBufferControl, rcvMsgBuffer, processed>>

\* case '[': a frame begins, whatever the state.
ReadOpen ==
    /\ Reads("[")
    /\ rcvMsgState' = RECEIVING_DATA
    /\ rcvMsgBufferControl' = 0
    /\ UNCHANGED <<rcvMsgBuffer, processed>>

\* processMessage slicing up to the index, terminator included.
rawMessageWithTerminator(buffer, control) == Prefix(buffer, control)

\* processMessage: rawMessage[:(h.rcvMsgBufferControl - 1)]
rawMessage(buffer, control) == Prefix(buffer, control - 1)

\* case ']' while receiving: the buffer is terminated and processMessage
\* takes rawMessage, the buffer up to the terminator.
ReadCloseOfFrame ==
    /\ Reads("]")
    /\ rcvMsgState = RECEIVING_DATA
    /\ rcvMsgBuffer' = [rcvMsgBuffer EXCEPT ![rcvMsgBufferControl] = NUL]
    /\ rcvMsgBufferControl' = rcvMsgBufferControl + 1
    /\ processed' = Append(processed, rawMessage(rcvMsgBuffer', rcvMsgBufferControl'))
    /\ rcvMsgState' = WAITING_FOR_MESSAGE

\* case ']' without the test of the state: what the buffer holds is
\* processed again.
ReadCloseOutsideProcesses ==
    /\ Reads("]")
    /\ rcvMsgState = WAITING_FOR_MESSAGE
    /\ processed' = Append(processed, Prefix(rcvMsgBuffer, rcvMsgBufferControl))
    /\ UNCHANGED <<rcvMsgState, rcvMsgBufferControl, rcvMsgBuffer>>

\* case ']' while waiting.
ReadCloseOutside ==
    /\ Reads("]")
    /\ rcvMsgState = WAITING_FOR_MESSAGE
    /\ UNCHANGED <<rcvMsgState, rcvMsgBufferControl, rcvMsgBuffer, processed>>

\* The test of the default case with > for >=.
BufferFullOffByOne == rcvMsgBufferControl > (BUFFER_SIZE - 1)

\* The default case keeps the last place of the buffer for the terminator.
BufferFull == rcvMsgBufferControl >= (BUFFER_SIZE - 1)

\* default while receiving, the buffer full: the frame is abandoned.
ReadOverflow ==
    /\ \E byte \in Others : Reads(byte)
    /\ rcvMsgState = RECEIVING_DATA
    /\ BufferFull
    /\ rcvMsgState' = WAITING_FOR_MESSAGE
    /\ UNCHANGED <<rcvMsgBufferControl, rcvMsgBuffer, processed>>

\* default while receiving: the byte is appended.
ReadBody ==
    \E byte \in Others :
        /\ Reads(byte)
        /\ rcvMsgState = RECEIVING_DATA
        /\ ~BufferFull
        /\ rcvMsgBuffer' = [rcvMsgBuffer EXCEPT ![rcvMsgBufferControl] = byte]
        /\ rcvMsgBufferControl' = rcvMsgBufferControl + 1
        /\ UNCHANGED <<rcvMsgState, processed>>

\* default while waiting.
ReadOutside ==
    /\ \E byte \in Others : Reads(byte)
    /\ rcvMsgState = WAITING_FOR_MESSAGE
    /\ UNCHANGED <<rcvMsgState, rcvMsgBufferControl, rcvMsgBuffer, processed>>

\* All bytes are read and the line stays silent.
Silence == Len(read) = MaxBytes /\ UNCHANGED vars

Next ==
    \/ ReadOpen \/ ReadCloseOfFrame \/ ReadCloseOutside
    \/ ReadOverflow \/ ReadBody \/ ReadOutside
    \/ Silence

Spec == Init /\ [][Next]_vars

-----------------------------------------------------------------------------
(* Properties *)

\* Every variable holds a value of the kind the Go declarations give it.
TypeOK ==
    /\ rcvMsgState \in {RECEIVING_DATA, WAITING_FOR_MESSAGE}
    /\ rcvMsgBufferControl \in Nat
    /\ rcvMsgBuffer \in [0..(BUFFER_SIZE - 1) -> Alphabet \cup {NUL}]
    /\ read \in Seq(Alphabet)
    /\ processed \in Seq(Seq(Others))

\* The writes rcvMsgBuffer[rcvMsgBufferControl] = ... of the cases ']' and
\* default are inside the array: while a frame is received the index is one
\* of the buffer's, so the write of the terminator cannot panic the engine.
BufferWriteInBounds ==
    rcvMsgState = RECEIVING_DATA => rcvMsgBufferControl \in DOMAIN rcvMsgBuffer

\* The index of the ']' of s that ends a frame: a '[' before it, between
\* them only body bytes, and no more of them than the buffer takes.
EndsFrame(s, j) ==
    /\ s[j] = "]"
    /\ \E i \in 1..(j - 1) :
           /\ s[i] = "["
           /\ \A k \in (i + 1)..(j - 1) : s[k] \in Others
           /\ j - i - 1 <= BUFFER_SIZE - 1

BodyEndingAt(s, j) ==
    SubSeq(s, 1 + Max({i \in 1..(j - 1) : s[i] = "["}), j - 1)

\* The frames of a byte sequence, by definition.
RECURSIVE FramesOf(_)
FramesOf(s) ==
    IF s = <<>> THEN <<>>
    ELSE IF EndsFrame(s, Len(s))
        THEN Append(FramesOf(Front(s)), BodyEndingAt(s, Len(s)))
        ELSE FramesOf(Front(s))

\* What processMessage has been given is exactly the frames of the bytes
\* read, in order: the state machine of Start neither misses a frame, nor
\* hands on a body twice, nor mixes bytes of the buffer's earlier use into
\* a rawMessage.
ProcessedAreTheFrames == processed = FramesOf(read)

\* The refinement mapping: a frame has begun while the state is
\* RECEIVING_DATA, and its body so far is the buffer up to the index.
Receiver ==
    INSTANCE FrameReceiver WITH
        Bodies <- Others,
        Capacity <- BUFFER_SIZE - 1,
        frame <- IF rcvMsgState = RECEIVING_DATA
                     THEN Prefix(rcvMsgBuffer, rcvMsgBufferControl)
                     ELSE NoFrame,
        handed <- processed

\* The loop of Start implements the frame receiver of spec 4.4: each byte
\* read is a step of it, or leaves it where it is.
ImplementsReceiver == Receiver!Spec

=============================================================================
