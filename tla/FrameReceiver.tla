---------------------------- MODULE FrameReceiver ----------------------------
(***************************************************************************)
(* What the framing of the serial line promises (spec 4.4): bytes come one *)
(* at a time, a '[' begins a frame whatever came before, a ']' ends the    *)
(* frame begun and hands its body on, a frame longer than the capacity is  *)
(* abandoned, and bytes outside a frame are ignored.                       *)
(***************************************************************************)
EXTENDS Naturals, Sequences

CONSTANTS
    Bodies,     \* the bytes a body is made of
    Capacity,   \* the longest body handed on
    NoFrame     \* no frame has begun

VARIABLES
    frame,      \* the body received so far of the frame begun, or NoFrame
    handed      \* the bodies handed on, in order

frameVars == <<frame, handed>>

Init == frame = NoFrame /\ handed = <<>>

Begin == frame' = <<>> /\ UNCHANGED handed

Extend ==
    /\ frame # NoFrame
    /\ Len(frame) < Capacity
    /\ \E b \in Bodies : frame' = Append(frame, b)
    /\ UNCHANGED handed

Abandon ==
    /\ frame # NoFrame
    /\ Len(frame) = Capacity
    /\ frame' = NoFrame
    /\ UNCHANGED handed

HandOn ==
    /\ frame # NoFrame
    /\ handed' = Append(handed, frame)
    /\ frame' = NoFrame

Next == Begin \/ Extend \/ Abandon \/ HandOn

Spec == Init /\ [][Next]_frameVars

=============================================================================
