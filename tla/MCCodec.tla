------------------------------ MODULE MCCodec ------------------------------
(***************************************************************************)
(* Codec for TLC.  BUFFER_SIZE is 62 for the code's 100, so that composed  *)
(* messages, 58 to 65 bytes wide, fall on both sides of the bound.         *)
(***************************************************************************)
EXTENDS Codec

MCNumbers      == {-1, 0, 1, 2, 3, 5, 21, 255, 256, 65535}
MCPayloadAlphabet == {"a", "7", ";", ":"}
MCCommands     == {5, 21}
MCIds          == {1, 65535}
MCWireAlphabet == {"type", "data", "x", ":", ";", "1", "256", "a"}

=============================================================================
