----------------------------- MODULE MCFraming -----------------------------
(***************************************************************************)
(* Framing for TLC: a buffer of four bytes, so that bodies of up to three  *)
(* bytes are handed on and a fourth abandons the frame, and two body bytes.*)
(***************************************************************************)
EXTENDS Framing

MCOthers == {"a", ";"}

=============================================================================
