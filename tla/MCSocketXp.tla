----------------------------- MODULE MCSocketXp ----------------------------
(***************************************************************************)
(* SocketXp for TLC: two names and two secrets, so that credentials can    *)
(* differ in the configuration, in the key, or in both.                    *)
(***************************************************************************)
EXTENDS SocketXp

CONSTANTS n1, n2, s1, s2

MCNames   == {n1, n2}
MCSecrets == {s1, s2}

=============================================================================
