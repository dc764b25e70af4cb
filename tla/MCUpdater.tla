----------------------------- MODULE MCUpdater -----------------------------
(***************************************************************************)
(* Updater for TLC: two versions, so that an update can go forth and back. *)
(***************************************************************************)
EXTENDS Updater

CONSTANTS v1, v2

MCVersions == {v1, v2}

=============================================================================
