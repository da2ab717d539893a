-------------------------- MODULE MCRevisionStore --------------------------
(***************************************************************************)
(* Small stores for TLC: one or two windows, two runs, two sources that    *)
(* may be proposed for two layers, and up to three events.                 *)
(***************************************************************************)
EXTENDS RevisionStore, TLC

SameDesks == Permutations(Desks)

=============================================================================
