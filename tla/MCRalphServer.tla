--------------------------- MODULE MCRalphServer ---------------------------
(***************************************************************************)
(* Small instances of RalphServer for TLC.                                 *)
(***************************************************************************)
EXTENDS RalphServer, TLC

\* Clients are interchangeable.
ClientSymmetry == Permutations(Clients)

\* A reordering of the only job.
OnlyJob == {<<1>>}

=============================================================================
