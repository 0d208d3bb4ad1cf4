----------------------------- MODULE MCAdapters -----------------------------
(***************************************************************************)
(* Two tool calls, so that their fragments interleave and their names may  *)
(* be the same, with up to two fragments each; two reports of usage.       *)
(***************************************************************************)
EXTENDS Adapters, TLC

CONSTANTS search, weather

MCNames == {search, weather}

\* No definition tells one name from the other.
Symmetry == Permutations(MCNames)
=============================================================================
