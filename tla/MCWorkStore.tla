----------------------------- MODULE MCWorkStore -----------------------------
(***************************************************************************)
(* Small instances of WorkStore: properties and their mutants.             *)
(***************************************************************************)
EXTENDS WorkStore, TLC

Permutes == Permutations(Agents) \cup Permutations(Contents)
=============================================================================
