------------------------------ MODULE MCRestore ------------------------------
(* An instance of Restore for TLC: symmetry of contents and of commands.      *)
EXTENDS Restore, TLC

Alike == Permutations(Contents) \union Permutations(Restorers)
=============================================================================
