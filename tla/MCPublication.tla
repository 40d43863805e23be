---------------------------- MODULE MCPublication ----------------------------
(* Instances of Publication for TLC: up to three calls of create_revision    *)
(* for one file, and a call of write_tag.                                   *)
EXTENDS Publication, TLC

CONSTANTS p1, p2, p3, t1, hosts, etc

OneFile == [p \in Publishers |-> hosts]
OneKey == [name \in Names |-> etc]

(* Calls by one actor differ in nothing; in pub_wedge the second is foreign.  *)
Alike == Permutations(Publishers \ Foreign)
=============================================================================
