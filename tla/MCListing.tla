------------------------------ MODULE MCListing ------------------------------
(* Instances of Listing for TLC: two calls of create_revision for files of   *)
(* one name, in one directory, and a reader.                                 *)
EXTENDS Listing

CONSTANTS p1, p2, t1, hosts, etc, dir1, dir2

OneName == [p \in Publishers |-> hosts]
OneKey == [name \in Names |-> etc]
OneDir == [p \in Publishers |-> dir1]
=============================================================================
