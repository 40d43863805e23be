----------------------------- MODULE MCInstaller -----------------------------
(* Instances of Launch for TLC.  In the first one there are two commands, the *)
(* shim of one editor, which is a legacy editor as well, and one manual page. *)
EXTENDS Launch, TLC

CONSTANTS bedit, bvi, vi, page, u1, u2, i1, i2

TwoCommands == <<bedit, bvi>>
OneEditor == <<vi>>
OnePage == <<page>>
Alike == Permutations(Instances) \union Permutations(UserFiles)
Wrapper == [e \in {vi} |-> bvi]
Named == [c \in {bedit, bvi} |-> IF c = bvi THEN vi ELSE None]

(* One command and nothing else, to look at the machine's configuration: every *)
(* one of at most two settings, with and without a line that has no "=".      *)
OneCommand == <<bvi>>
NoNames == <<>>
NoEditor == [c \in {bvi} |-> None]
Lines == [settings : UNION {[1..n -> SETTINGS] : n \in 0..2}, bare : BOOLEAN]
AnyConfig == Lines \union {None}
=============================================================================
