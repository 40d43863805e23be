------------------------------ MODULE MCSession ------------------------------
(* Instances of Session for TLC: a file on the command line, which exists,   *)
(* and one that does not, named too or opened from within the editor.       *)
EXTENDS Session

CONSTANTS notes, draft

One == <<notes>>
Both == <<notes, draft>>
=============================================================================
