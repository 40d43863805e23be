-------------------------------- MODULE MCTui --------------------------------
(* An instance of Tui for TLC: two files, in one directory or in two, and a  *)
(* repository that is empty or holds revisions of both.                      *)
EXTENDS Tui, TLC

CONSTANTS hosts, notes, etc, home

BothFiles == <<hosts, notes>>
BothDirs == <<etc, home>>
DirOfFile == (hosts :> etc) @@ (notes :> home)
NameOfFile == (hosts :> <<"a">>) @@ (notes :> <<>>)
Letters == {"a", "_"}
Words == {<<>>}
Fields == <<"path", "tag">>

Rev(path, number, kind, epoch) ==
  [path |-> path, number |-> number, kind |-> kind, epoch |-> epoch, text |-> <<>>]
Repositories ==
  {<<>>,
   <<Rev(hosts, 1, "Edit", 1), Rev(notes, 1, "Access", 2), Rev(hosts, 2, "Edit", 1)>>}
=============================================================================
