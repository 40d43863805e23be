----------------------------- MODULE RevisionLog -----------------------------
(***************************************************************************)
(* What a repository promises its clients: for each file a log of revisions *)
(* with growing numbers.  A revision is appended in one step.  As long as    *)
(* its writer has not been told of its success it may be withdrawn, if none *)
(* has been appended after it; from then on it is never changed or removed. *)
(***************************************************************************)
EXTENDS Integers

CONSTANTS Names, MaxRevision, Publishers, NameOf, None

VARIABLES
  history,   \* who wrote each revision; None where there is none
  reported   \* writers that have been told of their success

LogVars == <<history, reported>>

Entries == Names \X (1..MaxRevision)

LogInit ==
  /\ history = [s \in Entries |-> None]
  /\ reported = {}

(* No revision of the file has a number of n or more. *)
Free(name, n) == \A m \in 1..MaxRevision : m >= n => history[<<name, m>>] = None

Append(p, n) ==
  /\ p \notin reported
  /\ \A s \in Entries : history[s] # p
  /\ Free(NameOf[p], n)
  /\ history' = [history EXCEPT ![<<NameOf[p], n>>] = p]
  /\ UNCHANGED reported

Withdraw(p, n) ==
  /\ p \notin reported
  /\ history[<<NameOf[p], n>>] = p
  /\ Free(NameOf[p], n + 1)
  /\ history' = [history EXCEPT ![<<NameOf[p], n>>] = None]
  /\ UNCHANGED reported

Report(p, n) ==
  /\ p \notin reported
  /\ history[<<NameOf[p], n>>] = p
  /\ reported' = reported \union {p}
  /\ UNCHANGED history

LogNext ==
  \E p \in Publishers, n \in 1..MaxRevision :
    Append(p, n) \/ Withdraw(p, n) \/ Report(p, n)

Spec == LogInit /\ [][LogNext]_LogVars
=============================================================================
