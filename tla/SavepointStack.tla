--------------------------- MODULE SavepointStack ---------------------------
(***************************************************************************)
(* What a transaction-local table tracker promises under PostgreSQL's      *)
(* savepoints, with no markers, frames or levels: the current staged       *)
(* contents and one saved copy per open savepoint.                         *)
(***************************************************************************)
EXTENDS Integers, Sequences

CONSTANTS
  Contents,    \* the staged contents a table can have
  Untouched    \* the contents of a table no statement has changed

VARIABLES current, saved

stackVars == <<current, saved>>

Init ==
  /\ current = Untouched
  /\ saved = <<>>

\* A statement that succeeds, or fails, changes the current contents only.
Stage ==
  /\ current' \in Contents
  /\ UNCHANGED saved

\* SAVEPOINT.
Open ==
  /\ saved' = Append(saved, current)
  /\ UNCHANGED current

\* RELEASE SAVEPOINT: the contents stay, the copy goes.
Release ==
  /\ saved # <<>>
  /\ saved' = SubSeq(saved, 1, Len(saved) - 1)
  /\ UNCHANGED current

\* The abort of a subtransaction: exactly the saved copy comes back.
Abort ==
  /\ saved # <<>>
  /\ current' = saved[Len(saved)]
  /\ saved' = SubSeq(saved, 1, Len(saved) - 1)

\* Commit, prepare or abort of the whole transaction.
End ==
  /\ current' = Untouched
  /\ saved' = <<>>

Next == Stage \/ Open \/ Release \/ Abort \/ End

Spec == Init /\ [][Next]_stackVars
=============================================================================
