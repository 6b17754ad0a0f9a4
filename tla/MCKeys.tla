------------------------------- MODULE MCKeys -------------------------------
(* Small instances of Keys.  The task slots, which only name requests in    *)
(* flight, are symmetric.                                                   *)
EXTENDS Keys, TLC

\* One user and two files; a user and a recipient of one file.
OneUser == [users |-> {1}, fileKeys |-> {1, 2}, ops |-> AllOps, maxMint |-> 3, maxTokens |-> 0]
Recipient == [users |-> {1, 2}, fileKeys |-> {1}, ops |-> AllOps \ {"read"}, maxMint |-> 3, maxTokens |-> 1]

Both == {OneUser, Recipient}

TaskSymmetry == Permutations(Tasks)
=============================================================================
