------------------------------ MODULE MCShares ------------------------------
(* Small instances of Shares. *)
EXTENDS Shares, TLC

Mixes == {{"write", "unshare", "view", "job"}, {"write", "leave"},
          {"share", "join", "write"}, {"share", "overwrite"}, {"update", "job", "unshare"},
          {"federate", "unshare"}, {"federate", "decline"}, {"remove", "write", "overwrite"},
          {"reconcile", "join", "overwrite"}}

Symmetry == Permutations(Users) \cup Permutations(Tasks)
=============================================================================
