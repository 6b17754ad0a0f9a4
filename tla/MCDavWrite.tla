----------------------------- MODULE MCDavWrite -----------------------------
(* Model-checking instances of DavWrite, and of Uploads, whose assembly is  *)
(* one of the writes.                                                       *)
EXTENDS DavWrite, Uploads, TLC

\* One process, every kind of request, faults.
OneProcess == [requests |-> Requests, home |-> [r \in Requests |-> "p1"], kinds |-> AllKinds,
               stamps |-> {"s1"}, maxTrash |-> 0, maxFaults |-> 2]

\* Two requests that two processes serve, and deletions.
TwoProcesses(q, r) ==
  [requests |-> {q, r}, home |-> [x \in Requests |-> IF x = q THEN "p1" ELSE "p2"],
   kinds |-> {"put", "match", "ifList", "noneStar", "restore", "assembleBad"},
   stamps |-> {"s1", "s2"}, maxTrash |-> 1, maxFaults |-> 1]

\* Nothing is written but by way of uploads.
NoWrites == [requests |-> {}, home |-> [r \in Requests |-> "p1"], kinds |-> {},
             stamps |-> {"s1"}, maxTrash |-> 0, maxFaults |-> 0]

Deployments == {NoWrites, OneProcess} \cup {TwoProcesses(q, r) : q \in Requests, r \in Requests}

UplScene(width, declared, summed, overwrite, ops, sends, sessions, breaks, crashes) ==
  [width |-> width, declared |-> declared, summed |-> summed, overwrite |-> overwrite, ops |-> ops, sends |-> sends,
   sessions |-> sessions, breaks |-> breaks, crashes |-> crashes]

NoUpload == UplScene(0, FALSE, FALSE, FALSE, {}, 0, 0, 0, 0)

\* Two chunks, retries of each request and a crash; two transfers under one
\* id with a declared total; parts of chunks against the total; the checksum.
Transfers ==
  { NoUpload,
    UplScene(2, FALSE, FALSE, TRUE, {"put", "move"}, 5, 1, 1, 1),
    UplScene(2, TRUE, FALSE, TRUE, {"put", "move", "delete"}, 6, 2, 0, 0),
    UplScene(2, TRUE, FALSE, TRUE, {"put", "move"}, 4, 1, 1, 0),
    UplScene(2, FALSE, TRUE, FALSE, {"put", "move", "drop"}, 4, 1, 1, 1) }

AllInit == Init /\ UplInit /\ IF plan = NoUpload THEN file = <<>> ELSE setup = NoWrites /\ row = NoFile
AllNext == \/ plan = NoUpload /\ Next /\ UNCHANGED <<setup, uplVars>>
           \/ plan # NoUpload /\ UplNext /\ UNCHANGED vars
AllSpec == AllInit /\ [][AllNext]_<<vars, uplVars>>

RequestSymmetry == Permutations(Requests)
=============================================================================
