------------------------------ MODULE MCNames ------------------------------
(* Situations for Names and for Sealing.  Names: each offers some          *)
(* operations to a tree that is in clear or encrypted, with a number of    *)
(* requests and of sweeps.  Sealing: each offers server, operator and      *)
(* fault steps to a stored tree and a number of commands over it.          *)
EXTENDS Names, Sealing

MCDirs == {"a", "b"}
MCLeafs == {"x"}

Scene(scm, kinds, ops, sweeps, ways, shared, faults) ==
  [scheme |-> scm, kinds |-> kinds, ops |-> ops, sweeps |-> sweeps, ways |-> ways, shared |-> shared, faults |-> faults]

(* The situation in which nothing happens to names.                       *)
NoScene == Scene(0, {}, 0, 0, {}, FALSE, FALSE)

MCScenes ==
  { Scene(0, {"move"}, 2, 2, {TRUE, FALSE}, TRUE, FALSE),
    Scene(0, {"mkdir", "put", "move"}, 2, 1, {TRUE}, TRUE, FALSE),
    Scene(0, {"trash", "restore", "mkdir"}, 3, 1, {TRUE}, FALSE, TRUE),
    Scene(1, {"move", "trash", "mark"}, 3, 1, {FALSE}, TRUE, TRUE),
    Scene(1, {"mount", "mkdir", "put", "trash", "move"}, 2, 1, {FALSE}, TRUE, FALSE),
    Scene(1, {"grant", "move", "mkdir"}, 3, 1, {FALSE}, FALSE, FALSE),
    NoScene }

MCPaths == <<"ann/a", "ann/b", "appdata_/c", "zoe/d">>
MCOwnerUID == [p \in Range(MCPaths) |->
                 CASE p \in {"ann/a", "ann/b"} -> "ann" [] p = "appdata_/c" -> "appdata_" [] OTHER -> "zoe"]
MCHeaderSize == [v \in {"v1", "v2", "v3"} |-> CASE v = "v1" -> 3 [] v = "v2" -> 4 [] OTHER -> 6]

Tree(a, b, c, d) == [p \in Files |-> CASE p = "ann/a" -> a [] p = "ann/b" -> b [] p = "appdata_/c" -> c [] OTHER -> d]
SealScene(forms, perUser, enr, kinds, lens, ops, dirs, runs) ==
  [lens |-> lens, forms |-> forms, perUser |-> perUser, enrolled |-> enr, kinds |-> kinds, ops |-> ops, dirs |-> dirs, runs |-> runs]

MCSealScenes ==
  { SealOff,
    SealScene(Tree("plain", "none", "v1", "none"), FALSE, {}, {"put", "rename", "delete", "die"}, {0}, 2, {"seal", "open"}, 2),
    SealScene(Tree("v1", "none", "v1", "plain"), FALSE, {}, {"key", "put", "rename"}, {2}, 3, {"rotate"}, 2),
    SealScene(Tree("v1", "none", "none", "none"), FALSE, {}, {"key", "force", "put", "dry"}, {3}, 2, {"rotate", "open"}, 2),
    SealScene(Tree("v3", "v1", "v1", "none"), TRUE, {}, {"key", "put", "dbfault", "die"}, {3}, 2, {"rotate", "rekey"}, 2),
    SealScene(Tree("v3", "v1", "none", "none"), TRUE, {}, {"key", "put"}, {3}, 3, {"rotate", "rekey"}, 2),
    SealScene(Tree("plain", "v1", "none", "v1"), FALSE, {}, {"user", "put"}, {5}, 2, {"seal", "rekey"}, 2),
    SealScene(Tree("v3", "v1", "none", "none"), TRUE, {"ann"}, {"reset", "put", "dry"}, {3}, 2, {"open", "rekey"}, 2) }

AllInit == Init /\ SealInit /\ (stage # SealOff => scene = NoScene)
AllNext == \/ stage = SealOff /\ Next /\ UNCHANGED sealVars
           \/ stage # SealOff /\ SealNext /\ UNCHANGED vars
AllSpec == AllInit /\ [][AllNext]_<<vars, sealVars>>
=============================================================================
