----------------------------- MODULE MCDavLocks -----------------------------
(* Model-checking instances of DavLocks. *)
EXTENDS DavLocks, TLC

\* Two directories, one file that may move between them.
TwoDirs == [paths |-> {<<>>, <<"d">>, <<"d", "f">>, <<"e">>, <<"e", "f">>},
            dirs |-> {<<>>, <<"d">>, <<"e">>}, initially |-> {<<>>, <<"d">>, <<"d", "f">>},
            verbs |-> {"lock", "delete", "move"}, maxTime |-> 1]

\* Two files side by side, WebDAV and office clients.
Flat == [paths |-> {<<>>, <<"f">>, <<"g">>}, dirs |-> {<<>>}, initially |-> {<<>>, <<"f">>},
         verbs |-> {"lock", "refresh", "wopiLock", "unlock", "wopiUnlock", "put", "wopiPut", "wopiRelative"},
         maxTime |-> 2]

\* The same two files, renamed and copied.
Renames == [Flat EXCEPT !.verbs = {"lock", "refresh", "unlock", "delete", "move", "copy", "wopiRename"}, !.maxTime = 1]

TreeAndFlat == {TwoDirs, Flat, Renames}

ClientSymmetry == Permutations(Clients)
=============================================================================
