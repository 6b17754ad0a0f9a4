----------------------------- MODULE MCFileTree -----------------------------
(* Model-checking instance of FileTree. *)
EXTENDS FileTree, TLC

CONSTANTS t1, t2

TwoFolders == {<<"d">>, <<"e">>, <<"d", "f">>, <<"e", "f">>}

\* One request after the other, no errors.
InTurn == [ops |-> {"create", "mkcol", "delete", "move", "copy", "restore", "empty", "share"},
           tasks |-> {t1}, requests |-> 4, faults |-> 0, paths |-> TwoFolders, apart |-> TRUE, onto |-> FALSE]
\* A failing call or a crash in any request.
Failing == [ops |-> {"create", "mkcol", "delete", "move", "copy", "restore", "empty"},
            tasks |-> {t1}, requests |-> 3, faults |-> 1, paths |-> TwoFolders, apart |-> TRUE, onto |-> FALSE]
\* Two requests at a time on separate subtrees.
Together == [ops |-> {"create", "mkcol", "delete", "move"},
             tasks |-> {t1, t2}, requests |-> 3, faults |-> 0, paths |-> TwoFolders, apart |-> TRUE, onto |-> FALSE]
\* Two requests at a time anywhere.
Overlapping == [ops |-> {"create", "delete", "move"},
                tasks |-> {t1, t2}, requests |-> 3, faults |-> 0,
                paths |-> {<<"d">>, <<"e">>, <<"d", "f">>}, apart |-> FALSE, onto |-> FALSE]
\* Rows that stay at a path when its file is trashed.
Leftovers == [ops |-> {"prop", "delete", "move", "copy", "restore"},
              tasks |-> {t1}, requests |-> 5, faults |-> 0, paths |-> {<<"e">>, <<"d", "f">>}, apart |-> TRUE, onto |-> FALSE]
Revisions == [ops |-> {"create", "overwrite", "delete", "move"},
              tasks |-> {t1}, requests |-> 5, faults |-> 0, paths |-> TwoFolders, apart |-> TRUE, onto |-> FALSE]
\* MKCOL of a path that is taken, MOVE and COPY onto the source or its folder.
Taken == [ops |-> {"create", "mkcol", "remkcol", "delete", "copy", "move"},
          tasks |-> {t1}, requests |-> 3, faults |-> 0, paths |-> TwoFolders, apart |-> TRUE, onto |-> TRUE]

Situations == {InTurn, Failing, Together, Overlapping, Leftovers, Revisions, Taken}
=============================================================================
