------------------------------ MODULE FileTree ------------------------------
(***************************************************************************)
(* One user's tree of files: the rows of the filecache, the objects of the *)
(* store, the trashbin, and the tables that follow a file by its path      *)
(* (versions, dead properties, shares).  MKCOL, PUT, DELETE, MOVE, COPY,   *)
(* restore and removal from the trash (internal/files: dav.go, trash.go,   *)
(* sqlstore.go, versionstore.go, propstore.go; internal/sharing).          *)
(*                                                                         *)
(* A request is a task whose steps are the calls to the store and to the   *)
(* database.  None of these requests takes a lock.  The write core in      *)
(* detail is DavWrite, the lock rows are DavLocks; here a PUT never fails  *)
(* half-way.  Contents are numbers, one per write, 0 is a directory.       *)
(***************************************************************************)
EXTENDS Integers, FiniteSets, FiniteSetsExt, SequencesExt

CONSTANTS
  Paths,        \* nonempty sequences of names; other paths exceed the name budget
  MaxId,        \* bound: row ids
  MaxContent,   \* bound: contents written
  MaxSuffix,    \* bound: -n suffixes of trash locations
  Tasks,        \* requests in flight
  Scenes        \* the situations to look at, chosen once per behaviour

Ops == {"create", "overwrite", "mkcol", "remkcol", "delete", "move", "copy",
        "restore", "empty", "share", "prop"}

ASSUME FileTreeAssumption ==
  /\ \A p \in Paths : Len(p) > 0
  /\ MaxId \in Nat /\ MaxContent \in Nat /\ MaxSuffix \in Nat
  /\ \A s \in Scenes : s.ops \subseteq Ops /\ s.tasks \subseteq Tasks /\ s.paths \subseteq Paths
                       /\ s.requests \in Nat /\ s.faults \in Nat
                       /\ s.apart \in BOOLEAN /\ s.onto \in BOOLEAN

VARIABLES
  rows,      \* files table by id; row 0 is the root
  objects,   \* the store: existing keys with a content, 0 for a directory
  trash,     \* trash_items
  versions, props, shares,   \* rows keyed by path
  nextId, nextContent, sec,
  requests,  \* requests made so far
  faults,    \* errors and crashes so far
  current,   \* history: acknowledged contents nobody asked to destroy or replace
  task,
  scene

vars == <<rows, objects, trash, versions, props, shares, nextId, nextContent, sec,
          requests, faults, current, task, scene>>
side == <<versions, props, shares>>
ids == <<nextId, nextContent>>
world == <<sec, requests, faults, scene>>

Ids == 0 .. MaxId
Row == [path : Paths \cup {<<>>}, parent : Ids, dir : BOOLEAN, size : 0 .. MaxContent]
NoRow == [path |-> <<"none">>, parent |-> 0, dir |-> FALSE, size |-> 0]
Names == {p[Len(p)] : p \in Paths}
Locs == Names \X (0 .. MaxContent) \X (0 .. MaxSuffix)

FileKey(p) == <<"files">> \o p
TrashKey(l) == <<"trash", l>>

\* A unit of work of COPY and of restoring: copy, insert or recalc.
NoPath == <<>>
Idle == [pc |-> "idle", op |-> "none", src |-> NoPath, dst |-> NoPath, at |-> NoPath, from |-> NoPath,
         loc |-> {}, id |-> 0, parent |-> 0, deep |-> TRUE, keys |-> {}, new |-> {}, old |-> {},
         todo |-> <<>>, up |-> <<>>, seen |-> {}, after |-> "idle"]

TypeOK ==
  /\ rows \in [Ids -> Row \cup {NoRow}]
  /\ rows[0].path = <<>> /\ rows[0].dir
  /\ \A i, j \in Ids : i # j /\ rows[i] # NoRow => rows[i].path # rows[j].path
  /\ \A k \in DOMAIN objects : objects[k] \in 0 .. MaxContent /\ (Len(k) > 1 => Front(k) \in DOMAIN objects)
  /\ \A i \in trash : i.loc \in Locs /\ i.path \in Paths
  /\ \A i, j \in trash : i.loc = j.loc => i = j
  /\ \A i, j \in props : i.path = j.path => i = j
  /\ nextId \in 1 .. MaxId + 1 /\ nextContent \in 1 .. MaxContent + 1
  /\ current \subseteq 1 .. MaxContent
  /\ \A t \in Tasks : DOMAIN task[t] = DOMAIN Idle
-----------------------------------------------------------------------------
(* The store (internal/storage/localfs)                                    *)

Exists(k) == k \in DOMAIN objects
IsDir(k) == Exists(k) /\ objects[k] = 0
Subtree(k) == {l \in DOMAIN objects : IsPrefix(k, l)}
Above(k) == {SubSeq(k, 1, n) : n \in 1 .. Len(k) - 1}

\* MkdirAll of the parent: fails when an ancestor is a file.
CanMkdirAll(k) == \A a \in Above(k) : Exists(a) => objects[a] = 0

Put(k, c) == [l \in DOMAIN objects \cup Above(k) \cup {k} |->
                IF l = k THEN c ELSE IF Exists(l) THEN objects[l] ELSE 0]

Without(S) == [l \in DOMAIN objects \ S |-> objects[l]]

\* os.Remove: a file or an empty directory.
CanDelete(k) == Exists(k) /\ Subtree(k) = {k}

\* os.Rename: onto nothing, a file onto a file, a directory onto an empty one.
CanRename(from, to) ==
  /\ Exists(from) /\ CanMkdirAll(to) /\ ~IsStrictPrefix(from, to)
  /\ Exists(to) => /\ from = to \/ ~IsStrictPrefix(to, from)
                   /\ objects[from] = 0 <=> objects[to] = 0
                   /\ IsDir(to) => from = to \/ Subtree(to) = {to}

Rename(from, to) ==
  LET moved == {to \o SubSeq(l, Len(from) + 1, Len(l)) : l \in Subtree(from)} IN
  [l \in (DOMAIN objects \ Subtree(from)) \cup moved \cup Above(to) |->
     IF l \in moved THEN objects[from \o SubSeq(l, Len(to) + 1, Len(l))]
     ELSE IF Exists(l) THEN objects[l] ELSE 0]
-----------------------------------------------------------------------------
(* The files table                                                         *)

Live == {i \in Ids : rows[i] # NoRow}
At(p) == {i \in Live : rows[i].path = p}
HasRow(p) == At(p) # {}
GetByPath(p) == CHOOSE i \in At(p) : TRUE
Children(i) == {j \in Live \ {0} : rows[j].parent = i}

\* A row and, by ON DELETE CASCADE on parent_id, the rows below it.
Cascade(i) ==
  {j \in Live : LET up[n \in 0 .. MaxId] == IF n = 0 THEN j ELSE rows[up[n - 1]].parent
                IN  \E n \in 0 .. MaxId : up[n] = i}

\* Mutation: no unique index on (user_id, path).
CanInsertTwice(p) == \E i \in At(Front(p)) : rows[i].dir

\* Insert wants a directory row above and no row at the path.
CanInsert(p) == ~HasRow(p) /\ \E i \in At(Front(p)) : rows[i].dir

Insert(p, dir, size) ==
  /\ nextId <= MaxId
  /\ rows' = [rows EXCEPT ![nextId] = [path |-> p, parent |-> GetByPath(Front(p)), dir |-> dir, size |-> size]]
  /\ nextId' = nextId + 1

\* The path of a row of the subtree at src after a move to dst.
Renamed(p, src, dst) == dst \o SubSeq(p, Len(src) + 1, Len(p))

\* Bound: the paths a move or copy makes are in Paths.
Fits(src, dst) == \A i \in Live : IsPrefix(src, rows[i].path) => Renamed(rows[i].path, src, dst) \in Paths

\* RenameSubtree's checks, and its updates of the rows in S.
CanRenameSubtree(src, dst) ==
  /\ HasRow(src) /\ ~HasRow(dst)
  /\ \E i \in At(Front(dst)) : rows[i].dir

RenameSubtree(src, dst, S) ==
  [i \in Ids |-> IF i \in S
                 THEN [rows[i] EXCEPT !.path = Renamed(@, src, dst),
                                      !.parent = IF rows[i].path = src THEN GetByPath(Front(dst)) ELSE @]
                 ELSE rows[i]]

Drop(table, p) == {r \in table : ~IsPrefix(p, r.path)}

\* The rows of a path-keyed table at or below src, moved to dst.
Follow(table, src, dst) ==
  {IF IsPrefix(src, r.path) THEN [r EXCEPT !.path = Renamed(@, src, dst)] ELSE r : r \in table}

\* RenamePath of a table with a unique index meets a row left at the target.
Clash(table, src, dst) ==
  \E r, s \in table : IsPrefix(src, r.path) /\ ~IsPrefix(src, s.path) /\ s.path = Renamed(r.path, src, dst)
-----------------------------------------------------------------------------
Init ==
  /\ scene \in Scenes
  /\ rows = [i \in Ids |->
               CASE i = 0 -> [path |-> <<>>, parent |-> 0, dir |-> TRUE, size |-> 1]
                 [] i = 1 -> [path |-> <<"d">>, parent |-> 0, dir |-> TRUE, size |-> 1]
                 [] i = 2 -> [path |-> <<"d", "f">>, parent |-> 1, dir |-> FALSE, size |-> 1]
                 [] OTHER -> NoRow]
  /\ objects = [k \in {<<"files">>, <<"trash">>, FileKey(<<"d">>), FileKey(<<"d", "f">>)} |->
                  IF k = FileKey(<<"d", "f">>) THEN 1 ELSE 0]
  /\ trash = {} /\ versions = {} /\ props = {} /\ shares = {}
  /\ nextId = 3 /\ nextContent = 2 /\ sec = 0 /\ requests = 0 /\ faults = 0
  /\ current = {1}
  /\ task = [t \in Tasks |-> Idle]

\* On to the next step; the request ends, answered with success or an error.
Goto(t, pc) == task' = [task EXCEPT ![t].pc = pc]
End(t) == task' = [task EXCEPT ![t] = Idle]

\* RecalcAncestors from the rows in `up', then on to pc.
Recalc(t, up, pc) == task' = [task EXCEPT ![t].pc = "recalc", ![t].up = up, ![t].after = pc]

\* Where the scene asks for it, two requests at a time work on separate
\* subtrees, and two deletions not on files of one name.
Apart(op, p, q) ==
  \A t \in Tasks : task[t].pc # "idle" =>
    /\ \A a \in {p, q} \ {NoPath}, b \in {task[t].src, task[t].dst} \ {NoPath} :
         ~IsPrefix(a, b) /\ ~IsPrefix(b, a)
    /\ op = "delete" /\ task[t].op = "delete" => Last(p) # Last(task[t].src)

\* A request arrives; what it does is given by its first pc.  A fault is
\* followed to the end of the requests in flight: what later requests do to
\* the half-moved tree it may leave is not looked at.
Request(t, op, p, q, l, pc) ==
  /\ t \in scene.tasks /\ task[t].pc = "idle" /\ op \in scene.ops
  /\ requests < scene.requests /\ faults = 0
  /\ scene.apart => Apart(op, p, q)
  /\ requests' = requests + 1
  /\ task' = [task EXCEPT ![t] = [Idle EXCEPT !.pc = pc, !.op = op, !.src = p, !.dst = q, !.at = p, !.loc = l]]
  /\ UNCHANGED <<rows, objects, trash, side, ids, sec, faults, current, scene>>
-----------------------------------------------------------------------------
(* DAV.write: one file at task.at                                          *)

\* Parent and file rows are read; an existing file is copied to a version.
PutRead(t) ==
  LET p == task[t].at IN
  /\ task[t].pc = "put"
  /\ IF /\ p \in Paths /\ \E i \in At(Front(p)) : rows[i].dir
        /\ \A i \in At(p) : ~rows[i].dir /\ Exists(FileKey(p))
     THEN /\ versions' = versions \cup {[path |-> p, content |-> objects[FileKey(p)]] : i \in At(p)}
          /\ task' = [task EXCEPT ![t].pc = "putStore", ![t].old = {objects[FileKey(p)] : i \in At(p)}]
     ELSE End(t) /\ UNCHANGED versions
  /\ UNCHANGED <<rows, objects, trash, props, shares, ids, world, current>>

PutStore(t) ==
  LET k == FileKey(task[t].at) IN
  /\ task[t].pc = "putStore" /\ nextContent <= MaxContent
  /\ nextContent' = nextContent + 1
  /\ IF CanMkdirAll(k) /\ ~IsDir(k)
     THEN /\ objects' = Put(k, nextContent)
          /\ task' = [task EXCEPT ![t].pc = "putRow", ![t].new = @ \cup {nextContent}]
     ELSE End(t) /\ UNCHANGED objects
  /\ UNCHANGED <<rows, trash, side, nextId, world, current>>

\* Insert, or UpdateMeta of the row that was there.
PutRow(t) ==
  LET p == task[t].at IN
  /\ task[t].pc = "putRow"
  /\ IF HasRow(p)
     THEN Recalc(t, <<rows[GetByPath(p)].parent>>, "copyProps") /\ UNCHANGED <<rows, nextId>>
     ELSE IF CanInsert(p)
          THEN Insert(p, FALSE, 1) /\ Recalc(t, <<GetByPath(Front(p))>>, "copyProps")
          ELSE /\ task' = [task EXCEPT ![t].pc = "undo", ![t].after = "idle"]
               /\ UNCHANGED <<rows, nextId>>
  /\ UNCHANGED <<objects, trash, side, nextContent, world, current>>
-----------------------------------------------------------------------------
(* DAV.mkdirOwned: one folder at task.at                                   *)

\* Storage.Mkdir; a directory or file that is there already is tolerated.
MkcolStore(t) ==
  LET p == task[t].at
      k == FileKey(p) IN
  /\ task[t].pc = "mkcol"
  /\ IF p \in Paths /\ IsDir(Front(k))
     THEN /\ objects' = IF Exists(k) THEN objects ELSE Put(k, 0)
          /\ Goto(t, "mkcolRow")
     ELSE End(t) /\ UNCHANGED objects
  /\ UNCHANGED <<rows, trash, side, ids, world, current>>

MkcolRow(t) ==
  LET p == task[t].at IN
  /\ task[t].pc = "mkcolRow"
  /\ IF CanInsert(p)
     THEN Insert(p, TRUE, 0) /\ Recalc(t, <<GetByPath(Front(p))>>, "copyProps")
     ELSE /\ task' = [task EXCEPT ![t].pc = "undo",
                                  ![t].after = IF task[t].op = "copy" /\ HasRow(p) THEN "copyProps" ELSE "idle"]
          /\ UNCHANGED <<rows, nextId>>
  /\ UNCHANGED <<objects, trash, side, nextContent, world, current>>

\* compensateDelete.  A copy goes on when the folder is there.
Undo(t) ==
  LET k == FileKey(task[t].at) IN
  /\ task[t].pc = "undo"
  /\ objects' = IF CanDelete(k) THEN Without({k}) ELSE objects
  /\ IF task[t].after = "copyProps" THEN Goto(t, "copyProps") ELSE End(t)
  /\ UNCHANGED <<rows, trash, side, ids, world, current>>
-----------------------------------------------------------------------------
(* Trash.MoveToTrash                                                       *)

\* uniqueLocationID: the first suffix no trash row has.
UniqueLocation(name) ==
  LET free == {n \in 0 .. MaxSuffix : \A i \in trash : i.loc # <<name, sec, n>>} IN
  <<name, sec, CHOOSE n \in free : \A m \in free : n <= m>>

TrashPick(t) ==
  LET p == task[t].src IN
  /\ task[t].pc = "delete"
  /\ IF HasRow(p)
     THEN task' = [task EXCEPT ![t].pc = "trashRename", ![t].loc = {UniqueLocation(Last(p))},
                               ![t].id = rows[GetByPath(p)].parent]
     ELSE End(t)
  /\ UNCHANGED <<rows, objects, trash, side, ids, world, current>>

Loc(t) == CHOOSE l \in task[t].loc : TRUE

TrashRename(t) ==
  LET from == FileKey(task[t].src)
      to == TrashKey(Loc(t)) IN
  /\ task[t].pc = "trashRename"
  /\ IF CanRename(from, to)
     THEN objects' = Rename(from, to) /\ Goto(t, "trashRow")
     ELSE End(t) /\ UNCHANGED objects
  /\ UNCHANGED <<rows, trash, side, ids, world, current>>

TrashRow(t) ==
  /\ task[t].pc = "trashRow"
  /\ IF \A i \in trash : i.loc # Loc(t)
     THEN trash' = trash \cup {[loc |-> Loc(t), path |-> task[t].src]} /\ Goto(t, "deleteRows")
     ELSE Goto(t, "trashBack") /\ UNCHANGED trash
  /\ UNCHANGED <<rows, objects, side, ids, world, current>>

\* A rename is undone after a failed statement; its own failure is reported.
RenameBack(t, from, to) ==
  /\ objects' = IF CanRename(from, to) THEN Rename(from, to) ELSE objects
  /\ End(t)
  /\ UNCHANGED <<rows, trash, side, ids, world, current>>

TrashBack(t) == task[t].pc = "trashBack" /\ RenameBack(t, TrashKey(Loc(t)), FileKey(task[t].src))

\* Mutation: no ON DELETE CASCADE.
DeleteRowOnly(t) ==
  LET p == task[t].src IN
  /\ task[t].pc = "deleteRows"
  /\ IF HasRow(p)
     THEN rows' = [rows EXCEPT ![GetByPath(p)] = NoRow] /\ Goto(t, "dropShares")
     ELSE End(t) /\ UNCHANGED rows
  /\ UNCHANGED <<objects, trash, side, ids, world, current>>

\* DeleteSubtree looks the path up again.
DeleteRows(t) ==
  LET p == task[t].src IN
  /\ task[t].pc = "deleteRows"
  /\ IF HasRow(p)
     THEN rows' = [i \in Ids |-> IF i \in Cascade(GetByPath(p)) THEN NoRow ELSE rows[i]] /\ Goto(t, "dropShares")
     ELSE End(t) /\ UNCHANGED rows
  /\ UNCHANGED <<objects, trash, side, ids, world, current>>

\* Mutation: shares stay with the path.
KeepShares(t) ==
  /\ task[t].pc = "dropShares"
  /\ Recalc(t, <<task[t].id>>, "next")
  /\ UNCHANGED <<rows, objects, trash, side, ids, world, current>>

\* Shares of the path go; versions and properties stay for a restore.
DropShares(t) ==
  /\ task[t].pc = "dropShares"
  /\ shares' = Drop(shares, task[t].src)
  /\ Recalc(t, <<task[t].id>>, "next")
  /\ UNCHANGED <<rows, objects, trash, versions, props, ids, world, current>>
-----------------------------------------------------------------------------
(* DAV.Purge of task.dst, for MOVE, COPY and restore                       *)

PurgeRead(t) ==
  LET p == task[t].dst IN
  /\ task[t].pc = "purge"
  /\ IF HasRow(p)
     THEN task' = [task EXCEPT ![t].pc = "purgeObjects", ![t].id = rows[GetByPath(p)].parent,
                               ![t].keys = {FileKey(rows[i].path) : i \in Cascade(GetByPath(p))}]
     ELSE End(t)
  /\ UNCHANGED <<rows, objects, trash, side, ids, world, current>>

\* One object is deleted, the deepest first; a missing one and a directory
\* that is not empty are passed over.  The client gave up the destination,
\* not a source that lies in it.
PurgeObject(t) ==
  LET w == task[t] IN
  /\ w.pc = "purgeObjects"
  /\ \E k \in w.keys :
       /\ \A l \in w.keys : ~IsStrictPrefix(k, l)
       /\ objects' = IF CanDelete(k) THEN Without({k}) ELSE objects
       /\ current' = IF CanDelete(k) /\ (w.op = "restore" \/ ~IsPrefix(FileKey(w.src), k))
                     THEN current \ {objects[k]} ELSE current
       /\ task' = [task EXCEPT ![t].keys = @ \ {k},
                               ![t].pc = IF w.keys = {k} THEN "purgeRows" ELSE "purgeObjects"]
  /\ UNCHANGED <<rows, trash, side, ids, world>>

PurgeRows(t) ==
  LET p == task[t].dst IN
  /\ task[t].pc = "purgeRows"
  /\ IF HasRow(p)
     THEN rows' = [i \in Ids |-> IF i \in Cascade(GetByPath(p)) THEN NoRow ELSE rows[i]] /\ Goto(t, "purgeSide")
     ELSE End(t) /\ UNCHANGED rows
  /\ UNCHANGED <<objects, trash, side, ids, world, current>>

PurgeSide(t) ==
  LET p == task[t].dst IN
  /\ task[t].pc = "purgeSide"
  /\ versions' = Drop(versions, p) /\ props' = Drop(props, p) /\ shares' = Drop(shares, p)
  /\ Recalc(t, <<task[t].id>>, CASE task[t].op = "move" -> "moveRename"
                                 [] task[t].op = "copy" -> "next"
                                 [] OTHER -> "restoreRename")
  /\ UNCHANGED <<rows, objects, trash, ids, world, current>>
-----------------------------------------------------------------------------
(* DAV.Move                                                                *)

\* Mutation: an existing destination is left to the rename.
MoveReadOver(t, overwrite) ==
  LET w == task[t] IN
  /\ w.pc = "move"
  /\ IF HasRow(w.src) /\ w.dst \in Paths /\ (HasRow(w.dst) => overwrite)
     THEN task' = [task EXCEPT ![t].pc = "moveRename", ![t].parent = rows[GetByPath(w.src)].parent]
     ELSE End(t)
  /\ UNCHANGED <<rows, objects, trash, side, ids, world, current>>

\* The parent the source has is remembered for the sums.
MoveRead(t, overwrite) ==
  LET w == task[t] IN
  /\ w.pc = "move"
  /\ IF HasRow(w.src) /\ w.dst \in Paths /\ (HasRow(w.dst) => overwrite)
     THEN task' = [task EXCEPT ![t].pc = IF HasRow(w.dst) THEN "purge" ELSE "moveRename",
                               ![t].parent = rows[GetByPath(w.src)].parent]
     ELSE End(t)
  /\ UNCHANGED <<rows, objects, trash, side, ids, world, current>>

MoveRename(t) ==
  LET from == FileKey(task[t].src)
      to == FileKey(task[t].dst) IN
  /\ task[t].pc = "moveRename"
  /\ IF CanRename(from, to)
     THEN objects' = Rename(from, to) /\ Goto(t, "moveRows")
     ELSE End(t) /\ UNCHANGED objects
  /\ UNCHANGED <<rows, trash, side, ids, world, current>>

\* RenameSubtree looks both paths up again.
MoveRows(t) ==
  LET w == task[t]
      S == {i \in Live : IsPrefix(w.src, rows[i].path)} IN
  /\ w.pc = "moveRows" /\ Fits(w.src, w.dst)
  /\ IF CanRenameSubtree(w.src, w.dst)
     THEN rows' = RenameSubtree(w.src, w.dst, S) /\ Goto(t, "moveSide")
     ELSE Goto(t, "moveBack") /\ UNCHANGED rows
  /\ UNCHANGED <<objects, trash, side, ids, world, current>>

MoveBack(t) == task[t].pc = "moveBack" /\ RenameBack(t, FileKey(task[t].dst), FileKey(task[t].src))

\* Versions, properties and shares follow.  The first two have a unique
\* index: a row the trash left at the target ends the request there, with
\* the properties; with the versions only when their revisions coincide.
MoveSide(t, coincide) ==
  LET w == task[t]
      stuck == coincide /\ Clash(versions, w.src, w.dst)
      clash == Clash(props, w.src, w.dst) IN
  /\ w.pc = "moveSide"
  /\ versions' = IF stuck THEN versions ELSE Follow(versions, w.src, w.dst)
  /\ props' = IF stuck \/ clash THEN props ELSE Follow(props, w.src, w.dst)
  /\ shares' = IF stuck \/ clash THEN shares ELSE Follow(shares, w.src, w.dst)
  /\ IF ~stuck /\ ~clash /\ HasRow(w.dst)
     THEN Recalc(t, <<w.parent, rows[GetByPath(w.dst)].parent>>, "next")
     ELSE End(t)
  /\ UNCHANGED <<rows, objects, trash, ids, world, current>>
-----------------------------------------------------------------------------
(* DAV.Copy and copyOne                                                    *)

CopyRead(t, overwrite, deep) ==
  LET w == task[t] IN
  /\ w.pc = "copy"
  /\ IF HasRow(w.src) /\ w.dst \in Paths /\ (HasRow(w.dst) => overwrite)
     THEN task' = [task EXCEPT ![t].pc = IF HasRow(w.dst) THEN "purge" ELSE "next",
                               ![t].todo = <<[do |-> "copy", from |-> w.src, at |-> w.dst]>>, ![t].deep = deep]
     ELSE End(t)
  /\ UNCHANGED <<rows, objects, trash, side, ids, world, current>>

\* copyOne of the next pair: a folder is made, a file is read and written.
CopyOne(t) ==
  LET item == Head(task[t].todo) IN
  /\ task[t].pc = "next" /\ task[t].todo # <<>> /\ item.do = "copy"
  /\ IF HasRow(item.from) /\ (~rows[GetByPath(item.from)].dir => Exists(FileKey(item.from)))
     THEN task' = [task EXCEPT ![t].pc = IF rows[GetByPath(item.from)].dir THEN "mkcol" ELSE "put",
                               ![t].at = item.at, ![t].from = item.from, ![t].todo = Tail(@)]
     ELSE End(t)
  /\ UNCHANGED <<rows, objects, trash, side, ids, world, current>>

\* copyProps sets the source's properties on the copy, and the children of
\* a folder are next unless the depth is 0.  PUT and MKCOL themselves end here.
CopyProps(t) ==
  LET w == task[t]
      kids == {rows[i].path : i \in UNION {Children(j) : j \in {k \in At(w.from) : rows[k].dir}}}
      moreOf(S) == [n \in 1 .. Cardinality(S) |->
                      LET q == SetToSeq(S)[n] IN [do |-> "copy", from |-> q, at |-> Append(w.at, Last(q))]] IN
  /\ w.pc = "copyProps"
  /\ IF w.op = "copy"
     THEN /\ props' = {r \in props : r.path # w.at \/ \A s \in props : s.path # w.from}
                      \cup {[path |-> w.at, of |-> r.of] : r \in {s \in props : s.path = w.from}}
          /\ task' = [task EXCEPT ![t].pc = "next", ![t].todo = (IF w.deep THEN moreOf(kids) ELSE <<>>) \o @]
     ELSE Goto(t, "next") /\ UNCHANGED props
  /\ UNCHANGED <<rows, objects, trash, versions, shares, ids, world, current>>
-----------------------------------------------------------------------------
(* Trash.Restore and ingestFromStorage                                     *)

RestoreRead(t, overwrite) ==
  LET w == task[t] IN
  /\ w.pc = "restore"
  /\ IF (\E i \in trash : i.loc = Loc(t)) /\ (HasRow(w.dst) => overwrite)
     THEN task' = [task EXCEPT ![t].pc = IF HasRow(w.dst) THEN "purge" ELSE "restoreRename",
                               ![t].src = (CHOOSE i \in trash : i.loc = Loc(t)).path]
     ELSE End(t)
  /\ UNCHANGED <<rows, objects, trash, side, ids, world, current>>

\* The parent must have a row; then the object comes back, and its keys are
\* the rows to insert: a folder before its children, its sums after them.
RestoreRename(t) ==
  LET w == task[t]
      from == TrashKey(Loc(t))
      shallowFirst(a, b) == Len(a) < Len(b)
      work(do, S) == LET q == SetToSortSeq(S, shallowFirst) IN
                     [n \in 1 .. Len(q) |-> [do |-> do, from |-> NoPath, at |-> w.dst \o SubSeq(q[n], 3, Len(q[n]))]] IN
  /\ w.pc = "restoreRename"
  /\ IF HasRow(Front(w.dst)) /\ CanRename(from, FileKey(w.dst))
     THEN /\ objects' = Rename(from, FileKey(w.dst))
          /\ task' = [task EXCEPT ![t].pc = "next",
                                  ![t].todo = work("insert", Subtree(from))
                                              \o Reverse(work("recalc", {k \in Subtree(from) : IsDir(k)}))]
     ELSE End(t) /\ UNCHANGED objects
  /\ UNCHANGED <<rows, trash, side, ids, world, current>>

\* One key becomes a row; a folder's row that is there already will do.
Ingest(t) ==
  LET p == Head(task[t].todo).at
      dir == IsDir(FileKey(p))
      rest == Tail(task[t].todo) IN
  /\ task[t].pc = "next" /\ task[t].todo # <<>> /\ Head(task[t].todo).do = "insert"
  /\ p \in Paths
  /\ IF CanInsert(p)
     THEN /\ Insert(p, dir, IF dir THEN 0 ELSE 1)
          /\ task' = [task EXCEPT ![t].pc = IF dir THEN "next" ELSE "recalc", ![t].todo = rest,
                                  ![t].up = IF dir THEN <<>> ELSE <<GetByPath(Front(p))>>, ![t].after = "next"]
     ELSE /\ task' = [task EXCEPT ![t].pc = IF dir /\ HasRow(p) THEN "next" ELSE "restoreBack", ![t].todo = rest]
          /\ UNCHANGED <<rows, nextId>>
  /\ UNCHANGED <<objects, trash, side, nextContent, world, current>>

IngestRecalc(t) ==
  LET p == Head(task[t].todo).at IN
  /\ task[t].pc = "next" /\ task[t].todo # <<>> /\ Head(task[t].todo).do = "recalc"
  /\ IF HasRow(p)
     THEN task' = [task EXCEPT ![t].pc = "recalc", ![t].todo = Tail(@),
                               ![t].up = <<rows[GetByPath(p)].parent>>, ![t].after = "next"]
     ELSE Goto(t, "restoreBack")
  /\ UNCHANGED <<rows, objects, trash, side, ids, world, current>>

RestoreBack(t) == task[t].pc = "restoreBack" /\ RenameBack(t, FileKey(task[t].dst), TrashKey(Loc(t)))

\* Versions and properties follow to another destination, as in a move;
\* then the trash row goes.
RestoreSide(t, coincide) ==
  LET w == task[t]
      stuck == coincide /\ Clash(versions, w.src, w.dst)
      clash == Clash(props, w.src, w.dst) IN
  /\ w.pc = "restoreSide"
  /\ versions' = IF stuck THEN versions ELSE Follow(versions, w.src, w.dst)
  /\ props' = IF stuck \/ clash THEN props ELSE Follow(props, w.src, w.dst)
  /\ trash' = IF stuck \/ clash THEN trash ELSE {i \in trash : i.loc # Loc(t)}
  /\ End(t)
  /\ UNCHANGED <<rows, objects, shares, ids, world, current>>
-----------------------------------------------------------------------------
(* Trash.PurgeLocation, by request or for an item past its retention       *)

EmptyRead(t) ==
  /\ task[t].pc = "empty"
  /\ IF \E i \in trash : i.loc = Loc(t)
     THEN task' = [task EXCEPT ![t].pc = "emptyObjects", ![t].src = (CHOOSE i \in trash : i.loc = Loc(t)).path]
     ELSE End(t)
  /\ UNCHANGED <<rows, objects, trash, side, ids, world, current>>

\* deleteStorageTree: children before their directory.
EmptyObject(t) ==
  LET keys == Subtree(TrashKey(Loc(t))) IN
  /\ task[t].pc = "emptyObjects"
  /\ \E k \in keys : /\ CanDelete(k)
                     /\ objects' = Without({k}) /\ current' = current \ {objects[k]}
  /\ UNCHANGED <<rows, trash, side, ids, world, task>>

EmptyRow(t) ==
  /\ task[t].pc = "emptyObjects" /\ ~Exists(TrashKey(Loc(t)))
  /\ trash' = {i \in trash : i.loc # Loc(t)}
  /\ Goto(t, "emptySide")
  /\ UNCHANGED <<rows, objects, side, ids, world, current>>

\* Versions, properties and shares by the path the item once had.
EmptySide(t) ==
  LET p == task[t].src IN
  /\ task[t].pc = "emptySide"
  /\ versions' = Drop(versions, p) /\ props' = Drop(props, p) /\ shares' = Drop(shares, p)
  /\ End(t)
  /\ UNCHANGED <<rows, objects, trash, ids, world, current>>
-----------------------------------------------------------------------------
(* RecalcAncestors: row, children, then the whole row is written back      *)

\* An error in a recalc or an insert: a restore in its ingest is undone.
Ingesting(w) ==
  /\ w.op = "restore"
  /\ (w.pc = "next" /\ w.todo # <<>>) \/ (w.pc \in {"recalc", "recalcWrite"} /\ w.after = "next")

Abort(t) == IF Ingesting(task[t]) THEN Goto(t, "restoreBack") ELSE End(t)

SumOf(i) == MapThenSumSet(LAMBDA j : rows[j].size, Children(i))

RecalcRead(t) ==
  LET i == Head(task[t].up) IN
  /\ task[t].pc = "recalc"
  /\ IF rows[i] = NoRow THEN Abort(t)
     ELSE task' = [task EXCEPT ![t].pc = "recalcWrite", ![t].seen = {[rows[i] EXCEPT !.size = SumOf(i)]}]
  /\ UNCHANGED <<rows, objects, trash, side, ids, world, current>>

\* Mutation: the walk stops at the first folder.
RecalcWriteOne(t) ==
  LET i == Head(task[t].up)
      r == CHOOSE s \in task[t].seen : TRUE
      more == Tail(task[t].up) IN
  /\ task[t].pc = "recalcWrite"
  /\ rows' = IF rows[i] = NoRow THEN rows ELSE [rows EXCEPT ![i] = r]
  /\ task' = [task EXCEPT ![t].seen = {}, ![t].up = more,
                          ![t].pc = IF more = <<>> THEN task[t].after ELSE "recalc"]
  /\ UNCHANGED <<objects, trash, side, ids, world, current>>

RecalcWrite(t) ==
  LET i == Head(task[t].up)
      r == CHOOSE s \in task[t].seen : TRUE
      more == (IF i = 0 THEN <<>> ELSE <<r.parent>>) \o Tail(task[t].up) IN
  /\ task[t].pc = "recalcWrite"
  /\ IF \E j \in Live \ {i} : rows[i] # NoRow /\ rows[j].path = r.path
     THEN Abort(t) /\ UNCHANGED rows
     ELSE /\ rows' = IF rows[i] = NoRow THEN rows ELSE [rows EXCEPT ![i] = r]
          /\ task' = [task EXCEPT ![t].seen = {}, ![t].up = more,
                                  ![t].pc = IF more = <<>> THEN task[t].after ELSE "recalc"]
  /\ UNCHANGED <<objects, trash, side, ids, world, current>>

\* Nothing left to do: a restore goes on to the side tables, everything else
\* is answered with success.
Answer(t) ==
  LET w == task[t] IN
  /\ w.pc = "next" /\ w.todo = <<>>
  /\ IF w.op = "restore"
     THEN Goto(t, "restoreSide") /\ UNCHANGED current
     ELSE End(t) /\ current' = (current \cup w.new) \ w.old
  /\ UNCHANGED <<rows, objects, trash, side, ids, world>>
-----------------------------------------------------------------------------
\* Service.Create and PROPPATCH, as far as the tables here go.
ShareFile(p) ==
  /\ "share" \in scene.ops /\ requests < scene.requests /\ HasRow(p)
  /\ scene.apart => Apart("share", p, NoPath)
  /\ shares' = shares \cup {[path |-> p, of |-> GetByPath(p)]}
  /\ requests' = requests + 1
  /\ UNCHANGED <<rows, objects, trash, versions, props, ids, sec, faults, current, task, scene>>

SetProp(p) ==
  /\ "prop" \in scene.ops /\ requests < scene.requests /\ HasRow(p)
  /\ scene.apart => Apart("prop", p, NoPath)
  /\ props' = {r \in props : r.path # p} \cup {[path |-> p, of |-> GetByPath(p)]}
  /\ requests' = requests + 1
  /\ UNCHANGED <<rows, objects, trash, versions, shares, ids, sec, faults, current, task, scene>>

\* A call of the store or the database fails: the request takes its error
\* path.  RenameSubtree may have updated some rows by then.
OnError(pc) == CASE pc = "mkcolRow" -> "undo"
                 [] pc = "trashRow" -> "trashBack"
                 [] pc = "moveRows" -> "moveBack"
                 [] OTHER -> "idle"

Writing(w) == w.op \in {"create", "overwrite"} \/ w.pc \in {"put", "putStore", "putRow"}

Breaks(t) ==
  LET w == task[t] IN
  /\ faults < scene.faults
  /\ w.pc \notin {"idle", "undo", "trashBack", "moveBack", "restoreBack"} /\ ~Writing(w)
  /\ IF OnError(w.pc) # "idle"
     THEN task' = [task EXCEPT ![t].pc = OnError(w.pc), ![t].after = "idle"]
     ELSE Abort(t)
  /\ \/ UNCHANGED rows
     \/ /\ w.pc = "moveRows" /\ CanRenameSubtree(w.src, w.dst)
        /\ \E S \in SUBSET {i \in Live : IsPrefix(w.src, rows[i].path)} :
             rows' = RenameSubtree(w.src, w.dst, S)
  /\ faults' = faults + 1
  /\ UNCHANGED <<objects, trash, side, ids, sec, requests, current, scene>>

\* The process dies; it is back after a second at the earliest.
Crash ==
  /\ faults < scene.faults
  /\ \A t \in Tasks : ~Writing(task[t])
  /\ \E t \in Tasks : task[t].pc # "idle"
  /\ task' = [t \in Tasks |-> Idle]
  /\ faults' = faults + 1 /\ sec' = sec + 1
  /\ UNCHANGED <<rows, objects, trash, side, ids, requests, current, scene>>

Arrive(t) ==
  \/ \E p \in scene.paths :
       \/ ~HasRow(p) /\ Request(t, "create", p, NoPath, {}, "put")
       \/ HasRow(p) /\ Request(t, "overwrite", p, NoPath, {}, "put")
       \/ ~HasRow(p) /\ Request(t, "mkcol", p, NoPath, {}, "mkcol")
       \/ HasRow(p) /\ Request(t, "remkcol", p, NoPath, {}, "mkcol")
       \/ Request(t, "delete", p, NoPath, {}, "delete")
  \/ \E p, q \in scene.paths : /\ Fits(p, q) /\ (IsPrefix(q, p) => scene.onto)
                         /\ \/ Request(t, "move", p, q, {}, "move")
                            \/ Request(t, "copy", p, q, {}, "copy")
  \/ \E i \in trash : \/ \E q \in scene.paths :
                           /\ \A l \in Subtree(TrashKey(i.loc)) : q \o SubSeq(l, 3, Len(l)) \in Paths
                           /\ Request(t, "restore", i.path, q, {i.loc}, "restore")
                      \/ Request(t, "empty", i.path, NoPath, {i.loc}, "empty")

Step(t) ==
  \/ PutRead(t) \/ PutStore(t) \/ PutRow(t) \/ MkcolStore(t) \/ MkcolRow(t) \/ Undo(t)
  \/ TrashPick(t) \/ TrashRename(t) \/ TrashRow(t) \/ TrashBack(t) \/ DeleteRows(t) \/ DropShares(t)
  \/ PurgeRead(t) \/ PurgeObject(t) \/ PurgeRows(t) \/ PurgeSide(t)
  \/ \E b \in BOOLEAN : MoveRead(t, b) \/ RestoreRead(t, b) \/ MoveSide(t, b) \/ RestoreSide(t, b)
  \/ \E b, deep \in BOOLEAN : CopyRead(t, b, deep)
  \/ MoveRename(t) \/ MoveRows(t) \/ MoveBack(t) \/ CopyOne(t) \/ CopyProps(t)
  \/ RestoreRename(t) \/ Ingest(t) \/ IngestRecalc(t) \/ RestoreBack(t)
  \/ EmptyRead(t) \/ EmptyObject(t) \/ EmptyRow(t) \/ EmptySide(t)
  \/ RecalcRead(t) \/ RecalcWrite(t) \/ Answer(t)

Next ==
  \/ \E t \in Tasks : Arrive(t) \/ Step(t) \/ Breaks(t)
  \/ \E p \in scene.paths : ShareFile(p) \/ SetProp(p)
  \/ Crash

Spec == Init /\ [][Next]_vars
-----------------------------------------------------------------------------
(* Properties                                                              *)

Quiet == \A t \in Tasks : task[t].pc = "idle"
Clean == Quiet /\ faults = 0

\* The known weak spots, left to scenes of their own: MKCOL of a taken path,
\* requests that overlap in one subtree, a destination that contains the
\* source, and rows left at a path by trashing.
Orderly == scene.apart /\ ~scene.onto /\ "remkcol" \notin scene.ops
NoLeftovers == scene.ops \cap {"prop", "overwrite"} = {}

\* Without errors, when all requests are answered, every row has its object
\* and every stored file its row.  (The order of store and table in each
\* request and the compensations after a refused row.)
RowsMatchStore ==
  Clean /\ Orderly =>
    /\ \A i \in Live \ {0} : LET k == FileKey(rows[i].path) IN Exists(k) /\ (rows[i].dir <=> objects[k] = 0)
    /\ \A k \in DOMAIN objects : objects[k] # 0 /\ k[1] = "files" => HasRow(Tail(k))

\* Whatever call fails and wherever the process dies, an acknowledged
\* content is still stored unless a request asked to destroy or replace it:
\* no rename lands on a file, no compensation deletes what was there before.
ContentKept ==
  Orderly => \A c \in current : \/ \E k \in DOMAIN objects : objects[k] = c
                                \/ \E v \in versions : v.content = c

\* A share never comes to point at another file than the one that was
\* shared, however files are moved, trashed, restored and created anew.
\* (Move's RenamePath, and DeleteByPath of trash and purge.)
NoFalseShare ==
  Clean /\ NoLeftovers => \A s \in shares : HasRow(s.path) => GetByPath(s.path) = s.of

\* One request at a time leaves every folder with the size of what is in
\* it.  (RecalcAncestors from every parent a request has changed.)
SizesRight ==
  Clean /\ NoLeftovers /\ Cardinality(scene.tasks) = 1 =>
    \A i \in Live : rows[i].dir => rows[i].size = SumOf(i)

\* The tree is sound: the variables have their types, rows and objects
\* match, and shares point at what was shared.
TreeSound == TypeOK /\ RowsMatchStore /\ NoFalseShare
=============================================================================
