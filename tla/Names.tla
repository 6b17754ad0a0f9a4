------------------------------- MODULE Names -------------------------------
(***************************************************************************)
(* Encrypted file names (files/nametranslate*.go, namesweep.go,            *)
(* ciphermount.go, storage/encrypt/nametoken.go).                          *)
(*                                                                         *)
(* One owner, called the owner, and one sharee.  A stored name is a pair   *)
(* <<k, n>>: k = 0 is the name n in clear, any other k is the token of n   *)
(* under the key k of the folder that holds it.  Tokens are deterministic, *)
(* so a path is looked up by the tokens of its segments.  Object keys in   *)
(* the storage stay in clear, except that a trashed object is stored under *)
(* its location id, which embeds the stored name.                          *)
(*                                                                         *)
(* An operation is two steps: what it checks, does to the storage and      *)
(* translates, and what it then writes to the tables with the translated   *)
(* path.  A sweep converts the whole tree between clear and encrypted      *)
(* names while requests go on.                                             *)
(***************************************************************************)
EXTENDS Integers, FiniteSets, Sequences, SequencesExt

CONSTANTS
  Scenes,      \* the situations to look at: records of operations and bounds
  Sweeps,      \* sweep processes: the command line and the login hook
  Dirs,        \* names folders have
  Leafs        \* names files have

ASSUME NamesAssumption ==
  /\ Dirs \cap Leafs = {}
  /\ \A s \in Scenes : s.ops \in Nat /\ s.sweeps \in Nat /\ s.scheme \in {0, 1}

VARIABLES
  scene,       \* the situation of this behaviour; it never changes
  scheme,      \* users.name_scheme
  rows,        \* files: id -> row; the root has id 0
  aux,         \* file_locks, file_versions, file_properties and uploads: id -> [kind, path, of]
  trash,       \* trash_items: id -> [path, loc, of]
  share,       \* the share row of a folder, or NoShare
  wraps,       \* keys the sharee has a wrap of
  obj,         \* storage: clear path -> content, Folder for a folder
  tobj,        \* storage: location id -> the objects under it by clear path below it
  op,          \* the request under way
  sw,          \* the sweeps under way
  hist         \* counters, and what must be left out of the properties

vars == <<scene, scheme, rows, aux, trash, share, wraps, obj, tobj, op, sw, hist>>

Folder == 0
NoRow == -1
Lost == << <<-1, "lost">> >>      \* a path that did not translate
Bad == "?"                        \* a token read as text, or that fails to authenticate
Paths == {<<n>> : n \in Dirs \cup Leafs} \cup {<<d, n>> : d \in Dirs, n \in Leafs} \cup {p \in Dirs \X Dirs : p[1] # p[2]}
NoShare == [on |-> FALSE, path |-> <<>>, key |-> 0, abs |-> <<>>]

Drop(f, S) == [x \in DOMAIN f \ S |-> f[x]]
Put(f, k, v) == [x \in DOMAIN f \cup {k} |-> IF x = k THEN v ELSE f[x]]
Rebase(s, from, to) == to \o SubSeq(s, Len(from) + 1, Len(s))
Under(f, p) == {x \in DOMAIN f : IsPrefix(p, x)}
Clear(p) == [i \in DOMAIN p |-> <<0, p[i]>>]
\* What a stored path reads as when nothing decrypts it.
Text(sp) == [i \in DOMAIN sp |-> IF sp[i][1] = 0 THEN sp[i][2] ELSE Bad]

-----------------------------------------------------------------------------
(* storage/encrypt/nametoken.go *)

EncryptName(k, n) == <<k, n>>
DecryptName(k, t) == IF k # 0 /\ t[1] = k THEN t[2] ELSE Bad
SealPath(k, p) == [key |-> k, abs |-> p]
OpenPath(k, s) == IF s.key = k THEN s.abs ELSE <<Bad>>

-----------------------------------------------------------------------------
(* files/nametranslate.go, over the rows R of a user of scheme s *)

RowAt(R, sp) == LET S == {i \in DOMAIN R : R[i].path = sp} IN IF S = {} THEN NoRow ELSE CHOOSE i \in S : TRUE
IsDirAt(R, sp) == RowAt(R, sp) # NoRow /\ R[RowAt(R, sp)].dir

\* Segments from the anchor on; a missing or keyless folder on the way loses the path.
CipherPathUnder(R, anchor, rel) ==
  LET f[i \in 0 .. Len(rel)] ==
        IF i = 0 THEN anchor
        ELSE IF IsDirAt(R, f[i - 1]) /\ R[RowAt(R, f[i - 1])].key # 0
             THEN Append(f[i - 1], EncryptName(R[RowAt(R, f[i - 1])].key, rel[i]))
             ELSE Lost
  IN f[Len(rel)]
CipherPath(R, s, p) == IF s = 0 THEN Clear(p) ELSE CipherPathUnder(R, <<>>, p)

\* The ancestors of a row, by parent id; rows in clear pass through.
PlainPathOf(R, id) ==
  LET f[i \in DOMAIN R] ==
        IF i = 0 THEN <<>>
        ELSE IF R[i].par \notin DOMAIN R THEN <<Bad>>
        ELSE Append(f[R[i].par], IF R[i].sch = 1 THEN DecryptName(R[R[i].par].key, Last(R[i].path)) ELSE Text(R[i].path)[Len(R[i].path)])
  IN f[id]

\* "missing": no folder row at a prefix; "integrity": a token that does not open there.
PlainPath(R, s, sp) ==
  IF s = 0 THEN [st |-> "ok", p |-> Text(sp)]
  ELSE LET Up(i) == RowAt(R, SubSeq(sp, 1, i - 1))
           Name(i) == DecryptName(R[Up(i)].key, sp[i])
           Fault(i) == IF Up(i) = NoRow THEN "missing" ELSE IF ~R[Up(i)].dir THEN "notdir" ELSE IF Name(i) = Bad THEN "integrity" ELSE "ok"
           F == {i \in DOMAIN sp : Fault(i) # "ok"}
       IN IF F = {} THEN [st |-> "ok", p |-> [i \in DOMAIN sp |-> Name(i)]]
          ELSE [st |-> Fault(CHOOSE i \in F : \A j \in F : i <= j), p |-> Text(sp)]

GetByPath(p) == RowAt(rows, CipherPath(rows, scheme, p))

\* TrashLocationBase with the "-N" of uniqueLocationID: all deletions are in one second.
UniqueLocation(base) ==
  LET taken == {trash[t].loc : t \in DOMAIN trash}
      free == {n \in 0 .. Cardinality(taken) : <<base, n>> \notin taken}
  IN <<base, CHOOSE n \in free : \A m \in free : n <= m>>

\* ShareCipherPath and SealShareMeta: the row the grant writes, sealed under the target's own key.
SealShareMeta(p) ==
  LET ct == CipherPath(rows, scheme, p)
      seal == IF scheme = 0 THEN SealPath(0, <<>>) ELSE SealPath(rows[RowAt(rows, ct)].key, p)
  IN [on |-> TRUE, path |-> ct, key |-> seal.key, abs |-> seal.abs]
OpenShareMeta(sh) ==
  IF sh.key = 0 THEN Text(sh.path)
  ELSE IF RowAt(rows, sh.path) = NoRow THEN <<Bad>> ELSE OpenPath(rows[RowAt(rows, sh.path)].key, sh)

WrapNothing(sp, k) == UNCHANGED wraps
\* The covering share: the sharee gets a wrap of a key born below it.
WrapForWrite(sp, k) == wraps' = IF share.on /\ IsPrefix(share.path, sp) THEN wraps \cup {k} ELSE wraps
FolderKeys(R, sp) == {R[i].key : i \in {j \in DOMAIN R : R[j].dir /\ IsPrefix(sp, R[j].path)}} \ {0}

-----------------------------------------------------------------------------
(* The situations: a folder with a file in it, a trashed file of that folder, *)
(* a version and a property of the file, and a share of the folder.           *)

NoOp == [k |-> "none", p |-> <<>>, q |-> <<>>, ct |-> <<>>, cq |-> <<>>, id |-> 0, par |-> 0, key |-> 0, sch |-> 0, objs |-> <<>>, mount |-> FALSE, kind |-> "none"]
Resting == [pc |-> "idle", enc |-> TRUE, rows |-> <<>>, minted |-> {}, new |-> <<>>, aux |-> <<>>, trash |-> <<>>, share |-> NoShare, moved |-> <<>>, todo |-> {}, since |-> 0]

Row(par, path, key, dir, sch) == [par |-> par, path |-> path, key |-> key, dir |-> dir, sch |-> sch]

Init ==
  /\ scene \in Scenes
  /\ scheme = scene.scheme
  /\ LET s == scene.scheme
         k(i) == IF s = 1 THEN i ELSE 0
         d == CHOOSE n \in Dirs : TRUE
         x == CHOOSE n \in Leafs : TRUE
         sd == <<EncryptName(k(1), d)>>
         sx == Append(sd, EncryptName(k(2), x))
     IN /\ rows = [i \in 0 .. 2 |-> IF i = 0 THEN Row(NoRow, <<>>, k(1), TRUE, 0) ELSE IF i = 1 THEN Row(0, sd, k(2), TRUE, s) ELSE Row(1, sx, 0, FALSE, s)]
        /\ obj = [p \in {<<d>>, <<d, x>>} |-> IF p = <<d>> THEN Folder ELSE 1]
        /\ trash = [t \in {1} |-> [path |-> sx, loc |-> <<Last(sx), 0>>, of |-> 2]]
        /\ tobj = [l \in {<<Last(sx), 0>>} |-> [r \in {<<>>} |-> 2]]
        /\ aux = [a \in {1, 2} |-> [kind |-> IF a = 1 THEN "version" ELSE "prop", path |-> sx, of |-> 1]]
        /\ share = IF scene.shared THEN [on |-> TRUE, path |-> sd, key |-> k(2), abs |-> IF s = 1 THEN <<d>> ELSE <<>>] ELSE NoShare
        /\ wraps = IF scene.shared /\ s = 1 THEN {2} ELSE {}
  /\ op = NoOp
  /\ sw = [i \in Sweeps |-> Resting]
  /\ hist = [id |-> 2, key |-> 2, ops |-> 0, sweeps |-> 0, changes |-> 0, torn |-> FALSE, crossed |-> FALSE, crashed |-> FALSE, brought |-> {}, half |-> {}]

-----------------------------------------------------------------------------
(* Requests of the owner. *)

\* resolveUser: the first request mints the key of the root.
ClaimRoot ==
  /\ rows[0].key = 0
  /\ rows' = [rows EXCEPT ![0].key = hist.key + 1]
  /\ hist' = [hist EXCEPT !.key = @ + 1, !.changes = @ + 1]
  /\ UNCHANGED <<scene, scheme, aux, trash, share, wraps, obj, tobj, op, sw>>

Enter(kind, v) ==
  /\ op.k = "none" /\ kind \in scene.kinds /\ hist.ops < scene.ops /\ rows[0].key # 0
  /\ op' = [v EXCEPT !.k = kind]
Counted(h) == [h EXCEPT !.ops = @ + 1]
Return == op' = NoOp
\* What a request writes; sweeps that had loaded the tree before are now behind.
Wrote(h) == [h EXCEPT !.changes = @ + 1]

ParentOf(p) == Front(p)
HasParent(p) == Len(p) = 1 \/ ParentOf(p) \in DOMAIN obj
SubObjs(p) == [r \in {SubSeq(x, Len(p) + 1, Len(x)) : x \in Under(obj, p)} |-> obj[p \o r]]
WithObjs(o, p, objs) == [x \in DOMAIN o \cup {p \o r : r \in DOMAIN objs} |-> IF IsPrefix(p, x) /\ SubSeq(x, Len(p) + 1, Len(x)) \in DOMAIN objs
                                                                             THEN objs[SubSeq(x, Len(p) + 1, Len(x))] ELSE o[x]]

(* mkdirOwned; the name is not taken (FileTree looks at taken ones). *)
MkdirOwned(p) ==
  /\ p \in Paths \ DOMAIN obj /\ Last(p) \in Dirs /\ HasParent(p)
  /\ Enter("mkdir", [NoOp EXCEPT !.p = p, !.key = hist.key + 1, !.sch = scheme, !.ct = CipherPath(rows, scheme, p)])
  /\ obj' = Put(obj, p, Folder)
  /\ hist' = Counted([hist EXCEPT !.key = @ + 1])
  /\ UNCHANGED <<scene, scheme, rows, aux, trash, share, wraps, tobj, sw>>

(* write: a new file, or the row of an old one read for its update. *)
WriteOwned(p) ==
  /\ p \in Paths /\ Last(p) \in Leafs /\ HasParent(p)
  /\ IsDirAt(rows, CipherPath(rows, scheme, ParentOf(p)))
  /\ LET old == GetByPath(p) IN
     Enter("put", [NoOp EXCEPT !.p = p, !.sch = scheme, !.ct = CipherPath(rows, scheme, p), !.id = IF old = NoRow THEN 0 ELSE old, !.par = IF old = NoRow THEN 0 ELSE rows[old].par,
                               !.q = IF old = NoRow THEN <<>> ELSE PlainPathOf(rows, old), !.kind = IF old # NoRow /\ rows[old].sch = 1 THEN "token" ELSE "clear"])
  /\ obj' = Put(obj, p, IF p \in DOMAIN obj THEN obj[p] ELSE hist.id + 1)
  /\ hist' = Counted(hist)
  /\ UNCHANGED <<scene, scheme, rows, aux, trash, share, wraps, tobj, sw>>

Fresh == hist.id + 1
InsertRow(R, id, sp, key, dir, sch) == Put(R, id, Row(RowAt(R, ParentOf(sp)), sp, key, dir, sch))
CanInsert(sp) == sp # Lost /\ RowAt(rows, sp) = NoRow /\ IsDirAt(rows, ParentOf(sp))
CompensateDelete(p) == obj' = Drop(obj, Under(obj, p))

(* TranslatingStore.Insert of the two above, with what follows it. *)
Insert ==
  /\ op.k \in {"mkdir", "put"} /\ op.id = 0
  /\ IF CanInsert(op.ct)
     THEN /\ rows' = InsertRow(rows, Fresh, op.ct, op.key, op.k = "mkdir", op.sch)
          /\ IF op.k = "mkdir" THEN WrapForWrite(IF op.mount THEN op.ct ELSE CipherPath(rows, scheme, op.p), op.key) ELSE UNCHANGED wraps
          /\ hist' = Wrote([hist EXCEPT !.id = @ + 1])
          /\ UNCHANGED obj
     ELSE /\ CompensateDelete(op.p)
          /\ hist' = [hist EXCEPT !.id = @ + 1]
          /\ UNCHANGED <<rows, wraps>>
  /\ Return
  /\ UNCHANGED <<scene, scheme, aux, trash, share, tobj, sw>>

(* UpdateMeta over reCipherRow: an encrypted row is written back under its parent's present path, *)
(* a row in clear as it was read; through a mount, the stored path as it was read.               *)
UpdateMeta ==
  /\ op.k = "put" /\ op.id # 0
  /\ IF op.kind = "token" /\ ~op.mount /\ op.par \notin DOMAIN rows
     THEN CompensateDelete(op.p) /\ UNCHANGED <<rows, hist>>
     ELSE /\ LET up == rows[op.par]
                 sp == IF op.mount THEN op.ct
                       ELSE IF op.kind = "token" THEN Append(up.path, EncryptName(up.key, Last(op.q))) ELSE Clear(op.q)
             IN rows' = IF op.id \in DOMAIN rows THEN [rows EXCEPT ![op.id].path = sp, ![op.id].par = op.par] ELSE rows
          /\ hist' = Wrote(hist)
          /\ UNCHANGED obj
  /\ Return
  /\ UNCHANGED <<scene, scheme, aux, trash, share, wraps, tobj, sw>>

(* Move, to a free name: the objects first. *)
Move(p, q) ==
  /\ p \in DOMAIN obj /\ q \in Paths \ DOMAIN obj /\ HasParent(q) /\ ~IsPrefix(p, q)
  /\ (Last(q) \in Dirs) = (obj[p] = Folder) /\ \A x \in Under(obj, p) : Rebase(x, p, q) \in Paths
  /\ GetByPath(p) # NoRow /\ GetByPath(q) = NoRow
  /\ Enter("move", [NoOp EXCEPT !.p = p, !.q = q, !.ct = CipherPath(rows, scheme, p), !.cq = CipherPath(rows, scheme, q), !.objs = SubObjs(p)])
  /\ obj' = WithObjs(Drop(obj, Under(obj, p)), q, SubObjs(p))
  /\ hist' = Counted(hist)
  /\ UNCHANGED <<scene, scheme, rows, aux, trash, share, wraps, tobj, sw>>

\* RenameSubtree of the rows, then RenamePath of what is keyed by the path.
Rebased(f, from, to, ids) == [x \in DOMAIN f |-> IF x \in ids /\ IsPrefix(from, f[x].path) THEN [f[x] EXCEPT !.path = Rebase(@, from, to)] ELSE f[x]]
RenameMarks(f, from, to, kinds) == Rebased(f, from, to, {a \in DOMAIN f : f[a].kind \in kinds})
KeepShareMeta(sh, p, q) == sh
\* The sealed path follows; a rename changes no key, so it still opens.
ResealShareMeta(sh, p, q) == IF sh.key = 0 THEN sh ELSE [sh EXCEPT !.abs = Rebase(@, p, q)]
RenameSubtree ==
  /\ op.k = "move"
  /\ IF RowAt(rows, op.ct) # NoRow /\ CanInsert(op.cq)
     THEN LET moved == [Rebased(rows, op.ct, op.cq, DOMAIN rows) EXCEPT ![RowAt(rows, op.ct)].par = RowAt(rows, ParentOf(op.cq))]
              ct == CipherPath(moved, scheme, op.p)
              cq == CipherPath(moved, scheme, op.q)
          IN /\ rows' = moved
             /\ aux' = RenameMarks(aux, ct, cq, {"lock", "version", "prop"})
             /\ share' = IF share.on /\ IsPrefix(ct, share.path) THEN ResealShareMeta([share EXCEPT !.path = Rebase(@, ct, cq)], op.p, op.q) ELSE share
             /\ hist' = Wrote([hist EXCEPT !.brought = @ \cup FolderKeys(rows, op.ct)])
             /\ UNCHANGED obj
     ELSE /\ obj' = WithObjs(Drop(obj, Under(obj, op.q)), op.p, op.objs)
          /\ UNCHANGED <<rows, aux, share, hist>>
  /\ Return
  /\ UNCHANGED <<scene, scheme, trash, wraps, tobj, sw>>

(* MoveToTrash *)
Trashing(p, ct, base, mount) ==
  LET loc == UniqueLocation(base) IN
  /\ Enter("trash", [NoOp EXCEPT !.p = p, !.ct = ct, !.cq = loc, !.mount = mount, !.id = obj[p]])
  /\ tobj' = Put(tobj, loc, SubObjs(p))
  /\ obj' = Drop(obj, Under(obj, p))
  /\ hist' = Counted(hist)
  /\ UNCHANGED <<scene, scheme, rows, aux, trash, share, wraps, sw>>
TrashInClear(p) ==
  /\ p \in DOMAIN obj /\ GetByPath(p) # NoRow
  /\ Trashing(p, CipherPath(rows, scheme, p), <<0, Last(p)>>, FALSE)
MoveToTrash(p) ==
  /\ p \in DOMAIN obj /\ GetByPath(p) # NoRow
  /\ LET ct == CipherPath(rows, scheme, p) IN Trashing(p, ct, Last(ct), FALSE)

\* The trash row, then the rows below by their parents, the locks and the shares.
LocksAt(sp) == {a \in DOMAIN aux : aux[a].kind = "lock" /\ IsPrefix(sp, aux[a].path)}
RowAlone(R, id) == {id}
Below(R, id) == LET f[n \in 0 .. 3] == IF n = 0 THEN {id} ELSE f[n - 1] \cup {i \in DOMAIN R : R[i].par \in f[n - 1]} IN f[3]
TrashRow ==
  /\ op.k = "trash"
  /\ LET ct == IF op.mount THEN op.ct ELSE CipherPath(rows, scheme, op.p) IN
     /\ trash' = Put(trash, Fresh, [path |-> op.ct, loc |-> op.cq, of |-> op.id])
     /\ IF RowAt(rows, ct) = NoRow THEN UNCHANGED <<rows, aux, share>>
        ELSE /\ rows' = Drop(rows, Below(rows, RowAt(rows, ct)))
             /\ aux' = Drop(aux, LocksAt(ct))
             /\ share' = IF share.on /\ IsPrefix(ct, share.path) THEN NoShare ELSE share
  /\ hist' = Wrote([hist EXCEPT !.id = @ + 1])
  /\ Return
  /\ UNCHANGED <<scene, scheme, wraps, obj, tobj, sw>>

(* Restore to q.  An item whose folder is gone reads as its stored text. *)
DecryptItem(t) == PlainPath(rows, scheme, trash[t].path)
Restore(t, q) ==
  /\ t \in DOMAIN trash /\ DecryptItem(t).st \in {"ok", "missing"}
  /\ q \in Paths \ DOMAIN obj /\ (trash[t].of = Folder) = (Last(q) \in Dirs)
  /\ trash[t].loc \in DOMAIN tobj /\ \A r \in DOMAIN tobj[trash[t].loc] : q \o r \in Paths
  /\ GetByPath(q) = NoRow /\ IsDirAt(rows, CipherPath(rows, scheme, ParentOf(q))) /\ HasParent(q)
  /\ Enter("restore", [NoOp EXCEPT !.p = DecryptItem(t).p, !.q = q, !.id = t, !.cq = trash[t].loc, !.kind = DecryptItem(t).st, !.objs = tobj[trash[t].loc]])
  /\ obj' = WithObjs(obj, q, tobj[trash[t].loc])
  /\ tobj' = Drop(tobj, {trash[t].loc})
  /\ hist' = Counted(hist)
  /\ UNCHANGED <<scene, scheme, rows, aux, trash, share, wraps, sw>>

\* ingestFromStorage: a row for every object, parents first, each folder with a key of its own.
Ingest(R, s, q, objs) ==
  LET Key(r, n) == IF objs[r] = Folder THEN hist.key + n ELSE 0
      top == InsertRow(R, Fresh, CipherPath(R, s, q), Key(<<>>, 1), objs[<<>>] = Folder, s)
      kids == SetToSeq(DOMAIN objs \ {<<>>})
  IN [i \in DOMAIN top \cup {Fresh + j : j \in DOMAIN kids} |->
        IF i <= Fresh THEN top[i]
        ELSE LET r == kids[i - Fresh] IN Row(Fresh, CipherPath(top, s, q \o r), Key(r, i - Fresh + 1), objs[r] = Folder, s)]
IngestFromStorage ==
  /\ op.k = "restore"
  /\ IF CanInsert(CipherPath(rows, scheme, op.q))
     THEN LET R == Ingest(rows, scheme, op.q, op.objs)
              same == op.kind = "ok" /\ op.q = op.p
              \* The text of a path whose folder is gone does not translate again.
              ct == CipherPath(R, scheme, op.p)
          IN /\ rows' = R
             /\ wraps' = IF share.on THEN wraps \cup {k \in FolderKeys(R, share.path) : k > hist.key} ELSE wraps
             /\ aux' = IF same \/ ct = Lost \/ op.kind # "ok" THEN aux
                       ELSE RenameMarks(aux, ct, CipherPath(R, scheme, op.q), {"version", "prop"})
             /\ trash' = IF op.kind # "ok" THEN trash ELSE Drop(trash, {op.id})
             /\ hist' = Wrote([hist EXCEPT !.id = @ + 3, !.key = @ + 3, !.half = IF op.kind # "ok" THEN @ \cup {op.id} ELSE @])
             /\ UNCHANGED <<obj, tobj>>
     ELSE /\ obj' = Drop(obj, Under(obj, op.q))
          /\ tobj' = Put(tobj, op.cq, op.objs)
          /\ UNCHANGED <<rows, wraps, aux, trash, hist>>
  /\ Return
  /\ UNCHANGED <<scene, scheme, share, sw>>

(* A lock, a version, a property or an upload of p, by its translated path. *)
MarkAt(kind, p) ==
  /\ p \in DOMAIN obj /\ CipherPath(rows, scheme, p) # Lost
  /\ \A a \in DOMAIN aux : aux[a].kind # kind
  /\ Enter("mark", [NoOp EXCEPT !.p = p, !.kind = kind, !.ct = CipherPath(rows, scheme, p)])
  /\ hist' = Counted(hist)
  /\ UNCHANGED <<scene, scheme, rows, aux, trash, share, wraps, obj, tobj, sw>>
LockInsert(p) == MarkAt("lock", p)
VersionInsert(p) == MarkAt("version", p)
PropSet(p) == MarkAt("prop", p)
UploadCreate(p) == MarkAt("upload", p)
MarkRow ==
  /\ op.k = "mark"
  /\ aux' = Put(aux, Fresh, [kind |-> op.kind, path |-> op.ct, of |-> IF op.p \in DOMAIN obj THEN obj[op.p] ELSE Folder])
  /\ hist' = Wrote([hist EXCEPT !.id = @ + 1])
  /\ Return
  /\ UNCHANGED <<scene, scheme, rows, trash, share, wraps, obj, tobj, sw>>

(* A grant of a folder: the sealed row, then a wrap of every folder key below. *)
Grant(p) ==
  /\ ~share.on /\ p \in DOMAIN obj /\ obj[p] = Folder /\ GetByPath(p) # NoRow
  /\ Enter("grant", [NoOp EXCEPT !.q = SealShareMeta(p).abs, !.ct = SealShareMeta(p).path, !.key = SealShareMeta(p).key])
  /\ hist' = Counted(hist)
  /\ UNCHANGED <<scene, scheme, rows, aux, trash, share, wraps, obj, tobj, sw>>
GrantRow ==
  /\ op.k = "grant"
  /\ share' = [on |-> TRUE, path |-> op.ct, key |-> op.key, abs |-> op.q]
  /\ wraps' = wraps \cup FolderKeys(rows, op.ct)
  /\ hist' = Wrote(hist)
  /\ Return
  /\ UNCHANGED <<scene, scheme, rows, aux, trash, obj, tobj, sw>>

-----------------------------------------------------------------------------
(* The sharee, through a mount into an encrypted tree (files/ciphermount.go): *)
(* object keys from the sealed path, rows by the tokens below the share root. *)

MountOpens == share.on /\ share.key # 0 /\ RowAt(rows, share.path) # NoRow /\ rows[RowAt(rows, share.path)].key \in wraps
PlainTarget(n) == Append(OpenShareMeta(share), n)
CipherShareTarget(n) == CipherPathUnder(rows, share.path, <<n>>)
\* checkLockCipherMount looks from the target up to the mount, and no further.
UnlockedBelow(sp) == \A a \in DOMAIN aux : aux[a].kind = "lock" => ~(IsPrefix(aux[a].path, sp) /\ IsPrefix(share.path, aux[a].path))

\* statCipherShare and listCipherShare: the children of a folder, under the keys the sharee holds.
ListCipherShare(i) == {IF rows[i].key \in wraps THEN DecryptName(rows[i].key, Last(rows[j].path)) ELSE Bad : j \in {m \in DOMAIN rows : rows[m].par = i}}

MkdirCipherMount(n) ==
  LET p == PlainTarget(n) ct == CipherShareTarget(n) IN
  /\ MountOpens /\ p \in Paths \ DOMAIN obj /\ n \in Dirs /\ HasParent(p) /\ UnlockedBelow(ct)
  /\ Enter("mkdir", [NoOp EXCEPT !.p = p, !.ct = ct, !.key = hist.key + 1, !.sch = 1, !.mount = TRUE])
  /\ "mount" \in scene.kinds
  /\ obj' = Put(obj, p, Folder)
  /\ hist' = Counted([hist EXCEPT !.key = @ + 1])
  /\ UNCHANGED <<scene, scheme, rows, aux, trash, share, wraps, tobj, sw>>

\* An overwrite takes a version under the stored path first.
WriteCipherMount(n) ==
  LET p == PlainTarget(n) ct == CipherShareTarget(n) old == RowAt(rows, CipherShareTarget(n)) IN
  /\ MountOpens /\ p \in Paths /\ n \in Leafs /\ HasParent(p) /\ UnlockedBelow(ct)
  /\ Enter("put", [NoOp EXCEPT !.p = p, !.ct = ct, !.sch = 1, !.mount = TRUE, !.id = IF old = NoRow THEN 0 ELSE old, !.par = IF old = NoRow THEN 0 ELSE rows[old].par])
  /\ "mount" \in scene.kinds
  /\ aux' = IF old = NoRow THEN aux ELSE Put(aux, Fresh, [kind |-> "version", path |-> ct, of |-> IF p \in DOMAIN obj THEN obj[p] ELSE Folder])
  /\ obj' = Put(obj, p, IF p \in DOMAIN obj THEN obj[p] ELSE hist.id + 1)
  /\ hist' = Counted(IF old = NoRow THEN hist ELSE Wrote([hist EXCEPT !.id = @ + 1]))
  /\ UNCHANGED <<scene, scheme, rows, trash, share, wraps, tobj, sw>>

RemoveCipherMount(n) ==
  LET p == PlainTarget(n) ct == CipherShareTarget(n) IN
  /\ MountOpens /\ p \in DOMAIN obj /\ RowAt(rows, ct) # NoRow /\ UnlockedBelow(ct)
  /\ "mount" \in scene.kinds
  /\ Trashing(p, ct, Last(ct), TRUE)

-----------------------------------------------------------------------------
(* The sweeps (files/namesweep.go). *)

SweepTo(i, v) == sw' = [sw EXCEPT ![i] = v]

\* run, up to loadTree; a user already in the target scheme is skipped.
LoadTree(i, enc) ==
  /\ sw[i].pc = "idle" /\ hist.sweeps < scene.sweeps /\ enc \in scene.ways
  /\ scheme = IF enc THEN 0 ELSE 1
  /\ SweepTo(i, [Resting EXCEPT !.pc = "plan", !.enc = enc, !.rows = rows, !.since = hist.changes])
  /\ hist' = [hist EXCEPT !.sweeps = @ + 1]
  /\ UNCHANGED <<scene, scheme, rows, aux, trash, share, wraps, obj, tobj, op>>

\* encryptKeys: folders without a key get one.
Unkeyed(T) == {j \in DOMAIN T : T[j].dir /\ T[j].key = 0}
EncryptKeys(T) == [j \in DOMAIN T |-> IF j \in Unkeyed(T) THEN [T[j] EXCEPT !.key = hist.key + Cardinality({m \in Unkeyed(T) : m <= j})] ELSE T[j]]

\* encryptPaths and decryptPaths: every row's stored path in the other scheme, from the root down.
EncryptPaths(T) ==
  LET f[j \in DOMAIN T] == IF j = 0 THEN <<>> ELSE Append(f[T[j].par], EncryptName(T[T[j].par].key, Text(T[j].path)[Len(T[j].path)]))
  IN [j \in DOMAIN T |-> f[j]]
DecryptPaths(T) == [j \in DOMAIN T |-> Clear(PlainPathOf(T, j))]

\* cipherFor, plainFor and convertPath: a path of a row outside the tree; "missing" ones are skipped.
ConvertPath(T, enc, sp) ==
  IF ~enc THEN LET r == PlainPath(T, 1, sp) IN [st |-> r.st, path |-> Clear(r.p)]
  ELSE IF \A n \in DOMAIN sp : IsDirAt(T, SubSeq(sp, 1, n - 1))
       THEN [st |-> "ok", path |-> [n \in DOMAIN sp |-> EncryptName(T[RowAt(T, SubSeq(sp, 1, n - 1))].key, Text(sp)[n])]]
       ELSE [st |-> "missing", path |-> sp]

ConvertedUnderRoot(T, enc, f) ==
  [x \in {y \in DOMAIN f : ConvertPath(T, enc, f[y].path).st = "ok"} |-> [n \in DOMAIN f[x].path |-> EncryptName(T[0].key, Text(f[x].path)[n])]]
Converted(T, enc, f) == [x \in {y \in DOMAIN f : ConvertPath(T, enc, f[y].path).st = "ok"} |-> ConvertPath(T, enc, f[x].path).path]

\* planTrash: the location ids follow the names, kept apart from each other and from those that stay.
PlanTrash(T, enc) ==
  LET new == Converted(T, enc, trash)
      kept == {trash[t].loc : t \in DOMAIN trash \ DOMAIN new}
      Want(t) == <<Last(new[t]), trash[t].loc[2]>>
      Clash(t) == (IF Want(t) \in kept THEN 1 ELSE 0) + Cardinality({u \in DOMAIN new : u < t /\ Want(u) = Want(t)})
  IN [t \in DOMAIN new |-> [path |-> new[t], from |-> trash[t].loc, loc |-> IF Clash(t) = 0 THEN Want(t) ELSE <<Want(t)[1], Want(t)[2] + 10 * Clash(t)>>]]

\* planShares: the sealed copies under the target's own key, or none.
PlanShare(T, enc, new) ==
  IF ~share.on THEN NoShare
  ELSE IF enc THEN LET t == RowAt(T, share.path) IN
                   IF t = NoRow THEN NoShare ELSE [on |-> TRUE, path |-> new[t], key |-> T[t].key, abs |-> Text(share.path)]
  ELSE LET c == ConvertPath(T, enc, share.path) IN IF c.st # "ok" THEN NoShare ELSE [on |-> TRUE, path |-> c.path, key |-> 0, abs |-> <<>>]

\* planShareWraps: every folder key at or below the target, for the sharee.
PlanShareWraps(T, enc, sh) == IF enc /\ sh.on THEN FolderKeys(T, share.path) ELSE {}

\* Uploads are left alone.
Swept == [a \in {b \in DOMAIN aux : aux[b].kind # "upload"} |-> aux[a]]
\* A token that does not open ends the sweep; a path that does not resolve is only skipped.
Unreadable(T, enc, new) ==
  /\ ~enc
  /\ \/ \E j \in DOMAIN new : \E n \in DOMAIN new[j] : new[j][n][2] = Bad
     \/ \E a \in DOMAIN Swept : ConvertPath(T, enc, Swept[a].path).st = "integrity"
     \/ \E t \in DOMAIN trash : ConvertPath(T, enc, trash[t].path).st = "integrity"
     \/ share.on /\ ConvertPath(T, enc, share.path).st = "integrity"

\* encryptKeys, the plan and writeShareWraps.
PlanSatellites(i) ==
  LET enc == sw[i].enc
      T == IF enc THEN EncryptKeys(sw[i].rows) ELSE sw[i].rows
      new == IF enc THEN EncryptPaths(T) ELSE DecryptPaths(T)
      sh == PlanShare(T, enc, new)
      loc == PlanTrash(T, enc)
  IN /\ sw[i].pc = "plan"
     /\ IF Unreadable(T, enc, new)
        THEN SweepTo(i, Resting) /\ UNCHANGED wraps
        ELSE /\ SweepTo(i, [sw[i] EXCEPT !.pc = "move", !.rows = T, !.minted = IF enc THEN Unkeyed(sw[i].rows) ELSE {}, !.new = new,
                                         !.aux = Converted(T, enc, Swept), !.trash = loc, !.share = sh, !.todo = {t \in DOMAIN loc : loc[t].from # loc[t].loc}])
             /\ wraps' = wraps \cup PlanShareWraps(T, enc, sh)
     /\ hist' = IF enc THEN [hist EXCEPT !.key = @ + Cardinality(Unkeyed(sw[i].rows))] ELSE hist
     /\ UNCHANGED <<scene, scheme, rows, aux, trash, share, obj, tobj, op>>

\* moveTrashObjects: one object; a missing one is passed over.
MoveTrashObject(i) ==
  /\ sw[i].pc = "move" /\ sw[i].todo # {}
  /\ LET t == CHOOSE u \in sw[i].todo : \A v \in sw[i].todo : u <= v
         m == sw[i].trash[t]
     IN /\ SweepTo(i, [sw[i] EXCEPT !.todo = @ \ {t}, !.moved = IF m.from \in DOMAIN tobj THEN Append(@, m) ELSE @])
        /\ tobj' = IF m.from \in DOMAIN tobj THEN Put(Drop(tobj, {m.from}), m.loc, tobj[m.from]) ELSE tobj
  /\ UNCHANGED <<scene, scheme, rows, aux, trash, share, wraps, obj, op, hist>>

\* compensateTrashMoves, last move first; the moves of one sweep touch different objects.
LeaveTrashMoved(i) == UNCHANGED tobj
CompensateTrashMoves(i) ==
  LET back == {n \in DOMAIN sw[i].moved : sw[i].moved[n].loc \in DOMAIN tobj}
      froms == {sw[i].moved[n].from : n \in back}
  IN tobj' = [l \in (DOMAIN tobj \ {sw[i].moved[n].loc : n \in back}) \cup froms |->
                IF l \in froms THEN tobj[sw[i].moved[CHOOSE n \in back : sw[i].moved[n].from = l].loc] ELSE tobj[l]]

\* commitPlan: every update finds its row, a minted key finds none there, the scheme is still the old one.
CommitGuard(i) ==
  LET S == sw[i] IN
  /\ scheme = IF S.enc THEN 0 ELSE 1
  /\ DOMAIN S.new \subseteq DOMAIN rows /\ DOMAIN S.aux \subseteq DOMAIN aux /\ DOMAIN S.trash \subseteq DOMAIN trash
  /\ S.share.on => share.on
  /\ \A j \in S.minted : rows[j].key = 0
  /\ \A j \in DOMAIN rows \ DOMAIN S.new : \A m \in DOMAIN S.new : rows[j].path # S.new[m]
RewrittenUnkeyed(i, j) ==
  IF j \notin DOMAIN sw[i].new THEN rows[j] ELSE [rows[j] EXCEPT !.path = sw[i].new[j], !.sch = IF sw[i].enc THEN 1 ELSE 0]
Rewritten(i, j) ==
  LET S == sw[i] IN
  IF j \notin DOMAIN S.new THEN rows[j]
  ELSE [rows[j] EXCEPT !.path = S.new[j], !.sch = IF S.enc THEN 1 ELSE 0,
                       !.key = IF j \in S.minted THEN S.rows[j].key ELSE IF ~S.enc /\ S.rows[j].dir THEN 0 ELSE @]
Overlapped(i) == hist.changes # sw[i].since \/ op.k # "none"
Others(i) == \E n \in Sweeps \ {i} : sw[n].pc = "move"

CommitPlan(i) ==
  /\ sw[i].pc = "move" /\ sw[i].todo = {} /\ CommitGuard(i)
  /\ rows' = [j \in DOMAIN rows |-> Rewritten(i, j)]
  /\ aux' = [a \in DOMAIN aux |-> IF a \in DOMAIN sw[i].aux THEN [aux[a] EXCEPT !.path = sw[i].aux[a]] ELSE aux[a]]
  /\ trash' = [t \in DOMAIN trash |-> IF t \in DOMAIN sw[i].trash THEN [trash[t] EXCEPT !.path = sw[i].trash[t].path, !.loc = sw[i].trash[t].loc] ELSE trash[t]]
  /\ share' = IF sw[i].share.on THEN sw[i].share ELSE share
  /\ wraps' = IF sw[i].enc THEN wraps ELSE wraps \ {sw[i].rows[j].key : j \in DOMAIN sw[i].rows}
  /\ scheme' = IF sw[i].enc THEN 1 ELSE 0
  /\ SweepTo(i, Resting)
  /\ hist' = [hist EXCEPT !.torn = @ \/ Overlapped(i), !.crossed = @ \/ Others(i)]
  /\ UNCHANGED <<scene, obj, tobj, op>>

\* The transaction or a move fails: the sweep puts the objects back and reports.
SweepFails(i) ==
  /\ sw[i].pc = "move" /\ (scene.faults \/ (sw[i].todo = {} /\ ~CommitGuard(i)))
  /\ CompensateTrashMoves(i)
  /\ SweepTo(i, Resting)
  /\ hist' = [hist EXCEPT !.crossed = @ \/ Others(i)]
  /\ UNCHANGED <<scene, scheme, rows, aux, trash, share, wraps, obj, op>>

\* The process dies between a move and the transaction.
SweepCrash(i) ==
  /\ scene.faults /\ sw[i].pc = "move"
  /\ SweepTo(i, Resting)
  /\ hist' = [hist EXCEPT !.crashed = @ \/ sw[i].moved # <<>>]
  /\ UNCHANGED <<scene, scheme, rows, aux, trash, share, wraps, obj, tobj, op>>

-----------------------------------------------------------------------------
Begin ==
  \/ \E p \in Paths : MkdirOwned(p) \/ WriteOwned(p) \/ MoveToTrash(p) \/ Grant(p)
  \/ \E p, q \in Paths : Move(p, q)
  \/ \E t \in DOMAIN trash, q \in Paths : Restore(t, q)
  \/ \E p \in Paths : LockInsert(p) \/ VersionInsert(p) \/ PropSet(p) \/ UploadCreate(p)
  \/ \E n \in Dirs \cup Leafs : MkdirCipherMount(n) \/ WriteCipherMount(n) \/ RemoveCipherMount(n)
Finish == Insert \/ UpdateMeta \/ RenameSubtree \/ TrashRow \/ IngestFromStorage \/ MarkRow \/ GrantRow
Sweep(i) ==
  \/ \E enc \in BOOLEAN : LoadTree(i, enc)
  \/ PlanSatellites(i) \/ MoveTrashObject(i) \/ CommitPlan(i) \/ SweepFails(i) \/ SweepCrash(i)
Next == ClaimRoot \/ Begin \/ Finish \/ \E i \in Sweeps : Sweep(i)

Spec == Init /\ [][Next]_vars

-----------------------------------------------------------------------------
Quiet == op.k = "none"
Whole == Quiet /\ ~hist.torn
StoredNames == {<<k, n>> : k \in 0 .. hist.key, n \in Dirs \cup Leafs \cup {Bad}}

(* Rows, rows keyed by paths and locations are made of stored names. *)
TypeOK ==
  /\ scheme \in {0, 1} /\ 0 \in DOMAIN rows
  /\ \A i \in DOMAIN rows : rows[i].par \in DOMAIN rows \cup {NoRow} /\ Range(rows[i].path) \subseteq StoredNames /\ rows[i].key <= hist.key
  /\ \A a \in DOMAIN aux : Range(aux[a].path) \subseteq StoredNames
  /\ \A t \in DOMAIN trash : Range(trash[t].path) \subseteq StoredNames /\ trash[t].loc[1] \in StoredNames
  /\ wraps \subseteq 1 .. hist.key /\ DOMAIN obj \subseteq Paths

(* Outside a request, and unless a sweep committed over one, every row is found by the clear *)
(* path its ancestors spell, and the tree of rows is the tree of objects: translation at     *)
(* insert, rename and delete, and the sweeps in both directions, agree on every name.        *)
TreeReadable ==
  Whole => /\ \A i \in DOMAIN rows : GetByPath(PlainPathOf(rows, i)) = i
           /\ {PlainPathOf(rows, i) : i \in DOMAIN rows \ {0}} = DOMAIN obj

(* An encrypted tree keeps no name in clear and a clear tree no token, in rows and in the *)
(* names of trashed objects whose folder is still there.                                  *)
StoredInScheme ==
  Whole => /\ \A i \in DOMAIN rows : \A n \in Range(rows[i].path) : (n[1] # 0) = (scheme = 1)
           /\ \A t \in DOMAIN trash : DecryptItem(t).st = "ok" /\ Range(DecryptItem(t).p) \cap {Bad} = {} => (trash[t].loc[1][1] # 0) = (scheme = 1)

(* A trashed item is where its location says: a sweep moves the objects before its transaction *)
(* and puts them back when the transaction fails.  Sweeps that died half-way or that ran into  *)
(* each other, and restores that ended after the object left, are excepted.                    *)
TrashKept ==
  (Whole /\ ~hist.crashed /\ ~hist.crossed /\ \A i \in Sweeps : sw[i].moved = <<>>)
    => \A t \in DOMAIN trash \ hist.half : trash[t].loc \in DOMAIN tobj /\ tobj[trash[t].loc][<<>>] = trash[t].of

(* What a mount opens is where the share's target is now, after moves and sweeps: a sharee's *)
(* objects and rows go to the same place.                                                    *)
MountMatches ==
  (Whole /\ share.on) => /\ RowAt(rows, share.path) # NoRow
                         /\ OpenShareMeta(share) = PlainPathOf(rows, RowAt(rows, share.path))

(* Through the mount the sharee sees, in every folder at or below the share, the names of the *)
(* objects that are there: each folder key has reached the sharee's wraps.  Folders a move     *)
(* brought in are excepted.                                                                    *)
ShareeResolves ==
  (Whole /\ share.on /\ share.key # 0) =>
    \A i \in {j \in DOMAIN rows : rows[j].dir /\ IsPrefix(share.path, rows[j].path)} :
      \/ rows[i].key \in hist.brought
      \/ rows[i].key \in wraps /\ ListCipherShare(i) = {Last(x) : x \in {y \in DOMAIN obj : Front(y) = PlainPathOf(rows, i)}}

\* What a path of a lock, version, property or trash row means to its reader.
Meaning(f) == [x \in {y \in DOMAIN f : PlainPath(rows, scheme, f[y].path).st = "ok" /\ IsDirAt(rows, Front(f[y].path))} |-> PlainPath(rows, scheme, f[x].path).p]

(* A sweep's transaction over an undisturbed tree changes no meaning: every row, lock, version, *)
(* property and trash item whose folder exists, and the share, read as they did before.         *)
SweepKeepsView ==
  [][(scheme' # scheme /\ ~hist'.torn) =>
       /\ [i \in DOMAIN rows |-> PlainPathOf(rows, i)]' = [i \in DOMAIN rows |-> PlainPathOf(rows, i)]
       /\ LET before == Meaning(Swept) after == Meaning(Swept)' IN \A x \in DOMAIN before : x \in DOMAIN after /\ after[x] = before[x]
       /\ LET before == Meaning(trash) after == Meaning(trash)' IN \A x \in DOMAIN before : x \in DOMAIN after /\ after[x] = before[x]
       /\ share.on => OpenShareMeta(share)' = OpenShareMeta(share)]_vars

(* Names are sound: the variables have their types, the tree reads as it is stored, in the *)
(* scheme of the day, trash and mounts are where their rows say, and sharees see it all.   *)
NamesSound == TypeOK /\ TreeReadable /\ StoredInScheme /\ TrashKept /\ MountMatches /\ ShareeResolves
=============================================================================
