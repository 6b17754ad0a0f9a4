------------------------------ MODULE DavLocks ------------------------------
(***************************************************************************)
(* Exclusive write locks (internal/files lock.go, lockstore.go,            *)
(* wopilock.go; the checks in webdav/handler.go and wopi/handler.go): the  *)
(* file_locks table of one owner, the clients that lock, refresh, unlock   *)
(* and write through WebDAV, OCS or WOPI, and the clock that expires       *)
(* locks.  One request is a handful of database statements; requests       *)
(* interleave between them.                                                *)
(*                                                                         *)
(* A path is the sequence of its segments.  A DAV lock token is a fresh    *)
(* number, a WOPI lock id is chosen by the client and named by it.         *)
(***************************************************************************)
EXTENDS Integers, Sequences, FiniteSets, SequencesExt

CONSTANTS
  Clients,     \* clients, each with one request in flight
  Scenes,      \* trees to look at, with the requests made on them
  NoLock,
  TTL,         \* ticks a lock lasts
  MaxIds,      \* bound: lock rows inserted
  Prompt       \* TRUE: the clock does not tick during a request

AllVerbs == {"lock", "refresh", "wopiLock", "unlock", "wopiUnlock",
             "put", "delete", "move", "copy", "wopiPut", "wopiRename", "wopiRelative"}

ASSUME DavLocksAssumption ==
  /\ \A s \in Scenes :
       /\ <<>> \in s.initially /\ s.initially \subseteq s.paths /\ s.dirs \subseteq s.paths
       /\ s.paths \subseteq Seq(STRING)
       /\ \A p \in s.paths : p # <<>> => Front(p) \in s.dirs
       \* what has something under it is a directory
       /\ \A p, q \in s.paths : IsStrictPrefix(p, q) => p \in s.dirs
       /\ s.verbs \subseteq AllVerbs /\ s.maxTime \in Nat
  /\ TTL \in Nat \ {0} /\ MaxIds \in Nat
  \* a lock id a client chooses is no token the server draws; "no lock" is no row
  /\ Clients \cap Nat = {}
  /\ NoLock \notin [id : Nat, path : Seq(STRING), token : Nat \cup Clients, expiry : Nat]
  /\ Prompt \in BOOLEAN

VARIABLES
  exists,    \* paths with a file or directory
  locks,     \* rows of file_locks
  nextId,
  clock,
  op,        \* the request of each client
  hold,      \* locks each client was told it has
  spoilt,    \* tokens that another client than their owner was told
  scene      \* the tree of this behaviour; it never changes

vars == <<exists, locks, nextId, clock, op, hold, spoilt, scene>>

Paths == scene.paths          \* paths of the tree, closed under parents
Dirs == scene.dirs            \* those that are (or would be) directories
Initially == scene.initially  \* those that exist at the start
Verbs == scene.verbs          \* requests the clients make
MaxTime == scene.maxTime      \* bound: the clock

Names == Seq(STRING)
Tokens == (1 .. MaxIds) \cup Clients
LockRow == [id : 1 .. MaxIds, path : Names, token : Tokens, expiry : Nat]
Hold == [path : Names, token : Tokens, until : Nat, own : BOOLEAN]
Idle == [pc |-> "idle", verb |-> "none", path |-> <<>>, dst |-> <<>>, row |-> NoLock]

TypeOK ==
  /\ exists \subseteq Names
  /\ locks \subseteq LockRow
  \* UNIQUE (user_id, file_path), UNIQUE (token), primary key
  /\ \A k, l \in locks : (k.id = l.id \/ k.path = l.path \/ k.token = l.token) => k = l
  /\ nextId \in 1 .. (MaxIds + 1) /\ clock \in 0 .. MaxTime
  /\ op \in [Clients -> [pc : {"idle", "expire", "refresh", "insert", "readback",
                               "unlock", "act", "sideTables"},
                         verb : AllVerbs \cup {"none"}, path : Names, dst : Names,
                         row : LockRow \cup {NoLock}]]
  /\ hold \in [Clients -> SUBSET Hold] /\ spoilt \subseteq Tokens

Init ==
  /\ scene \in Scenes
  /\ exists = Initially
  /\ locks = {} /\ nextId = 1 /\ clock = 0
  /\ op = [c \in Clients |-> Idle]
  /\ hold = [c \in Clients |-> {}] /\ spoilt = {}

-----------------------------------------------------------------------------
(* The lock store and its helpers.                                         *)

Exists(p) == p \in exists
Under(p, dir) == IsPrefix(dir, p)
Rebase(p, src, dst) == dst \o SubSeq(p, Len(src) + 1, Len(p))
\* p and its ancestors, up to "/".
Chain(p) == {SubSeq(p, 1, n) : n \in 0 .. Len(p)}

GetByPath(p) == IF \E l \in locks : l.path = p THEN CHOOSE l \in locks : l.path = p ELSE NoLock

\* Mutant: a lock counts as expired in its last tick.
ExpiredEarly(l, now) == l.expiry <= now + 1

\* expireLock: the deadline itself is already too late.
Expired(l, now) == l.expiry <= now

\* UpdateTimeout(id): no row, no effect.
UpdateTimeout(id, expiry) == {IF l.id = id THEN [l EXCEPT !.expiry = expiry] ELSE l : l \in locks}
Delete(id) == {l \in locks : l.id # id}
DeleteByPath(p) == {l \in locks : ~Under(l.path, p)}

\* RenamePath updates row after row, parents first, and stops at the first
\* row whose new path is taken.
RenamePath(src, dst) ==
  LET moved == {l \in locks : Under(l.path, src)}
      taken(l) == \E k \in locks \ moved : k.path = Rebase(l.path, src, dst)
      done == {l \in moved : \A k \in moved : taken(k) => Len(k.path) > Len(l.path)} IN
  (locks \ done) \cup {[l EXCEPT !.path = Rebase(l.path, src, dst)] : l \in done}

\* Tokens the client sends: those of the locks it believes it has.
Presented(c) == {h.token : h \in hold[c]}
IsWopi(verb) == verb \in {"wopiLock", "wopiUnlock", "wopiPut", "wopiRename"}

Start(c, verb, pc, p, dst, row) ==
  op' = [op EXCEPT ![c] = [pc |-> pc, verb |-> verb, path |-> p, dst |-> dst, row |-> row]]
Finish(c) == op' = [op EXCEPT ![c] = Idle]

-----------------------------------------------------------------------------
(* LOCK: DAV.Lock, LockByFileID, lockOwnedWithToken.                       *)

\* The token matches the row (lockHeaderHasToken, or equality for WOPI); a
\* first LOCK comes without one.
Matches(c, verb, l) ==
  \/ verb = "wopiLock" /\ l.token = c
  \/ verb = "refresh" /\ l.token \in Presented(c)

\* Stat, the clock, GetByPath.  A valid foreign lock is answered 423 and a
\* refresh without lock 412, with no effect.
LockRead(c, verb, p) ==
  LET l == GetByPath(p) IN
  /\ op[c] = Idle /\ verb \in {"lock", "refresh", "wopiLock"} /\ Exists(p)
  /\ \/ l = NoLock /\ verb # "refresh" /\ Start(c, verb, "insert", p, p, l)
     \/ l # NoLock /\ Expired(l, clock) /\ Start(c, verb, "expire", p, p, l)
     \/ l # NoLock /\ ~Expired(l, clock) /\ Matches(c, verb, l) /\ Start(c, verb, "refresh", p, p, l)
  /\ UNCHANGED <<exists, locks, nextId, clock, hold, spoilt>>

\* The expired row is deleted by id; a refresh then ends with 412.
LockExpire(c) ==
  /\ op[c].pc = "expire"
  /\ locks' = Delete(op[c].row.id)
  /\ IF op[c].verb = "refresh" THEN Finish(c) ELSE op' = [op EXCEPT ![c].pc = "insert"]
  /\ UNCHANGED <<exists, nextId, clock, hold, spoilt>>

\* UpdateTimeout reports no missing row: the client is told the new deadline of
\* the lock it asked for even if the row has gone or is at another path by now.
LockRefresh(c) ==
  LET l == op[c].row
      expiry == clock + TTL IN
  /\ op[c].pc = "refresh"
  /\ locks' = UpdateTimeout(l.id, expiry)
  /\ hold' = [hold EXCEPT ![c] = {h \in @ : h.token # l.token}
                                   \cup {[path |-> l.path, token |-> l.token, until |-> expiry,
                                           own |-> \E k \in locks : k.id = l.id /\ k.path = l.path]}]
  /\ Finish(c)
  /\ UNCHANGED <<exists, nextId, clock, spoilt>>

NewToken(c) == IF IsWopi(op[c].verb) THEN c ELSE nextId

\* Mutant: the insert is an upsert on the path.
LockInsertAnyway(c) ==
  /\ op[c].pc = "insert"
  /\ nextId <= MaxIds
  /\ LET row == [id |-> nextId, path |-> op[c].path, token |-> NewToken(c), expiry |-> clock + TTL] IN
       /\ locks' = {l \in locks : l.path # row.path /\ l.token # row.token} \cup {row}
       /\ op' = [op EXCEPT ![c] = [@ EXCEPT !.pc = "readback", !.row = row]]
  /\ nextId' = nextId + 1
  /\ UNCHANGED <<exists, clock, hold, spoilt>>

\* Insert: the unique indexes on path and token refuse it (423), or the row
\* is there.
LockInsert(c) ==
  LET token == NewToken(c) IN
  /\ op[c].pc = "insert"
  /\ \/ /\ \E l \in locks : l.path = op[c].path \/ l.token = token
        /\ Finish(c) /\ UNCHANGED <<locks, nextId>>
     \/ /\ \A l \in locks : l.path # op[c].path /\ l.token # token
        /\ nextId <= MaxIds
        /\ LET row == [id |-> nextId, path |-> op[c].path, token |-> token, expiry |-> clock + TTL] IN
             /\ locks' = locks \cup {row}
             /\ op' = [op EXCEPT ![c] = [@ EXCEPT !.pc = "readback", !.row = row]]
        /\ nextId' = nextId + 1
  /\ UNCHANGED <<exists, clock, hold, spoilt>>

\* Insert reads the row back by path; the client is told what it finds, which
\* may be the row of someone who locked after the new row was swept away.  The
\* client can then refresh or unlock the lock of the other.
LockReadback(c) ==
  LET l == GetByPath(op[c].path) IN
  /\ op[c].pc = "readback"
  /\ hold' = IF l = NoLock THEN hold
             ELSE [hold EXCEPT ![c] = @ \cup {[path |-> l.path, token |-> l.token, until |-> l.expiry,
                                                own |-> l.token = op[c].row.token]}]
  /\ spoilt' = spoilt \cup {t \in {l.token : k \in {l} \ {NoLock}} : t # op[c].row.token}
  /\ Finish(c)
  /\ UNCHANGED <<exists, locks, nextId, clock>>

-----------------------------------------------------------------------------
(* UNLOCK: DAV.Unlock, unlockOwnedWithToken.  The client gives the lock up  *)
(* with the request.                                                        *)

UnlockRead(c, verb, h) ==
  LET l == GetByPath(h.path) IN
  /\ op[c] = Idle /\ verb \in {"unlock", "wopiUnlock"} /\ Exists(h.path)
  /\ h \in hold[c] /\ (h.token = c <=> verb = "wopiUnlock")
  /\ hold' = [hold EXCEPT ![c] = {k \in @ : k.token # h.token}]
  /\ \/ l # NoLock /\ Expired(l, clock) /\ locks' = Delete(l.id) /\ UNCHANGED op
     \/ /\ l # NoLock /\ ~Expired(l, clock) /\ l.token = h.token
        /\ Start(c, verb, "unlock", h.path, h.path, l) /\ UNCHANGED locks
     \/ (l # NoLock => ~Expired(l, clock) /\ l.token # h.token) /\ UNCHANGED <<op, locks>>
  /\ UNCHANGED <<exists, nextId, clock, spoilt>>

UnlockDelete(c) ==
  /\ op[c].pc = "unlock"
  /\ locks' = Delete(op[c].row.id)
  /\ Finish(c)
  /\ UNCHANGED <<exists, nextId, clock, hold, spoilt>>

-----------------------------------------------------------------------------
(* Writes.  The check comes first, the effect in a later step.             *)

\* checkLockOwned: the nearest unexpired lock on the way up decides; expired
\* rows met before it are deleted.
Valid(p) == {q \in Chain(p) : GetByPath(q) # NoLock /\ ~Expired(GetByPath(q), clock)}
Nearest(p) == CHOOSE q \in Valid(p) : \A r \in Valid(p) : Len(r) <= Len(q)
CheckLockOwned(c, p) == Valid(p) # {} => GetByPath(Nearest(p)).token \in Presented(c)
Swept(p) ==
  {l \in locks : /\ l.path \in Chain(p) /\ Expired(l, clock)
                 /\ Valid(p) # {} => Len(l.path) > Len(Nearest(p))}

\* LockTokenAt: the WOPI handshake looks at the file's own lock only.
LockTokenAt(c, p) ==
  LET l == GetByPath(p) IN (l # NoLock /\ ~Expired(l, clock)) => l.token = c
SweptAt(p) == {l \in locks : l.path = p /\ Expired(l, clock)}

\* PUT, MKCOL, PROPPATCH, DELETE and chunked assembly: checkLock on the path.
CheckWrite(c, verb, p) ==
  /\ op[c] = Idle /\ p # <<>>
  /\ \/ verb = "put" /\ p \notin Dirs
     \/ verb = "delete" /\ Exists(p)
  /\ CheckLockOwned(c, p)
  /\ locks' = locks \ Swept(p)
  /\ Start(c, verb, "act", p, p, NoLock)
  /\ UNCHANGED <<exists, nextId, clock, hold, spoilt>>

\* MOVE checks the source; MOVE and COPY check the destination if it exists.
CheckMove(c, verb, p, q) ==
  /\ op[c] = Idle /\ verb \in {"move", "copy"}
  /\ p # <<>> /\ q # <<>> /\ Exists(p) /\ (p \in Dirs <=> q \in Dirs)
  /\ ~Under(q, p) /\ ~Under(p, q)
  /\ verb = "move" => CheckLockOwned(c, p)
  /\ Exists(q) => CheckLockOwned(c, q)
  /\ locks' = locks \ ((IF verb = "move" THEN Swept(p) ELSE {})
                         \cup (IF Exists(q) THEN Swept(q) ELSE {}))
  /\ Start(c, verb, "act", p, q, NoLock)
  /\ UNCHANGED <<exists, nextId, clock, hold, spoilt>>

\* PutFile and RenameFile; PutRelativeFile only looks whether the target is
\* there (unless told to overwrite) and at no lock.
CheckWopi(c, verb, p, q) ==
  /\ op[c] = Idle /\ Exists(p) /\ p \notin Dirs /\ q \notin Dirs
  /\ \/ verb = "wopiPut" /\ p = q /\ LockTokenAt(c, p) /\ locks' = locks \ SweptAt(p)
     \/ verb = "wopiRename" /\ p # q /\ LockTokenAt(c, p) /\ locks' = locks \ SweptAt(p)
     \/ verb = "wopiRelative" /\ p # q /\ ~Exists(q) /\ UNCHANGED locks
  /\ Start(c, verb, "act", p, q, NoLock)
  /\ UNCHANGED <<exists, nextId, clock, hold, spoilt>>

\* Locks on what is deleted end with it.
Void(h, p) == [c \in Clients |-> {x \in h[c] : ~Under(x.path, p)}]

\* Write: Stat decides between create and overwrite.
ActWrite(c) ==
  LET q == op[c].dst IN
  /\ op[c].pc = "act" /\ op[c].verb \in {"put", "wopiPut", "wopiRelative"}
  /\ exists' = IF Exists(Front(q)) THEN exists \cup {q} ELSE exists
  /\ Finish(c)
  /\ UNCHANGED <<locks, nextId, clock, hold, spoilt>>

\* Remove: the objects and rows go ...
ActDelete(c) ==
  LET p == op[c].path IN
  /\ op[c].pc = "act" /\ op[c].verb = "delete"
  /\ IF Exists(p)
     THEN /\ exists' = {x \in exists : ~Under(x, p)}
          /\ hold' = Void(hold, p)
          /\ op' = [op EXCEPT ![c].pc = "sideTables"]
     ELSE Finish(c) /\ UNCHANGED <<exists, hold>>
  /\ UNCHANGED <<locks, nextId, clock, spoilt>>

\* Move and Copy purge an existing destination, its locks included (a WOPI
\* rename does not overwrite), then fill it.
ActMove(c) ==
  LET p == op[c].path
      q == op[c].dst
      ok == /\ Exists(p) /\ Exists(Front(q))
            /\ op[c].verb = "wopiRename" => ~Exists(q) IN
  /\ op[c].pc = "act" /\ op[c].verb \in {"move", "copy", "wopiRename"}
  /\ IF ok
     THEN /\ exists' = {x \in exists : ~Under(x, q) /\ (Under(x, p) => op[c].verb = "copy")}
                          \cup {Rebase(x, p, q) : x \in {y \in exists : Under(y, p)}}
          /\ locks' = IF Exists(q) THEN DeleteByPath(q) ELSE locks
          /\ hold' = IF Exists(q) THEN Void(hold, q) ELSE hold
          /\ IF op[c].verb = "copy" THEN Finish(c) ELSE op' = [op EXCEPT ![c].pc = "sideTables"]
     ELSE Finish(c) /\ UNCHANGED <<exists, locks, hold>>
  /\ UNCHANGED <<nextId, clock, spoilt>>

\* ... and then the lock rows: deleted by path, or renamed.  Who holds a lock
\* that moves follows it; who holds one that goes has lost it.
ActLocks(c) ==
  LET p == op[c].path
      q == op[c].dst IN
  /\ op[c].pc = "sideTables"
  /\ IF op[c].verb = "delete"
     THEN locks' = DeleteByPath(p) /\ hold' = Void(hold, p)
     ELSE /\ locks' = RenamePath(p, q)
          /\ hold' = [d \in Clients |->
               {IF Under(h.path, p) /\ \E l \in locks' : /\ l.token = h.token
                                                        /\ l.path = Rebase(h.path, p, q)
                THEN [h EXCEPT !.path = Rebase(@, p, q)] ELSE h : h \in hold[d]}]
  /\ Finish(c)
  /\ UNCHANGED <<exists, nextId, clock, spoilt>>

\* The request's context is cancelled, or a statement fails, after part of
\* the request took effect.
Abort(c) ==
  /\ op[c].pc \in {"insert", "readback", "sideTables"}
  /\ Finish(c)
  /\ UNCHANGED <<exists, locks, nextId, clock, hold, spoilt>>

\* Time passes; a client stops relying on a lock at the deadline it was told.
Tick ==
  /\ clock < MaxTime
  /\ Prompt => \A c \in Clients : op[c] = Idle
  /\ clock' = clock + 1
  /\ hold' = [c \in Clients |-> {h \in hold[c] : h.until > clock + 1}]
  /\ UNCHANGED <<exists, locks, nextId, op, spoilt>>

Request(c) ==
  \/ \E verb \in Verbs, p \in Paths : LockRead(c, verb, p) \/ CheckWrite(c, verb, p)
  \/ \E verb \in Verbs, h \in hold[c] : UnlockRead(c, verb, h)
  \/ \E verb \in Verbs, p, q \in Paths : CheckMove(c, verb, p, q) \/ CheckWopi(c, verb, p, q)

Proceed(c) ==
  \/ LockExpire(c) \/ LockRefresh(c) \/ LockInsert(c) \/ LockReadback(c) \/ UnlockDelete(c)
  \/ ActWrite(c) \/ ActDelete(c) \/ ActMove(c) \/ ActLocks(c) \/ Abort(c)

Next == Tick \/ \E c \in Clients : Request(c) \/ Proceed(c)

Spec == Init /\ [][Next /\ UNCHANGED scene]_vars

-----------------------------------------------------------------------------
(* Properties.                                                             *)

Live(h) == h.until > clock

\* A lock the client asked for, found in the table when it was told, and whose token no
\* other client was told.
Sure(h) == h.own /\ Live(h) /\ h.token \notin spoilt

\* A client that was told it has the lock it asked for has it: until the deadline it was
\* given, or until it unlocks or the file goes, the row with its token is in
\* the table (expiry, unlock and rename of other locks never take it away).
HoldBacked ==
  \A c \in Clients : \A h \in hold[c] :
    Sure(h) => \E l \in locks : l.path = h.path /\ l.token = h.token /\ l.expiry >= h.until

\* The check that precedes PUT, DELETE and MOVE (CheckLockOwned) and PutFile
\* and RenameFile (LockTokenAt) lets no client through to a path that another
\* client has locked, unless the client has that lock's token too.
LockRespected ==
  [][\A c \in Clients :
       (op[c].pc = "idle" /\ op'[c].pc = "act" /\ op'[c].verb \notin {"copy", "wopiRelative"}) =>
         \A d \in Clients \ {c} : \A h \in hold[d] :
           (Sure(h) /\ h.path = op'[c].path) =>
             h.token \in Presented(c) \cup {c}]_vars

\* The table, the requests and what clients were told are well formed, with unique ids,
\* paths and tokens in the table, and every granted lock is there.
LocksSound == TypeOK /\ HoldBacked
=============================================================================
