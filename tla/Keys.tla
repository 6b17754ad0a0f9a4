-------------------------------- MODULE Keys --------------------------------
(***************************************************************************)
(* The per-user key hierarchy of storage/encrypt (ADR-0096 to ADR-0102).   *)
(*                                                                         *)
(* A file key is wrapped once for every user who may read the file: with   *)
(* the user's symmetric key (scheme 0; the master key opens user_keys), or *)
(* boxed with the user's public key (scheme 1; the user's password opens   *)
(* user_key_pw).  A password login moves the user between the schemes:     *)
(* enroll, resume, unenroll.  Every step below is one SQL statement, so    *)
(* logins, first writes, share wraps, reads and the reconcile command      *)
(* interleave between statements, and a restart may cut any of them off.   *)
(* Key material is a number: a wrap names the key that opens it.           *)
(***************************************************************************)
EXTENDS Integers, FiniteSets

CONSTANTS
  Mixes,      \* accounts, files and operations to look at
  Tasks,      \* requests and commands in flight at the same time
  MaxMint     \* bound: user keys and key pairs ever generated

AllOps == {"login", "alloc", "wrap", "mint", "read"}
None == 0

ASSUME KeysAssumption ==
  /\ \A m \in Mixes : /\ m.ops \subseteq AllOps
                        /\ None \notin m.fileKeys \cup m.users /\ m.maxMint \in 0 .. MaxMint /\ m.maxTokens \in Nat
  /\ MaxMint \in Nat

VARIABLES
  passwordWrapped,  \* the resolver's PasswordWrapped flag, set at start-up
  userKey,          \* user_keys: the user's symmetric key, or None
  keyPw,            \* user_key_pw: the user's key pair, or None
  wrapped,          \* file_keys: per file key and user, the wrap row
  owner,            \* files.key_uuid: the owner of the file a key seals (set with the wrap)
  tokens,           \* app_token_keys: wraps of private keys under app passwords
  sessions,         \* private keys sealed onto the user's live sessions
  minted,           \* keys generated so far
  task,
  result,           \* what the task that returned in the last step reported
  mix               \* the accounts and operations of this behaviour; it never changes

vars == <<passwordWrapped, userKey, keyPw, wrapped, owner, tokens, sessions, minted, task, result, mix>>

Users == mix.users            \* accounts
FileKeys == mix.fileKeys      \* file key UUIDs that may be minted
Ops == mix.ops                \* operations the tasks perform
MaxTokens == mix.maxTokens    \* bound: app-password wraps per user

Key == 0 .. MaxMint
\* A wrap row.  `late` is history: its writer was overtaken by a change of the
\* user's enrollment.
NoRow == [scheme |-> 2, key |-> None, late |-> FALSE]
Rows == [scheme : {0, 1}, key : 1 .. MaxMint, late : BOOLEAN] \cup {NoRow}
Sym(k) == [scheme |-> 0, key |-> k, late |-> FALSE]
Box(k) == [scheme |-> 1, key |-> k, late |-> FALSE]
OpensSym(row, k) == row.scheme = 0 /\ row.key = k
OpensBox(row, k) == row.scheme = 1 /\ row.key = k

Idle == [op |-> "idle", user |-> None, fk |-> None, pc |-> "idle", pub |-> None, uk |-> None,
         had |-> FALSE, rows |-> <<>>, over |-> FALSE]
PC == {"idle", "enrollment", "hasUK", "insertPw", "loadUK", "listSym", "toBoxes", "dropUK",
       "ukLoad", "ukInsert", "ukReload", "listBox", "toSym", "dropPw", "dropTokens",
       "pubKey", "insertBox", "insertSym", "mintScan",
       "ownerUK", "ownerLoad", "ownerRow", "readerRow", "readerUK", "readerLoad"}
Outcome == {"none", "ok", "key", "locked", "unresolvable", "integrity", "failed"}

Lists == UNION {[D -> 1 .. MaxMint] : D \in SUBSET FileKeys}
TaskRecord == [op : AllOps \cup {"idle"}, user : Users \cup {None}, fk : FileKeys \cup {None}, pc : PC, pub : Key, uk : Key,
               had : BOOLEAN, rows : Lists \cup Rows, over : BOOLEAN]

TypeOK ==
  /\ passwordWrapped \in BOOLEAN
  /\ userKey \in [Users -> Key] /\ keyPw \in [Users -> Key]
  /\ wrapped \in [FileKeys -> [Users -> Rows]]
  /\ owner \in [FileKeys -> Users \cup {None}]
  /\ tokens \in [Users -> SUBSET [key : 1 .. MaxMint, live : BOOLEAN]]
  /\ sessions \in [Users -> SUBSET (1 .. MaxMint)]
  /\ minted \in Key
  /\ task \in [Tasks -> TaskRecord]
  /\ \A t \in Tasks :
       /\ task[t].pc \in {"toBoxes", "toSym"} => task[t].rows \in Lists
       /\ task[t].pc \in {"readerUK", "readerLoad"} => task[t].rows \in Rows \ {NoRow}
  /\ result \in Outcome

Init ==
  /\ mix \in Mixes
  /\ passwordWrapped \in BOOLEAN
  /\ userKey = [u \in Users |-> None] /\ keyPw = [u \in Users |-> None]
  /\ wrapped = [f \in FileKeys |-> [u \in Users |-> NoRow]]
  /\ owner = [f \in FileKeys |-> None]
  /\ tokens = [u \in Users |-> {}] /\ sessions = [u \in Users |-> {}]
  /\ minted = 0
  /\ task = [t \in Tasks |-> Idle]
  /\ result = "none"

-----------------------------------------------------------------------------
(* Steps shared by the operations.                                         *)

\* The tables only some steps write.
Rest == <<passwordWrapped, owner, tokens, sessions>>
Tables == <<userKey, keyPw, wrapped, minted>>

At(t, pc) == task[t].pc = pc
Step(t, r) == task' = [task EXCEPT ![t] = r] /\ result' = "none"
Goto(t, pc) == Step(t, [task[t] EXCEPT !.pc = pc])
Return(t, out) == task' = [task EXCEPT ![t] = Idle] /\ result' = out

\* The enrollment of u changes: tasks of u that looked at it are overtaken.
Overtake(u) == [t \in Tasks |-> [task[t] EXCEPT !.over = @ \/ task[t].user = u]]

\* UPDATE file_keys ... WHERE key_uuid AND user_id: no row, no effect.
Updated(f, u, row) ==
  IF wrapped[f][u] = NoRow THEN wrapped ELSE [wrapped EXCEPT ![f][u] = row]

\* The rows of u at a scheme, as wrapRowsByScheme lists them.
RowsByScheme(u, s) ==
  [f \in {f \in FileKeys : wrapped[f][u].scheme = s} |-> wrapped[f][u].key]
Drop(rows, f) == [g \in DOMAIN rows \ {f} |-> rows[g]]

-----------------------------------------------------------------------------
(* UnlockForLogin.                                                         *)

Start(t, op, u, f, pc) ==
  /\ At(t, "idle") /\ op \in Ops
  /\ Step(t, [Idle EXCEPT !.op = op, !.user = u, !.fk = f, !.pc = pc])
  /\ UNCHANGED <<Rest, Tables>>

LoginStart(t, u) == Start(t, "login", u, None, "enrollment")

LoadEnrollment(t) ==
  /\ At(t, "enrollment")
  /\ Step(t, [task[t] EXCEPT !.pub = keyPw[task[t].user], !.pc = "hasUK"])
  /\ UNCHANGED <<Rest, Tables>>

\* A login returns: with a key, the new session carries it.
LoginReturns(t, key) ==
  /\ Return(t, IF key = None THEN "ok" ELSE "key")
  /\ sessions' = IF key = None THEN sessions
                 ELSE [sessions EXCEPT ![task[t].user] = @ \cup {key}]
  /\ UNCHANGED <<passwordWrapped, owner, tokens>>

\* hasUserKey, and the choice among the four branches.
HasUserKey(t) ==
  /\ At(t, "hasUK")
  /\ LET had == userKey[task[t].user] # None
         enrolled == task[t].pub # None
         next == IF enrolled THEN IF passwordWrapped THEN "loadUK" ELSE "ukLoad"
                 ELSE "insertPw" IN
     IF \/ enrolled /\ passwordWrapped /\ ~had
        \/ ~enrolled /\ ~passwordWrapped
     THEN LoginReturns(t, task[t].pub)
     ELSE /\ Step(t, [task[t] EXCEPT !.had = had, !.pc = next])
          /\ UNCHANGED Rest
  /\ UNCHANGED Tables

\* Mutant: enrolling deletes the symmetric key before the wraps are converted.
InsertPwDropsUK(t) ==
  /\ At(t, "insertPw")
  /\ LET u == task[t].user IN
     IF keyPw[u] # None
     THEN Goto(t, "enrollment") /\ UNCHANGED <<Rest, Tables>>
     ELSE /\ minted < mix.maxMint /\ minted' = minted + 1
          /\ keyPw' = [keyPw EXCEPT ![u] = minted + 1]
          /\ IF task[t].had
             THEN /\ task' = [Overtake(u) EXCEPT ![t] =
                       [task[t] EXCEPT !.pub = minted + 1, !.pc = "loadUK"]]
                  /\ result' = "none"
                  /\ UNCHANGED Rest
             ELSE /\ task' = [Overtake(u) EXCEPT ![t] = Idle]
                  /\ result' = "key"
                  /\ sessions' = [sessions EXCEPT ![u] = @ \cup {minted + 1}]
                  /\ UNCHANGED <<passwordWrapped, owner, tokens>>
          /\ userKey' = [userKey EXCEPT ![u] = None]
          /\ UNCHANGED wrapped

\* Enroll: the row is inserted, or a concurrent login was first and the state
\* machine is run again.
InsertPw(t) ==
  /\ At(t, "insertPw")
  /\ LET u == task[t].user IN
     IF keyPw[u] # None
     THEN Goto(t, "enrollment") /\ UNCHANGED <<Rest, Tables>>
     ELSE /\ minted < mix.maxMint /\ minted' = minted + 1
          /\ keyPw' = [keyPw EXCEPT ![u] = minted + 1]
          /\ IF task[t].had
             THEN /\ task' = [Overtake(u) EXCEPT ![t] =
                       [task[t] EXCEPT !.pub = minted + 1, !.pc = "loadUK"]]
                  /\ result' = "none"
                  /\ UNCHANGED Rest
             ELSE /\ task' = [Overtake(u) EXCEPT ![t] = Idle]
                  /\ result' = "key"
                  /\ sessions' = [sessions EXCEPT ![u] = @ \cup {minted + 1}]
                  /\ UNCHANGED <<passwordWrapped, owner, tokens>>
          /\ UNCHANGED <<userKey, wrapped>>

\* A row that vanished was converted and deleted by a concurrent login.
LoadUK(t) ==
  /\ At(t, "loadUK")
  /\ LET uk == userKey[task[t].user] IN
     IF uk = None THEN LoginReturns(t, task[t].pub)
     ELSE Step(t, [task[t] EXCEPT !.uk = uk, !.pc = "listSym"]) /\ UNCHANGED Rest
  /\ UNCHANGED Tables

\* Mutant: the listing is cut off after one row.
ListOne(t) ==
  /\ task[t].pc \in {"listSym", "listBox"}
  /\ LET sym == At(t, "listSym")
         rows == RowsByScheme(task[t].user, IF sym THEN 0 ELSE 1) IN
     \E d \in SUBSET DOMAIN rows :
       /\ Cardinality(d) <= 1
       /\ Step(t, [task[t] EXCEPT !.rows = [f \in d |-> rows[f]],
                                  !.pc = IF sym THEN "toBoxes" ELSE "toSym"])
  /\ UNCHANGED <<Rest, Tables>>

ListRows(t) ==
  /\ task[t].pc \in {"listSym", "listBox"}
  /\ LET sym == At(t, "listSym") IN
     Step(t, [task[t] EXCEPT !.rows = RowsByScheme(task[t].user, IF sym THEN 0 ELSE 1),
                             !.pc = IF sym THEN "toBoxes" ELSE "toSym"])
  /\ UNCHANGED <<Rest, Tables>>

\* convertToBoxes and convertToSymmetric, one row at a time: a listed row the
\* key in hand does not open fails the login.
ConvertRow(t) ==
  /\ task[t].pc \in {"toBoxes", "toSym"}
  /\ LET r == task[t]
         boxing == r.pc = "toBoxes" IN
     IF DOMAIN r.rows = {}
     THEN Goto(t, IF boxing THEN "dropUK" ELSE "dropPw") /\ UNCHANGED Tables
     ELSE \E f \in DOMAIN r.rows :
            IF r.rows[f] # (IF boxing THEN r.uk ELSE r.pub)
            THEN Return(t, "failed") /\ UNCHANGED Tables
            ELSE /\ wrapped' = Updated(f, r.user, IF boxing THEN Box(r.pub) ELSE Sym(r.uk))
                 /\ Step(t, [r EXCEPT !.rows = Drop(@, f)])
                 /\ UNCHANGED <<userKey, keyPw, minted>>
  /\ UNCHANGED Rest

\* The threat-model pivot: the master key opens nothing of the user's.
DropUK(t) ==
  /\ At(t, "dropUK")
  /\ userKey' = [userKey EXCEPT ![task[t].user] = None]
  /\ LoginReturns(t, task[t].pub)
  /\ UNCHANGED <<keyPw, wrapped, minted>>

\* Unenroll: the pair goes, then the token wraps.
DropPw(t) ==
  /\ At(t, "dropPw")
  /\ LET u == task[t].user IN
     /\ keyPw' = [keyPw EXCEPT ![u] = None]
     /\ task' = [Overtake(u) EXCEPT ![t] = [task[t] EXCEPT !.pc = "dropTokens"]]
     /\ result' = "none"
  /\ UNCHANGED <<Rest, userKey, wrapped, minted>>

DropTokens(t) ==
  /\ At(t, "dropTokens")
  /\ tokens' = [tokens EXCEPT ![task[t].user] = {}]
  /\ Return(t, "ok")
  /\ UNCHANGED <<passwordWrapped, owner, sessions, Tables>>

-----------------------------------------------------------------------------
(* loadOrCreateUK, for whoever needs the symmetric key.                    *)

\* What the task does with the key it got.
WithUK(t, uk) ==
  IF task[t].op = "mint" THEN Return(t, "ok")
  ELSE Step(t, [task[t] EXCEPT !.uk = uk,
                               !.pc = IF task[t].op = "login" THEN "listBox" ELSE "insertSym"])

UKLoad(t) ==
  /\ At(t, "ukLoad")
  /\ LET uk == userKey[task[t].user] IN
     IF uk = None THEN Goto(t, "ukInsert") ELSE WithUK(t, uk)
  /\ UNCHANGED <<Rest, Tables>>

\* Mutant: the loser of the insert race keeps the key it generated.
UKInsertKeepsOwn(t) ==
  /\ At(t, "ukInsert")
  /\ minted < mix.maxMint /\ minted' = minted + 1
  /\ LET u == task[t].user IN
     /\ userKey' = [userKey EXCEPT ![u] = IF @ = None THEN minted + 1 ELSE @]
     /\ WithUK(t, minted + 1)
  /\ UNCHANGED <<Rest, keyPw, wrapped>>

\* The insert succeeds, or a concurrent task won it.
UKInsert(t) ==
  /\ At(t, "ukInsert")
  /\ LET u == task[t].user IN
     IF userKey[u] # None
     THEN Goto(t, "ukReload") /\ UNCHANGED Tables
     ELSE /\ minted < mix.maxMint /\ minted' = minted + 1
          /\ userKey' = [userKey EXCEPT ![u] = minted + 1]
          /\ WithUK(t, minted + 1)
          /\ UNCHANGED <<keyPw, wrapped>>
  /\ UNCHANGED Rest

\* The loser reads the winner's row; one that vanished is an error.
UKReload(t) ==
  /\ At(t, "ukReload")
  /\ LET uk == userKey[task[t].user] IN
     IF uk = None THEN Return(t, "failed") ELSE WithUK(t, uk)
  /\ UNCHANGED <<Rest, Tables>>

-----------------------------------------------------------------------------
(* Allocate, the share wraps, the reconcile command's mint.                *)

Unused(f) == owner[f] = None /\ \A t \in Tasks : task[t].op = "alloc" => task[t].fk # f

AllocStart(t, u, f) == Unused(f) /\ Start(t, "alloc", u, f, "pubKey")
WrapStart(t, u, f) == owner[f] # None /\ Start(t, "wrap", u, f, "pubKey")

PublicKeyFor(t) ==
  /\ At(t, "pubKey")
  /\ LET pub == keyPw[task[t].user] IN
     Step(t, [task[t] EXCEPT !.pub = pub, !.pc = IF pub = None THEN "ukLoad" ELSE "insertBox"])
  /\ UNCHANGED <<Rest, Tables>>

\* A wrap written after the enrollment it relied on changed, or as a box while
\* an unenrollment has already listed the boxes it will convert.
Late(t) ==
  \/ task[t].over
  \/ /\ At(t, "insertBox")
     /\ \E l \in Tasks : task[l].user = task[t].user /\ task[l].pc \in {"toSym", "dropPw"}

\* The insert of allocateForUserID and wrapFKForUser; a wrap that exists is
\* kept.
InsertWrap(t) ==
  /\ task[t].pc \in {"insertBox", "insertSym"}
  /\ LET r == task[t] IN
     /\ wrapped' = [wrapped EXCEPT ![r.fk][r.user] =
                      IF @ # NoRow THEN @
                      ELSE [(IF r.pc = "insertBox" THEN Box(r.pub) ELSE Sym(r.uk))
                              EXCEPT !.late = Late(t)]]
     /\ owner' = IF r.op = "alloc" THEN [owner EXCEPT ![r.fk] = r.user] ELSE owner
  /\ Return(t, "ok")
  /\ UNCHANGED <<passwordWrapped, tokens, sessions, userKey, keyPw, minted>>

\* Mutant: a revocation deletes the wrap of whoever it names.
UnwrapAnyone(f, u) ==
  /\ owner[f] # None /\ wrapped[f][u] # NoRow
  /\ wrapped' = [wrapped EXCEPT ![f][u] = NoRow]
  /\ UNCHANGED <<passwordWrapped, owner, tokens, sessions, userKey, keyPw, minted, task>>
  /\ result' = "none"

\* UnwrapKeyFor: a revoked share deletes the wrap, never the owner's.
Unwrap(f, u) ==
  /\ owner[f] \notin {None, u} /\ wrapped[f][u] # NoRow
  /\ wrapped' = [wrapped EXCEPT ![f][u] = NoRow]
  /\ UNCHANGED <<passwordWrapped, owner, tokens, sessions, userKey, keyPw, minted, task>>
  /\ result' = "none"

\* MintMissingUserKeys selects the users with neither key, then mints.
MintStart(t, u) ==
  /\ userKey[u] = None /\ keyPw[u] = None
  /\ Start(t, "mint", u, None, "ukLoad")

\* WrapKeyForToken: an app password issued to a request that carries an
\* unlocked key.
IssueToken(u) ==
  /\ Cardinality(tokens[u]) < MaxTokens
  /\ \E k \in sessions[u] :
       tokens' = [tokens EXCEPT ![u] = @ \cup {[key |-> k, live |-> keyPw[u] = k]}]
  /\ UNCHANGED <<passwordWrapped, owner, sessions, Tables, task>>
  /\ result' = "none"

-----------------------------------------------------------------------------
(* Resolve: a read by u of file f, with the session key `pub` or none.     *)

ReadStart(t, u, f, key) ==
  /\ owner[f] # None
  /\ At(t, "idle") /\ "read" \in Ops
  /\ Step(t, [Idle EXCEPT !.op = "read", !.user = u, !.fk = f, !.pub = key, !.pc = "ownerUK"])
  /\ UNCHANGED <<Rest, Tables>>

\* The owner has a symmetric key: master, user key, wrap.
ReadAsOwner(t) ==
  /\ LET r == task[t]
         o == owner[r.fk]
         row == wrapped[r.fk][o] IN
     \/ /\ r.pc = "ownerUK"
        /\ Goto(t, IF userKey[o] # None THEN "ownerLoad" ELSE "readerRow")
     \/ /\ r.pc = "ownerLoad"
        /\ IF userKey[o] = None THEN Return(t, "unresolvable")
           ELSE Step(t, [r EXCEPT !.uk = userKey[o], !.pc = "ownerRow"])
     \/ /\ r.pc = "ownerRow"
        /\ Return(t, IF OpensSym(row, r.uk) THEN "ok" ELSE "unresolvable")
  /\ UNCHANGED <<Rest, Tables>>

\* resolveIdentity: the owner is enrolled, the reader's own wrap decides.
ResolveIdentity(t) ==
  /\ LET r == task[t]
         row == wrapped[r.fk][r.user]
         uk == userKey[r.user] IN
     \/ /\ r.pc = "readerRow"
        /\ IF row = NoRow THEN Return(t, "locked")
           ELSE Step(t, [r EXCEPT !.rows = row, !.pc = "readerUK"])
     \/ /\ r.pc = "readerUK"
        /\ IF uk # None THEN Goto(t, "readerLoad")
           ELSE Return(t, IF r.pub = None THEN "locked"
                          ELSE IF OpensBox(r.rows, r.pub) THEN "ok" ELSE "integrity")
     \/ /\ r.pc = "readerLoad"
        /\ Return(t, IF uk # None /\ OpensSym(r.rows, uk) THEN "ok" ELSE "unresolvable")
  /\ UNCHANGED <<Rest, Tables>>

\* A crash or a restart drops every request; the flag may have been changed.
Restart ==
  /\ passwordWrapped' \in BOOLEAN
  /\ task' = [t \in Tasks |-> Idle] /\ result' = "none"
  /\ UNCHANGED <<userKey, keyPw, wrapped, owner, tokens, sessions, minted>>

Next ==
  \/ \E t \in Tasks :
       \/ \E u \in Users : LoginStart(t, u) \/ MintStart(t, u)
       \/ \E u \in Users, f \in FileKeys :
            \/ AllocStart(t, u, f) \/ WrapStart(t, u, f)
            \/ \E key \in sessions[u] \cup {None} : ReadStart(t, u, f, key)
       \/ LoadEnrollment(t) \/ HasUserKey(t) \/ InsertPw(t) \/ LoadUK(t)
       \/ ListRows(t) \/ ConvertRow(t) \/ DropUK(t) \/ DropPw(t) \/ DropTokens(t)
       \/ UKLoad(t) \/ UKInsert(t) \/ UKReload(t)
       \/ PublicKeyFor(t) \/ InsertWrap(t)
       \/ ReadAsOwner(t) \/ ResolveIdentity(t)
  \/ \E u \in Users : IssueToken(u)
  \/ \E f \in FileKeys, u \in Users : Unwrap(f, u)
  \/ Restart

Spec == Init /\ [][Next /\ UNCHANGED mix]_vars

-----------------------------------------------------------------------------
(* Properties.                                                             *)

\* No file key is lost: whatever logins, first writes, share wraps and
\* restarts interleave, a wrap row is opened by the user's current symmetric
\* key or boxed for the user's current pair, except a wrap its writer inserted
\* after the user's enrollment had changed under it.
NoKeyLost ==
  \A f \in FileKeys, u \in Users :
    (wrapped[f][u] # NoRow /\ ~wrapped[f][u].late) =>
      OpensSym(wrapped[f][u], userKey[u]) \/ OpensBox(wrapped[f][u], keyPw[u])

\* A share is revoked from its recipients and never from the owner, who may be
\* one of them through a group: a file keeps a wrap its owner can open, unless
\* the owner's write was overtaken (UnwrapKeyFor, wrapFKForUser).
OwnerReads ==
  \A f \in FileKeys :
    owner[f] # None =>
      LET row == wrapped[f][owner[f]] IN
      row.late \/ OpensSym(row, userKey[owner[f]]) \/ OpensBox(row, keyPw[owner[f]])

\* A read of one's own file that reports an integrity error read a wrap of an
\* overtaken writer, or carried a session key from before the user's enrollment
\* was replaced: a conversion in progress is never reported to the owner as
\* corruption (Resolve and resolveIdentity against UnlockForLogin).
IntegrityMeansStale ==
  [][\A t \in Tasks :
       (/\ task[t].op = "read" /\ task'[t] = Idle /\ result' = "integrity"
        /\ task[t].user = owner[task[t].fk]) =>
         \/ task[t].rows.late
         \/ task[t].pub # keyPw[task[t].user]]_vars

\* The pivot of enrollment: a login that saw the user's symmetric key and
\* returns the private key leaves no wrap the master key can open, except
\* those of overtaken writers.
PivotComplete ==
  [][\A t \in Tasks :
       (task[t].op = "login" /\ task'[t] = Idle /\ result' = "key" /\ task[t].had) =>
         \A f \in FileKeys :
           LET row == wrapped'[f][task[t].user] IN
           row = NoRow \/ row.late \/ OpensBox(row, keyPw'[task[t].user])]_vars
=============================================================================
