------------------------------- MODULE Shares -------------------------------
(***************************************************************************)
(* Shares of one owner's file and the folder it is in: the shares table    *)
(* (internal/sharing), the copies of the file key that share recipients    *)
(* hold (KeySharer of internal/files over file_keys), group membership,    *)
(* the bells of internal/notifications, and the incoming shares of another *)
(* server (internal/ocm).                                                  *)
(*                                                                         *)
(* No lock spans these tables.  A request in flight is a task whose steps  *)
(* are the SQL statements and remote calls of its handler; what it has     *)
(* read stays in its record and may be stale.  The owner's own copy of a   *)
(* key is in `owned'; how a copy is sealed is the business of Keys.        *)
(***************************************************************************)
EXTENDS Integers, FiniteSets

CONSTANTS
  Users,       \* possible recipients, the owner not among them
  Tasks,       \* requests in flight at the same time
  MaxShares,   \* bound: share ids
  MaxKeys,     \* bound: file keys minted
  MaxTime,     \* bound: the clock; expiry times are 1 .. MaxTime, 0 is never
  Traffics     \* the mixes of requests to look at, sets of Ops

Ops == {"share", "federate", "unshare", "update", "view", "job", "join",
        "leave", "write", "overwrite", "remove", "decline", "reconcile", "reconciled"}

ASSUME SharesAssumption ==
  /\ MaxShares \in Nat /\ MaxKeys \in Nat \ {0} /\ MaxTime \in Nat
  /\ \A T \in Traffics : T \subseteq Ops \ {"reconciled"}

VARIABLES
  shares,    \* the shares table by id
  nextId,    \* the next id
  members,   \* members of the one group
  fileKey,   \* key_uuid of the file's row, 0 when there is no row
  minted,    \* file keys minted so far
  owned,     \* keys whose owner wrap is in file_keys
  wraps,     \* recipients' wraps in file_keys: <<key, user>>
  bells,     \* share ids with a notification
  incoming,  \* the other server's ocm_incoming: ids of our shares
  clock,
  task,      \* requests in flight
  traffic    \* the mix of requests of this behaviour

vars == <<shares, nextId, members, fileKey, minted, owned, wraps, bells, incoming, clock, task, traffic>>

Ids == 1 .. MaxShares
Keys == 1 .. MaxKeys
NoShare == [with |-> "nobody", target |-> "none", expire |-> 0]
Share == [with : Users \cup {"group", "remote"}, target : {"file", "folder"}, expire : 0 .. MaxTime]
Copy == [id : Ids, row : Share]

\* A request: pc, the handler's local share and sets, the user of a
\* membership change, keys, and the job's idea of now.
Idle == [pc |-> "idle", op |-> "none", sh |-> {}, todo |-> {}, uids |-> {},
         key |-> 0, old |-> 0, wrapped |-> {}, num |-> 0]

Task == [pc : {"idle", "insert", "notify", "compensate", "bell", "unnotify", "delete", "dismiss",
               "update", "reap", "bells", "group", "spread", "read", "apply", "row", "carryList",
               "carry", "covering", "expand", "wrapping", "recheck", "live", "undo", "removeShares"},
         op : Ops \cup {"none"}, sh : SUBSET Copy, todo : SUBSET Copy, uids : SUBSET (Users \cup Ids),
         key : 0 .. MaxKeys, old : 0 .. MaxKeys, wrapped : SUBSET Users, num : 0 .. MaxTime]

TypeOK ==
  /\ shares \in [Ids -> Share \cup {NoShare}]
  /\ nextId \in 1 .. MaxShares + 1
  /\ members \subseteq Users
  /\ fileKey \in 0 .. minted /\ minted \in 0 .. MaxKeys
  /\ owned \subseteq Keys
  /\ wraps \subseteq Keys \X Users
  /\ bells \subseteq Ids /\ incoming \subseteq Ids
  /\ clock \in 0 .. MaxTime
  /\ task \in [Tasks -> Task]
  /\ traffic \ {"reconciled"} \in Traffics
-----------------------------------------------------------------------------
Rows == {[id |-> i, row |-> shares[i]] : i \in {j \in Ids : shares[j] # NoShare}}

\* expireIfNeeded's test, and the WHERE clause of ListExpired and
\* DeleteExpired, at time now.
Expired(row, now) == row.expire # 0 /\ row.expire <= now

\* shareeUIDs: whom a share reaches; a remote share reaches no local user.
Sharees(row) ==
  CASE row.with = "group"  -> members
    [] row.with = "remote" -> {}
    [] OTHER               -> {row.with}

\* Covering: the user and group shares of the file or of its folder.
CoveringRows == {c \in Rows : c.row.with # "remote"}

\* coveringUIDs: who may read the file by the tables as they are.
Covered == UNION {Sharees(c.row) : c \in CoveringRows}

\* Shares that exist when the model starts, with the wraps in step; shares
\* an import brought, before a reconciliation, have none.
Init ==
  /\ traffic \in Traffics
  /\ \E n \in 0 .. MaxShares - 1 :
       /\ nextId = n + 1
       /\ shares \in [Ids -> Share \cup {NoShare}]
       /\ \A i \in Ids : shares[i] # NoShare <=> i <= n
       /\ \A i \in 1 .. n : shares[i].with # "remote"
       /\ n > 0 => traffic \cap {"unshare", "update", "view", "job", "leave", "reconcile"} # {}
  /\ members \in SUBSET Users
  /\ minted \in {0, 1} /\ fileKey = minted /\ owned = 1 .. minted
  /\ fileKey = 0 => \A c \in Rows : c.row.target = "folder"
  /\ wraps = IF "reconcile" \in traffic THEN {} ELSE {<<k, u>> : k \in 1 .. minted, u \in Covered}
  /\ bells = {c.id : c \in Rows}
  /\ incoming = {}
  /\ clock = 0
  /\ task = [t \in Tasks |-> Idle]

Does(t, op) == task[t].pc = "idle" /\ op \in traffic
Goto(t, pc) == task' = [task EXCEPT ![t].pc = pc]
Done(t) == task' = [task EXCEPT ![t] = Idle]
Mine(t) == CHOOSE c \in task[t].sh : TRUE

\* Walk the shares of `cs' and apply the task's op to their recipients.
Spread(t, cs) == task' = [task EXCEPT ![t].pc = "spread", ![t].sh = {}, ![t].todo = cs]

tables == <<shares, nextId, members, fileKey, minted, owned, wraps, bells, incoming>>
keyTables == <<fileKey, minted, owned, wraps>>
-----------------------------------------------------------------------------
(* Service.Create                                                          *)

\* Validation and Stat of the target; the row is built in memory.
CreateStart(t, op, row) ==
  /\ Does(t, op)
  /\ row.with = "remote" <=> op = "federate"
  /\ row.target = "file" => fileKey # 0
  /\ nextId <= MaxShares
  /\ task' = [task EXCEPT ![t] = [Idle EXCEPT !.pc = "insert", !.op = op, !.sh = {[id |-> nextId, row |-> row]}]]
  /\ UNCHANGED <<tables, clock, traffic>>

\* Store.Insert; the id is what the database hands out.
CreateInsert(t) ==
  LET row == Mine(t).row IN
  /\ task[t].pc = "insert" /\ nextId <= MaxShares
  /\ shares' = [shares EXCEPT ![nextId] = row]
  /\ nextId' = nextId + 1
  /\ task' = [task EXCEPT ![t].pc = IF row.with = "remote" THEN "notify" ELSE "bell",
                          ![t].sh = {[id |-> nextId, row |-> row]}]
  /\ UNCHANGED <<members, keyTables, bells, incoming, clock, traffic>>

\* Mutation: a remote that does not answer is taken for one that agreed.
CreateNotifyKeeps(t, arrives, answered) ==
  /\ task[t].pc = "notify"
  /\ answered => arrives
  /\ incoming' = IF arrives THEN incoming \cup {Mine(t).id} ELSE incoming
  /\ Done(t)
  /\ UNCHANGED <<shares, nextId, members, keyTables, bells, clock, traffic>>

\* notifyRemote: discovery and POST /ocm/shares.  The notice may not arrive,
\* or arrive with its answer lost; the other side inserts a row.
CreateNotify(t, arrives, answered) ==
  /\ task[t].pc = "notify"
  /\ answered => arrives
  /\ incoming' = IF arrives THEN incoming \cup {Mine(t).id} ELSE incoming
  /\ IF answered THEN Done(t) ELSE Goto(t, "compensate")
  /\ UNCHANGED <<shares, nextId, members, keyTables, bells, clock, traffic>>

\* The local row of a share the remote did not confirm is deleted again.
CreateCompensate(t) ==
  /\ task[t].pc = "compensate"
  /\ shares' = [shares EXCEPT ![Mine(t).id] = NoShare]
  /\ Done(t)
  /\ UNCHANGED <<nextId, members, keyTables, bells, incoming, clock, traffic>>

\* notifyShareCreated, then wrapShareKeys.
CreateBell(t) ==
  /\ task[t].pc = "bell"
  /\ bells' = bells \cup {Mine(t).id}
  /\ Spread(t, task[t].sh)
  /\ UNCHANGED <<shares, nextId, members, keyTables, incoming, clock, traffic>>
-----------------------------------------------------------------------------
(* Service.Delete, Update and every read, all of which expire lazily       *)

\* GetForOwner, ListForOwner, lookupValidShare: the read, and what follows.
OwnerRead(t, op, c, e) ==
  /\ Does(t, op) /\ c \in Rows
  /\ \/ /\ Expired(c.row, clock)
        /\ task' = [task EXCEPT ![t] = [Idle EXCEPT !.pc = "delete", !.op = "unshare", !.sh = {c}]]
     \/ /\ ~Expired(c.row, clock) /\ op = "unshare"
        /\ task' = [task EXCEPT ![t] = [Idle EXCEPT !.pc = IF c.row.with = "remote" THEN "unnotify" ELSE "delete",
                                                    !.op = op, !.sh = {c}]]
     \/ /\ ~Expired(c.row, clock) /\ op = "update"
        /\ task' = [task EXCEPT ![t] = [Idle EXCEPT !.pc = "update", !.op = op, !.sh = {c}, !.num = e]]
  /\ UNCHANGED <<tables, clock, traffic>>

\* notifyUnshare: the remote deletes its row by id and token, unless the
\* notice is lost; either way the error is dropped.
Unnotify(t, arrives) ==
  /\ task[t].pc = "unnotify"
  /\ incoming' = IF arrives THEN incoming \ {Mine(t).id} ELSE incoming
  /\ Goto(t, "delete")
  /\ UNCHANGED <<shares, nextId, members, keyTables, bells, clock, traffic>>

\* Store.Delete.
DeleteRow(t) ==
  /\ task[t].pc = "delete"
  /\ shares' = [shares EXCEPT ![Mine(t).id] = NoShare]
  /\ Goto(t, "dismiss")
  /\ UNCHANGED <<nextId, members, keyTables, bells, incoming, clock, traffic>>

\* dismissShareNotifications, then unwrapShareKeys.
Dismiss(t) ==
  /\ task[t].pc = "dismiss"
  /\ bells' = bells \ {Mine(t).id}
  /\ Spread(t, task[t].sh)
  /\ UNCHANGED <<shares, nextId, members, keyTables, incoming, clock, traffic>>

\* Store.Update: WHERE id = ? changes nothing when the row is gone.
UpdateRow(t) ==
  LET i == Mine(t).id IN
  /\ task[t].pc = "update"
  /\ shares' = IF shares[i] = NoShare THEN shares ELSE [shares EXCEPT ![i].expire = task[t].num]
  /\ Done(t)
  /\ UNCHANGED <<nextId, members, keyTables, bells, incoming, clock, traffic>>
-----------------------------------------------------------------------------
(* The job shares.expire                                                   *)

\* ListExpired at the job's now.
JobList(t) ==
  /\ Does(t, "job")
  /\ task' = [task EXCEPT ![t] = [Idle EXCEPT !.pc = "reap", !.op = "job", !.num = clock,
                                              !.todo = {c \in Rows : Expired(c.row, clock)}]]
  /\ UNCHANGED <<tables, clock, traffic>>

\* Mutation: every share that was listed is unwrapped.
JobReapAll(t) ==
  LET reaped == {c.id : c \in {d \in Rows : Expired(d.row, task[t].num)}} IN
  /\ task[t].pc = "reap"
  /\ shares' = [i \in Ids |-> IF i \in reaped THEN NoShare ELSE shares[i]]
  /\ task' = [task EXCEPT ![t].pc = "bells", ![t].uids = reaped]
  /\ UNCHANGED <<nextId, members, keyTables, bells, incoming, clock, traffic>>

\* DeleteExpired at the same now, and the doomed shares that were reaped.
JobReap(t) ==
  LET reaped == {c.id : c \in {d \in Rows : Expired(d.row, task[t].num)}} IN
  /\ task[t].pc = "reap"
  /\ shares' = [i \in Ids |-> IF i \in reaped THEN NoShare ELSE shares[i]]
  /\ task' = [task EXCEPT ![t].pc = "bells", ![t].uids = reaped,
                          ![t].todo = {c \in task[t].todo : c.id \in reaped}]
  /\ UNCHANGED <<nextId, members, keyTables, bells, incoming, clock, traffic>>

JobDismiss(t) ==
  /\ task[t].pc = "bells"
  /\ bells' = bells \ task[t].uids
  /\ task' = [task EXCEPT ![t].pc = "spread", ![t].uids = {}]
  /\ UNCHANGED <<shares, nextId, members, keyTables, incoming, clock, traffic>>
-----------------------------------------------------------------------------
(* Group membership                                                        *)

\* AddGroupMember and RemoveGroupMember: the row, then the hook.
Member(t, op, u) ==
  /\ Does(t, op) /\ op \in {"join", "leave"}
  /\ op = "leave" => u \in members
  /\ members' = IF op = "join" THEN members \cup {u} ELSE members \ {u}
  /\ task' = [task EXCEPT ![t] = [Idle EXCEPT !.pc = "group", !.op = op, !.wrapped = {u}]]
  /\ UNCHANGED <<shares, nextId, keyTables, bells, incoming, clock, traffic>>

\* forGroupShares: every share granted to the group.
GroupShares(t) ==
  /\ task[t].pc = "group"
  /\ Spread(t, {c \in Rows : c.row.with = "group"})
  /\ UNCHANGED <<tables, clock, traffic>>

\* The operator's reconcile: every share as it is now; then WrapForShare for
\* each.  Minting and pruning of user keys concern no recipient here.
\* Mutation: user shares only.
ReconcileUsers(t) ==
  /\ Does(t, "reconcile")
  /\ task' = [task EXCEPT ![t] = [Idle EXCEPT !.pc = "spread", !.op = "reconcile", !.todo = {c \in Rows : c.row.with # "group"}]]
  /\ UNCHANGED <<tables, clock, traffic>>

Reconcile(t) ==
  /\ Does(t, "reconcile")
  /\ task' = [task EXCEPT ![t] = [Idle EXCEPT !.pc = "spread", !.op = "reconcile", !.todo = Rows]]
  /\ UNCHANGED <<tables, clock, traffic>>
-----------------------------------------------------------------------------
(* wrapShareTarget for every share and recipient of a hook.  A share hook  *)
(* reads the members of the group once per share; a membership hook has    *)
(* its one user.  A failing wrap is logged and passed over.                *)

Recipients(t, row) == IF task[t].op \in {"join", "leave"} THEN task[t].wrapped ELSE Sharees(row)

SpreadShare(t) ==
  /\ task[t].pc = "spread"
  /\ IF task[t].todo = {}
     THEN Done(t)
     ELSE \E c \in task[t].todo :
            task' = [task EXCEPT ![t].pc = "read", ![t].sh = {c}, ![t].todo = @ \ {c},
                                 ![t].uids = Recipients(t, c.row)]
  /\ traffic' = IF task[t].op = "reconcile" /\ task[t].todo = {} THEN traffic \cup {"reconciled"} ELSE traffic
  /\ UNCHANGED <<tables, clock>>

\* GetByPath or ListSealedSubtree: the key of the file as it is now.
SpreadRead(t) ==
  /\ task[t].pc = "read"
  /\ \/ task[t].uids = {} /\ Goto(t, "spread")
     \/ fileKey = 0 /\ \E u \in task[t].uids : task' = [task EXCEPT ![t].uids = @ \ {u}]
     \/ task[t].uids # {} /\ fileKey # 0 /\ task' = [task EXCEPT ![t].pc = "apply", ![t].key = fileKey]
  /\ UNCHANGED <<tables, clock, traffic>>

\* WrapKeyFor needs a key that some row still resolves; UnwrapKeyFor does not.
SpreadApply(t) ==
  LET k == task[t].key IN
  /\ task[t].pc = "apply"
  /\ \E u \in task[t].uids :
       /\ wraps' = IF task[t].op \in {"share", "join", "reconcile"}
                   THEN IF k \in owned THEN wraps \cup {<<k, u>>} ELSE wraps
                   ELSE wraps \ {<<k, u>>}
       /\ task' = [task EXCEPT ![t].pc = "read", ![t].uids = @ \ {u}]
  /\ UNCHANGED <<shares, nextId, members, fileKey, minted, owned, bells, incoming, clock, traffic>>
-----------------------------------------------------------------------------
(* A write: the row with a fresh key, then shareFileKey, inside the stripe *)

Writing(t) == task[t].op \in {"write", "overwrite"}

\* Mutation: the key is used before it is recorded.
MintUnrecorded(t, op) ==
  /\ Does(t, op)
  /\ op = "write" <=> fileKey = 0
  /\ \A s \in Tasks : ~Writing(s)
  /\ minted < MaxKeys
  /\ task' = [task EXCEPT ![t] = [Idle EXCEPT !.pc = "row", !.op = op, !.key = minted + 1, !.old = fileKey]]
  /\ UNCHANGED <<shares, nextId, members, fileKey, minted, owned, wraps, bells, incoming, clock, traffic>>

\* The existing row is read, and storage.Create mints a key (Allocate).
WriteStart(t, op) ==
  /\ Does(t, op)
  /\ op = "write" <=> fileKey = 0
  /\ \A s \in Tasks : ~Writing(s)
  /\ minted < MaxKeys
  /\ minted' = minted + 1
  /\ owned' = owned \cup {minted + 1}
  /\ task' = [task EXCEPT ![t] = [Idle EXCEPT !.pc = "row", !.op = op, !.key = minted + 1, !.old = fileKey]]
  /\ UNCHANGED <<shares, nextId, members, fileKey, wraps, bells, incoming, clock, traffic>>

\* Meta.Insert or UpdateMeta, which fails when the row was removed.
WriteRow(t) ==
  LET w == task[t] IN
  /\ w.pc = "row"
  /\ IF w.old # 0 /\ fileKey = 0
     THEN Done(t) /\ UNCHANGED fileKey
     ELSE /\ fileKey' = w.key
          /\ Goto(t, IF w.old # 0 THEN "carryList" ELSE "covering")
  /\ UNCHANGED <<shares, nextId, members, minted, owned, wraps, bells, incoming, clock, traffic>>

\* reWrapShareesWithFK: list the recipients of the old key, ...
CarryList(t) ==
  /\ task[t].pc = "carryList"
  /\ task' = [task EXCEPT ![t].pc = "carry", ![t].uids = {u \in Users : <<task[t].old, u>> \in wraps}]
  /\ UNCHANGED <<tables, clock, traffic>>

\* Mutation: an overwrite takes the carry for enough.
CarryEnds(t) ==
  LET w == task[t] IN
  /\ w.pc = "carry"
  /\ \/ \E u \in w.uids :
          /\ wraps' = wraps \cup {<<w.key, u>>}
          /\ task' = [task EXCEPT ![t].uids = @ \ {u}]
          /\ UNCHANGED owned
     \/ /\ w.uids = {}
        /\ wraps' = {p \in wraps : p[1] # w.old}
        /\ owned' = owned \ {w.old}
        /\ Done(t)
  /\ UNCHANGED <<shares, nextId, members, fileKey, minted, bells, incoming, clock, traffic>>

\* ... give each one a wrap of the new key, and delete every old row.
Carry(t) ==
  LET w == task[t] IN
  /\ w.pc = "carry"
  /\ \/ \E u \in w.uids :
          /\ wraps' = wraps \cup {<<w.key, u>>}
          /\ task' = [task EXCEPT ![t].uids = @ \ {u}]
          /\ UNCHANGED owned
     \/ /\ w.uids = {}
        /\ wraps' = {p \in wraps : p[1] # w.old}
        /\ owned' = owned \ {w.old}
        /\ Goto(t, "covering")
  /\ UNCHANGED <<shares, nextId, members, fileKey, minted, bells, incoming, clock, traffic>>

\* WrapForWrite: no covering share ends it.
CoveringRead(t) ==
  /\ task[t].pc = "covering"
  /\ IF CoveringRows = {} THEN Done(t)
     ELSE task' = [task EXCEPT ![t].pc = "expand", ![t].todo = CoveringRows]
  /\ UNCHANGED <<tables, clock, traffic>>

\* The recipients of one covering share after the other.
Expand(t) ==
  LET w == task[t] IN
  /\ w.pc = "expand"
  /\ \/ \E c \in w.todo :
          task' = [task EXCEPT ![t].pc = "wrapping", ![t].todo = @ \ {c}, ![t].uids = Sharees(c.row)]
     \/ w.todo = {} /\ IF w.wrapped = {} THEN Done(t) ELSE Goto(t, "recheck")
  /\ UNCHANGED <<tables, clock, traffic>>

WrapOne(t) ==
  LET w == task[t] IN
  /\ w.pc = "wrapping"
  /\ \/ \E u \in w.uids :
          /\ wraps' = wraps \cup {<<w.key, u>>}
          /\ task' = [task EXCEPT ![t].uids = @ \ {u}, ![t].wrapped = @ \cup {u}]
     \/ w.uids = {} /\ Goto(t, "expand") /\ UNCHANGED wraps
  /\ UNCHANGED <<shares, nextId, members, fileKey, minted, owned, bells, incoming, clock, traffic>>

\* Mutation: the reconciliation is left out.
RecheckDropped(t) == task[t].pc = "recheck" /\ Done(t) /\ UNCHANGED <<tables, clock, traffic>>

\* The reconciliation: Covering again, then the recipients of what it found.
Recheck(t) ==
  /\ task[t].pc = "recheck"
  /\ task' = [task EXCEPT ![t].pc = "live", ![t].todo = CoveringRows]
  /\ UNCHANGED <<tables, clock, traffic>>

LiveUIDs(t) ==
  /\ task[t].pc = "live"
  /\ task' = [task EXCEPT ![t].pc = "undo", ![t].todo = {},
                          ![t].wrapped = @ \ UNION {Sharees(c.row) : c \in task[t].todo}]
  /\ UNCHANGED <<tables, clock, traffic>>

\* Unwrap whoever was wrapped and is no longer covered.
UndoOne(t) ==
  LET w == task[t] IN
  /\ w.pc = "undo"
  /\ \/ \E u \in w.wrapped :
          /\ wraps' = wraps \ {<<w.key, u>>}
          /\ task' = [task EXCEPT ![t].wrapped = @ \ {u}]
     \/ w.wrapped = {} /\ Done(t) /\ UNCHANGED wraps
  /\ UNCHANGED <<shares, nextId, members, fileKey, minted, owned, bells, incoming, clock, traffic>>
-----------------------------------------------------------------------------
\* MoveToTrash of the file: DeleteSubtree, then Shares.DeleteByPath.
RemoveRow(t) ==
  /\ Does(t, "remove") /\ fileKey # 0
  /\ fileKey' = 0
  /\ task' = [task EXCEPT ![t] = [Idle EXCEPT !.pc = "removeShares", !.op = "remove"]]
  /\ UNCHANGED <<shares, nextId, members, minted, owned, wraps, bells, incoming, clock, traffic>>

RemoveShares(t) ==
  /\ task[t].pc = "removeShares"
  /\ shares' = [i \in Ids |-> IF shares[i].target = "file" THEN NoShare ELSE shares[i]]
  /\ Done(t)
  /\ UNCHANGED <<nextId, members, keyTables, bells, incoming, clock, traffic>>

\* The recipient on the other server drops an incoming share; our server is
\* not told.
Decline(i) ==
  /\ "decline" \in traffic /\ i \in incoming
  /\ incoming' = incoming \ {i}
  /\ UNCHANGED <<shares, nextId, members, keyTables, bells, clock, task, traffic>>

Tick ==
  /\ clock < MaxTime
  /\ clock' = clock + 1
  /\ UNCHANGED <<tables, task, traffic>>

Next ==
  \/ \E t \in Tasks :
       \/ \E row \in Share, op \in {"share", "federate"} : CreateStart(t, op, row)
       \/ CreateInsert(t) \/ CreateCompensate(t) \/ CreateBell(t)
       \/ \E a, b \in BOOLEAN : CreateNotify(t, a, b)
       \/ \E op \in {"unshare", "update", "view"}, c \in Rows, e \in 0 .. MaxTime : OwnerRead(t, op, c, e)
       \/ \E a \in BOOLEAN : Unnotify(t, a)
       \/ DeleteRow(t) \/ Dismiss(t) \/ UpdateRow(t)
       \/ JobList(t) \/ JobReap(t) \/ JobDismiss(t)
       \/ \E op \in {"join", "leave"}, u \in Users : Member(t, op, u)
       \/ Reconcile(t) \/ GroupShares(t) \/ SpreadShare(t) \/ SpreadRead(t) \/ SpreadApply(t)
       \/ \E op \in {"write", "overwrite"} : WriteStart(t, op)
       \/ WriteRow(t) \/ CarryList(t) \/ Carry(t) \/ CoveringRead(t) \/ Expand(t) \/ WrapOne(t)
       \/ Recheck(t) \/ LiveUIDs(t) \/ UndoOne(t) \/ RemoveRow(t) \/ RemoveShares(t)
  \/ \E i \in incoming : Decline(i)
  \/ Tick

Spec == Init /\ [][Next]_vars
-----------------------------------------------------------------------------
(* Properties                                                              *)

Quiet == \A t \in Tasks : task[t].pc = "idle"
Holders == {u \in Users : <<fileKey, u>> \in wraps}

\* A first write of a file races revocations by request, by lazy expiry and
\* by the job, or members leaving: once all are done nobody holds the key
\* whom no share covers.  (WrapForWrite's second Covering read and the order
\* of delete and unwrap in Service.Delete.)
NoStrayWrap ==
  Quiet /\ (traffic \subseteq {"write", "unshare", "view", "job"} \/ traffic \subseteq {"write", "leave"})
    => Holders \subseteq Covered

\* New shares, members joining, writes of any kind, and the operator's
\* reconciliation of shares an import brought without wraps overlap: once
\* all are done everybody covered holds the key the file has now.  (Create
\* and AddGroupMember put their row before they read the file, a write puts
\* the file before it reads the shares.)
CoveredHaveKey ==
  /\ Quiet /\ fileKey # 0
  /\ traffic \subseteq {"share", "join", "write", "overwrite", "reconcile", "reconciled"}
  /\ "reconcile" \in traffic => "reconciled" \in traffic
  => Covered \subseteq Holders

\* Wraps are taken away on behalf of a share only when its row is gone,
\* however often its expiry is moved meanwhile.  (The job unwraps exactly
\* the shares it deleted; Service.Delete deletes before it unwraps.)
UnwrapAfterDelete ==
  \A t \in Tasks :
    /\ task[t].pc \in {"spread", "read", "apply"} /\ task[t].op \in {"unshare", "job"}
    => \A c \in task[t].sh \cup task[t].todo : shares[c.id] = NoShare

\* A federated share that has an owner-visible row and no request working on
\* it was confirmed by the other server, which still has its side unless the
\* recipient dropped it.  (Create's compensation, and Delete's order.)
FederatedBothSides ==
  "decline" \notin traffic =>
    \A c \in Rows : c.row.with = "remote" /\ (\A t \in Tasks : c.id \notin {d.id : d \in task[t].sh})
      => c.id \in incoming
=============================================================================
