---------------------------- MODULE SharesProofs ----------------------------
(***************************************************************************)
(* Wraps are taken away only after the share is gone, a federated share    *)
(* has both its sides, no recipient keeps a key that nothing covers, and   *)
(* everybody covered gets the key, for any number of recipients, requests, *)
(* shares, keys and ticks.                                                 *)
(***************************************************************************)
EXTENDS Shares, TLAPS

-----------------------------------------------------------------------------
(* What a request in flight looks like.                                    *)

\* The walk over shares and recipients that ends grants and revocations.
Walk == {"spread", "read", "apply"}

\* A writer whose key is minted.
Minted == {"row", "carryList", "carry", "covering", "expand", "wrapping", "recheck", "live", "undo"}

\* The statements of each operation.
Fits(r) ==
  /\ r.pc \in {"insert", "bell"} => r.op \in {"share", "federate"}
  /\ r.pc \in {"notify", "compensate"} => r.op \in {"share", "federate"}
  /\ r.pc \in {"unnotify", "delete", "dismiss"} => r.op = "unshare"
  /\ r.pc = "update" => r.op = "update"
  /\ r.pc \in {"reap", "bells"} => r.op = "job"
  /\ r.pc = "group" => r.op \in {"join", "leave"}
  /\ r.pc \in Walk => r.op \in {"share", "federate", "unshare", "job", "join", "leave", "reconcile"}
  /\ r.pc \in Minted => r.op \in {"write", "overwrite"}
  /\ r.pc = "removeShares" => r.op = "remove"
  /\ r.pc = "idle" => r.op = "none"

\* A handler with one share in its hands.
Single == {"insert", "notify", "compensate", "bell", "unnotify", "delete", "dismiss", "update"}

Holds(r) ==
  /\ r.pc \in Single => r.todo = {} /\ \E c \in Copy : r.sh = {c}
  /\ r.pc \in {"reap", "bells"} => r.sh = {}
  /\ r.pc # "bells" => r.uids \subseteq Users
  /\ r.pc \in Minted => r.key # 0

\* Keys are minted, and shares inserted, before a request knows of them.
Known(r, lastKey, next) ==
  /\ r.key <= lastKey
  /\ r.pc # "insert" => \A c \in r.sh \cup r.todo : c.id < next

Fresh == \A i \in Ids : i >= nextId => shares[i] = NoShare

Base ==
  /\ TypeOK /\ Fresh
  /\ \A t \in Tasks : Fits(task[t]) /\ Holds(task[t]) /\ Known(task[t], minted, nextId)

\* A revocation has deleted what it unwraps.
Gone(r) ==
  r.pc \in {"dismiss", "bells"} \/ (r.pc \in Walk /\ r.op \in {"unshare", "job"}) =>
    \A c \in r.sh \cup r.todo : shares[c.id] = NoShare

GoneInv == \A t \in Tasks : Gone(task[t])

\* A federated share without its other side is being given up, or not yet
\* confirmed.
FedInv ==
  "decline" \notin traffic =>
    \A i \in Ids : shares[i].with = "remote" /\ i \notin incoming =>
      \E t \in Tasks : task[t].pc \in {"notify", "compensate", "delete"} /\ \E c \in task[t].sh : c.id = i

-----------------------------------------------------------------------------
(* First writes against revocations.                                       *)

FirstWrites == traffic \subseteq {"write", "unshare", "view", "job"}
Leavers == traffic \subseteq {"write", "leave"}
Mix == FirstWrites \/ Leavers

\* What is in flight was asked for; a view of an expired share revokes it.
Asked ==
  \A t \in Tasks :
    \/ task[t].op \in traffic \cup {"none"}
    \/ task[t].op = "unshare" /\ traffic \cap {"view", "update"} # {}

\* There is one writer, and its key is the file's from its row on.
OneWriter ==
  /\ \A t, s \in Tasks : Writing(t) /\ Writing(s) => t = s
  /\ \A t \in Tasks : Writing(t) => 
       /\ task[t].pc = "row" => task[t].old = 0 /\ fileKey = 0
       /\ task[t].pc # "row" => task[t].key = fileKey /\ task[t].pc \notin {"carryList", "carry"}
  /\ \A p \in wraps : p[1] = fileKey

\* A copy of a share that is still there is exact; the job has listed every
\* share it will reap.
Exact(r) ==
  /\ \A c \in r.sh \cup r.todo : shares[c.id] \in {NoShare, c.row}
  /\ r.pc = "reap" => \A c \in Rows : Expired(c.row, r.num) => c \in r.todo

\* Request t will take u's wrap away ...
Strips(t, u) ==
  /\ task[t].op \in {"unshare", "job", "leave"}
  /\ \/ task[t].pc = "dismiss" /\ \E c \in task[t].sh : u \in Recipients(t, c.row)
     \/ task[t].pc = "group" /\ u \in task[t].wrapped /\ \E c \in Rows : c.row.with = "group"
     \/ task[t].pc \in Walk \cup {"bells"} /\ \E c \in task[t].todo : u \in Recipients(t, c.row)
     \/ task[t].pc = "read" /\ u \in task[t].uids
     \/ task[t].pc = "apply" /\ u \in task[t].uids /\ task[t].key = fileKey

\* ... or is the writer, who will find out that no share covers u.
Rechecks(t, u) ==
  /\ task[t].op = "write" /\ u \in task[t].wrapped
  /\ \/ task[t].pc \in {"expand", "wrapping", "recheck", "undo"}
     \/ task[t].pc = "live" /\ \A c \in task[t].todo : u \notin Sharees(c.row)

Justified(u) == u \in Covered \/ \E t \in Tasks : Strips(t, u) \/ Rechecks(t, u)

StrayInv ==
  /\ Asked
  /\ Mix => /\ OneWriter
            /\ \A t \in Tasks : Exact(task[t])
            /\ \A u \in Holders : Justified(u)

-----------------------------------------------------------------------------
(* Every step keeps the types.                                             *)

Tables ==
  /\ shares \in [Ids -> Share \cup {NoShare}]
  /\ nextId \in 1 .. MaxShares + 1
  /\ members \subseteq Users
  /\ fileKey \in 0 .. minted /\ minted \in 0 .. MaxKeys
  /\ owned \subseteq Keys
  /\ wraps \subseteq Keys \X Users
  /\ bells \subseteq Ids /\ incoming \subseteq Ids
  /\ clock \in 0 .. MaxTime
  /\ traffic \ {"reconciled"} \in Traffics

\* One request moves on, to a state that is one of its own.
Took(t) ==
  /\ task' \in [Tasks -> Task]
  /\ \A q \in Tasks \ {t} : task'[q] = task[q]
  /\ Fits(task'[t]) /\ Holds(task'[t]) /\ Known(task'[t], minted', nextId')

LEMMA IdleTask == Idle \in Task /\ Fits(Idle) /\ Holds(Idle)
  BY SharesAssumption DEF Idle, Task, Fits, Holds, Walk, Minted, Single, Ids, Copy, Share

PCs == {"idle"} \cup Single \cup Walk \cup Minted \cup {"reap", "bells", "group", "removeShares"}

\* The types of the fields, by name.
Marks == Ops \cup {"none"}
Copies == SUBSET Copy
Uids == SUBSET (Users \cup Ids)
Whom == SUBSET Users
KeyNums == 0 .. MaxKeys
Times == 0 .. MaxTime

LEMMA TaskIs ==
  /\ Task = [pc : PCs, op : Marks, sh : Copies, todo : Copies, uids : Uids, key : KeyNums, old : KeyNums,
             wrapped : Whom, num : Times]
  /\ Whom \subseteq Uids /\ Ops \subseteq Marks
  <1>1. PCs = {"idle", "insert", "notify", "compensate", "bell", "unnotify", "delete", "dismiss",
               "update", "reap", "bells", "group", "spread", "read", "apply", "row", "carryList",
               "carry", "covering", "expand", "wrapping", "recheck", "live", "undo", "removeShares"}
    BY DEF PCs, Single, Walk, Minted
  <1> QED BY <1>1 DEF Task, Marks, Copies, Uids, Whom, KeyNums, Times

\* Assignments to the fields of a request keep its type.
LEMMA Sets ==
  ASSUME NEW r \in Task
  PROVE  /\ \A pc \in PCs : [r EXCEPT !.pc = pc] \in Task
         /\ \A pc \in PCs, sh \in Copies : [r EXCEPT !.pc = pc, !.sh = sh] \in Task
         /\ \A pc \in PCs, sh \in Copies, todo \in Copies : [r EXCEPT !.pc = pc, !.sh = sh, !.todo = todo] \in Task
         /\ \A pc \in PCs, sh \in Copies, todo \in Copies, uids \in Whom : [r EXCEPT !.pc = pc, !.sh = sh, !.todo = todo, !.uids = uids] \in Task
         /\ \A pc \in PCs, todo \in Copies : [r EXCEPT !.pc = pc, !.todo = todo] \in Task
         /\ \A pc \in PCs, uids \in Uids, todo \in Copies : [r EXCEPT !.pc = pc, !.uids = uids, !.todo = todo] \in Task
         /\ \A pc \in PCs, todo \in Copies, uids \in Whom : [r EXCEPT !.pc = pc, !.todo = todo, !.uids = uids] \in Task
         /\ \A pc \in PCs, todo \in Copies, wrapped \in Whom : [r EXCEPT !.pc = pc, !.todo = todo, !.wrapped = wrapped] \in Task
         /\ \A pc \in PCs, uids \in Uids : [r EXCEPT !.pc = pc, !.uids = uids] \in Task
         /\ \A uids \in Whom : [r EXCEPT !.uids = uids] \in Task
         /\ \A wrapped \in Whom : [r EXCEPT !.wrapped = wrapped] \in Task
         /\ \A uids \in Whom, wrapped \in Whom : [r EXCEPT !.uids = uids, !.wrapped = wrapped] \in Task
         /\ \A pc \in PCs, key \in KeyNums : [r EXCEPT !.pc = pc, !.key = key] \in Task
  <1>1. \A pc \in PCs : [r EXCEPT !.pc = pc] \in Task BY TaskIs
  <1>2. \A pc \in PCs, sh \in Copies : [r EXCEPT !.pc = pc, !.sh = sh] \in Task BY TaskIs
  <1>3. \A pc \in PCs, sh \in Copies, todo \in Copies : [r EXCEPT !.pc = pc, !.sh = sh, !.todo = todo] \in Task BY TaskIs
  <1>4. \A pc \in PCs, sh \in Copies, todo \in Copies, uids \in Whom : [r EXCEPT !.pc = pc, !.sh = sh, !.todo = todo, !.uids = uids] \in Task BY TaskIs
  <1>5. \A pc \in PCs, todo \in Copies : [r EXCEPT !.pc = pc, !.todo = todo] \in Task BY TaskIs
  <1>6. \A pc \in PCs, uids \in Uids, todo \in Copies : [r EXCEPT !.pc = pc, !.uids = uids, !.todo = todo] \in Task BY TaskIs
  <1>7. \A pc \in PCs, todo \in Copies, uids \in Whom : [r EXCEPT !.pc = pc, !.todo = todo, !.uids = uids] \in Task BY TaskIs
  <1>8. \A pc \in PCs, todo \in Copies, wrapped \in Whom : [r EXCEPT !.pc = pc, !.todo = todo, !.wrapped = wrapped] \in Task BY TaskIs
  <1>9. \A pc \in PCs, uids \in Uids : [r EXCEPT !.pc = pc, !.uids = uids] \in Task BY TaskIs
  <1>10. \A uids \in Whom : [r EXCEPT !.uids = uids] \in Task BY TaskIs
  <1>11. \A wrapped \in Whom : [r EXCEPT !.wrapped = wrapped] \in Task BY TaskIs
  <1>12. \A uids \in Whom, wrapped \in Whom : [r EXCEPT !.uids = uids, !.wrapped = wrapped] \in Task BY TaskIs
  <1>13. \A pc \in PCs, key \in KeyNums : [r EXCEPT !.pc = pc, !.key = key] \in Task BY TaskIs
  <1> QED BY <1>1, <1>2, <1>3, <1>4, <1>5, <1>6, <1>7, <1>8, <1>9, <1>10, <1>11, <1>12, <1>13

LEMMA Begin ==
  /\ \A pc \in PCs, op \in Ops : [Idle EXCEPT !.pc = pc, !.op = op] \in Task
  /\ \A pc \in PCs, op \in Ops, sh \in Copies : [Idle EXCEPT !.pc = pc, !.op = op, !.sh = sh] \in Task
  /\ \A pc \in PCs, op \in Ops, sh \in Copies, num \in Times : [Idle EXCEPT !.pc = pc, !.op = op, !.sh = sh, !.num = num] \in Task
  /\ \A pc \in PCs, op \in Ops, todo \in Copies : [Idle EXCEPT !.pc = pc, !.op = op, !.todo = todo] \in Task
  /\ \A pc \in PCs, op \in Ops, num \in Times, todo \in Copies : [Idle EXCEPT !.pc = pc, !.op = op, !.num = num, !.todo = todo] \in Task
  /\ \A pc \in PCs, op \in Ops, wrapped \in Whom : [Idle EXCEPT !.pc = pc, !.op = op, !.wrapped = wrapped] \in Task
  /\ \A pc \in PCs, op \in Ops, key \in KeyNums, old \in KeyNums : [Idle EXCEPT !.pc = pc, !.op = op, !.key = key, !.old = old] \in Task
  <1>1. \A pc \in PCs, op \in Ops : [Idle EXCEPT !.pc = pc, !.op = op] \in Task BY TaskIs, IdleTask
  <1>2. \A pc \in PCs, op \in Ops, sh \in Copies : [Idle EXCEPT !.pc = pc, !.op = op, !.sh = sh] \in Task BY TaskIs, IdleTask
  <1>3. \A pc \in PCs, op \in Ops, sh \in Copies, num \in Times : [Idle EXCEPT !.pc = pc, !.op = op, !.sh = sh, !.num = num] \in Task BY TaskIs, IdleTask
  <1>4. \A pc \in PCs, op \in Ops, todo \in Copies : [Idle EXCEPT !.pc = pc, !.op = op, !.todo = todo] \in Task BY TaskIs, IdleTask
  <1>5. \A pc \in PCs, op \in Ops, num \in Times, todo \in Copies : [Idle EXCEPT !.pc = pc, !.op = op, !.num = num, !.todo = todo] \in Task BY TaskIs, IdleTask
  <1>6. \A pc \in PCs, op \in Ops, wrapped \in Whom : [Idle EXCEPT !.pc = pc, !.op = op, !.wrapped = wrapped] \in Task BY TaskIs, IdleTask
  <1>7. \A pc \in PCs, op \in Ops, key \in KeyNums, old \in KeyNums : [Idle EXCEPT !.pc = pc, !.op = op, !.key = key, !.old = old] \in Task BY TaskIs, IdleTask
  <1> QED BY <1>1, <1>2, <1>3, <1>4, <1>5, <1>6, <1>7

\* The fields of a request after its step.
Became(t, pc, op, sh, todo, uids, key, old, wrapped, num) ==
  /\ task'[t].pc = pc /\ task'[t].op = op /\ task'[t].sh = sh /\ task'[t].todo = todo
  /\ task'[t].uids = uids /\ task'[t].key = key /\ task'[t].old = old
  /\ task'[t].wrapped = wrapped /\ task'[t].num = num

LEMMA Plain ==
  ASSUME Base, NEW t \in Tasks, NEW w \in Task, task' = [task EXCEPT ![t] = w], Fits(w), Holds(w),
         Known(w, minted', nextId')
  PROVE  Took(t) /\ task'[t] = w
  <1>1. task \in [Tasks -> Task] BY DEF Base, TypeOK
  <1>2. task'[t] = w /\ task' \in [Tasks -> Task] /\ \A q \in Tasks \ {t} : task'[q] = task[q] BY <1>1
  <1> QED BY <1>2 DEF Took

\* A request as it is.
LEMMA Here ==
  ASSUME Base, NEW t \in Tasks
  PROVE  /\ task \in [Tasks -> Task] /\ task[t] \in Task
         /\ Fits(task[t]) /\ Holds(task[t]) /\ Known(task[t], minted, nextId)
         /\ task[t].pc \in PCs /\ task[t].op \in Marks /\ task[t].sh \in Copies /\ task[t].todo \in Copies
         /\ task[t].uids \in Uids /\ task[t].wrapped \in Whom
         /\ task[t].key \in KeyNums /\ task[t].old \in KeyNums /\ task[t].num \in Times
  <1>1. task \in [Tasks -> Task] /\ task[t] \in Task BY DEF Base, TypeOK
  <1> QED BY <1>1, TaskIs DEF Base

LEMMA Stops ==
  ASSUME Base, NEW t \in Tasks, Done(t), minted' \in Nat
  PROVE  Took(t) /\ task'[t] = Idle
  <1>1. Known(Idle, minted', nextId') BY DEF Idle, Known
  <1> QED BY <1>1, IdleTask, Plain DEF Done

\* A share in the table.
LEMMA RowTypes ==
  ASSUME Base
  PROVE  /\ Rows \in Copies /\ \A c \in Rows : c.id < nextId /\ c.row = shares[c.id]
         /\ \A i \in Ids : shares[i] # NoShare => [id |-> i, row |-> shares[i]] \in Rows
         /\ CoveringRows \in Copies /\ CoveringRows \subseteq Rows
  <1>1. \A i \in Ids : shares[i] # NoShare => shares[i] \in Share /\ i < nextId
    BY DEF Base, TypeOK, Fresh, Ids
  <1>2. Rows \in Copies /\ \A c \in Rows : c.id < nextId /\ c.row = shares[c.id] BY <1>1 DEF Rows, Copy, Copies
  <1> QED BY <1>2 DEF Rows, CoveringRows, Copies

LEMMA ShareeTypes ==
  ASSUME Base, NEW c \in Copy
  PROVE  Sharees(c.row) \in Whom
  BY DEF Base, TypeOK, Copy, Share, Sharees, Whom

LEMMA CreateStartOne ==
  ASSUME Base, NEW t \in Tasks, NEW op \in {"share", "federate"}, NEW row \in Share, CreateStart(t, op, row)
  PROVE  Took(t) /\ Became(t, "insert", op, {[id |-> nextId, row |-> row]}, {}, {}, 0, 0, {}, 0)
  <1> DEFINE c == [id |-> nextId, row |-> row]
             w == [Idle EXCEPT !.pc = "insert", !.op = op, !.sh = {c}]
  <1>1. c \in Copy BY SharesAssumption DEF CreateStart, Base, TypeOK, Copy, Ids
  <1>2. task' = [task EXCEPT ![t] = w] /\ minted' = minted BY DEF CreateStart, tables, keyTables
  <1> HIDE DEF c
  <1>3. w \in Task
    <2>1. "insert" \in PCs /\ op \in Ops BY DEF PCs, Single, Ops
    <2>2. {c} \in Copies BY <1>1 DEF Copies
    <2> QED BY <2>1, <2>2, Begin
  <1>4. Fits(w) /\ Holds(w) BY <1>1 DEF Idle, Fits, Holds, Walk, Minted, Single
  <1>5. Known(w, minted', nextId') BY <1>2 DEF Known, Idle, Base, TypeOK
  <1> HIDE DEF w, Became, Idle
  <1>6. Took(t) /\ task'[t] = w BY <1>2, <1>3, <1>4, <1>5, Plain
  <1>b. Became(t, "insert", op, {c}, {}, {}, 0, 0, {}, 0)
    BY <1>6 DEF w, Became, Idle
  <1> QED BY <1>6, <1>b DEF c

LEMMA CreateInsertOne ==
  ASSUME Base, NEW t \in Tasks, CreateInsert(t)
  PROVE  /\ Took(t)
         /\ Became(t, IF Mine(t).row.with = "remote" THEN "notify" ELSE "bell", task[t].op, {[id |-> nextId, row |-> Mine(t).row]}, task[t].todo, task[t].uids, task[t].key, task[t].old, task[t].wrapped, task[t].num)
         /\ Mine(t) \in Copy /\ task[t].pc = "insert"
  <1> DEFINE pc == IF Mine(t).row.with = "remote" THEN "notify" ELSE "bell"
             c == [id |-> nextId, row |-> Mine(t).row]
             w == [task[t] EXCEPT !.pc = pc, !.sh = {c}]
  <1>1. task[t].pc = "insert" /\ nextId \in Ids /\ nextId' = nextId + 1 /\ minted' = minted
    BY SharesAssumption DEF CreateInsert, Base, TypeOK, Ids, keyTables
  <1>2. Mine(t) \in Copy BY <1>1, Here DEF Mine, Holds, Single
  <1>3. c \in Copy BY <1>1, <1>2 DEF Copy
  <1>4. task' = [task EXCEPT ![t] = w] BY Here DEF CreateInsert
  <1>5. pc \in {"notify", "bell"} OBVIOUS
  <1>6. c.id < nextId' BY <1>1 DEF Ids
  <1> HIDE DEF c, pc
  <1>7. w \in Task
    <2>1. pc \in PCs BY <1>5 DEF PCs, Single
    <2>2. {c} \in Copies BY <1>3 DEF Copies
    <2> QED BY <2>1, <2>2, Here, Sets
  <1>8. Fits(w) /\ Holds(w) BY <1>1, <1>3, <1>5, Here DEF Fits, Holds, Walk, Minted, Single
  <1>9. Known(w, minted', nextId') BY <1>1, <1>5, <1>6, Here DEF Known, Holds, Single
  <1> HIDE DEF w, Became
  <1>10. Took(t) /\ task'[t] = w BY <1>4, <1>7, <1>8, <1>9, Plain
  <1>b. Became(t, pc, task[t].op, {c}, task[t].todo, task[t].uids, task[t].key, task[t].old, task[t].wrapped, task[t].num)
    BY <1>10, Here DEF w, Became
  <1> QED BY <1>1, <1>2, <1>10, <1>b DEF c, pc

\* A step that only moves the program counter.
LEMMA Goes ==
  ASSUME Base, NEW t \in Tasks, NEW pc \in PCs, Goto(t, pc), task[t].pc # "insert",
         Fits([task[t] EXCEPT !.pc = pc]), Holds([task[t] EXCEPT !.pc = pc]),
         minted' = minted, nextId' = nextId
  PROVE  Took(t) /\ Became(t, pc, task[t].op, task[t].sh, task[t].todo, task[t].uids, task[t].key, task[t].old, task[t].wrapped, task[t].num)
  <1> DEFINE w == [task[t] EXCEPT !.pc = pc]
  <1>1. task' = [task EXCEPT ![t] = w] BY Here DEF Goto
  <1>2. w \in Task BY Here, Sets
  <1>3. Known(w, minted', nextId') BY Here DEF Known
  <1> HIDE DEF w, Became
  <1>4. Took(t) /\ task'[t] = w BY <1>1, <1>2, <1>3, Plain DEF w, Became
  <1>b. Became(t, pc, task[t].op, task[t].sh, task[t].todo, task[t].uids, task[t].key, task[t].old, task[t].wrapped, task[t].num)
    BY <1>4, Here DEF w, Became
  <1> QED BY <1>4, <1>b

\* A step that begins a walk.
LEMMA Spreads ==
  ASSUME Base, NEW t \in Tasks, NEW cs \in Copies, Spread(t, cs), \A c \in cs : c.id < nextId,
         task[t].op \in {"share", "federate", "unshare", "job", "join", "leave"}, task[t].pc # "bells",
         minted' = minted, nextId' = nextId
  PROVE  Took(t) /\ Became(t, "spread", task[t].op, {}, cs, task[t].uids, task[t].key, task[t].old, task[t].wrapped, task[t].num)
  <1> DEFINE w == [task[t] EXCEPT !.pc = "spread", !.sh = {}, !.todo = cs]
  <1>1. task' = [task EXCEPT ![t] = w] BY Here DEF Spread
  <1>2. w \in Task
    <2>1. "spread" \in PCs /\ {} \in Copies BY DEF PCs, Walk, Copies
    <2> QED BY <2>1, Here, Sets
  <1>3. Fits(w) /\ Holds(w) BY Here DEF Fits, Holds, Walk, Minted, Single
  <1>4. Known(w, minted', nextId') BY Here DEF Known
  <1> HIDE DEF w, Became
  <1>5. Took(t) /\ task'[t] = w BY <1>1, <1>2, <1>3, <1>4, Plain
  <1>b. Became(t, "spread", task[t].op, {}, cs, task[t].uids, task[t].key, task[t].old, task[t].wrapped, task[t].num)
    BY <1>5, Here DEF w, Became
  <1> QED BY <1>5, <1>b

\* The share in a handler's hands.
LEMMA InHand ==
  ASSUME Base, NEW t \in Tasks, task[t].pc \in Single
  PROVE  /\ Mine(t) \in Copy /\ task[t].sh = {Mine(t)} /\ task[t].todo = {} /\ Mine(t).id \in Ids
         /\ task[t].pc # "insert" => Mine(t).id < nextId
  <1>1. PICK c \in Copy : task[t].sh = {c} /\ task[t].todo = {} BY Here DEF Holds
  <1>2. Mine(t) = c BY <1>1 DEF Mine
  <1> QED BY <1>1, <1>2, Here DEF Known, Copy

LEMMA CreateNotifyOne ==
  ASSUME Base, NEW t \in Tasks, NEW a \in BOOLEAN, NEW b \in BOOLEAN, CreateNotify(t, a, b)
  PROVE  /\ Took(t) /\ task[t].pc = "notify"
         /\ \/ b /\ task'[t] = Idle
            \/ ~b /\ Became(t, "compensate", task[t].op, task[t].sh, task[t].todo, task[t].uids, task[t].key, task[t].old, task[t].wrapped, task[t].num)
  <1>1. task[t].pc = "notify" /\ minted' = minted /\ nextId' = nextId /\ minted \in Nat
    BY DEF CreateNotify, keyTables, Base, TypeOK
  <1>2. CASE b BY <1>1, <1>2, Stops DEF CreateNotify
  <1>3. CASE ~b
    <2> DEFINE w == [task[t] EXCEPT !.pc = "compensate"]
    <2>1. Fits(w) /\ Holds(w) /\ "compensate" \in PCs BY <1>1, Here DEF Fits, Holds, Walk, Minted, Single, PCs
    <2> QED BY <1>1, <1>3, <2>1, Goes DEF CreateNotify
  <1> QED BY <1>2, <1>3

LEMMA CreateBellOne ==
  ASSUME Base, NEW t \in Tasks, CreateBell(t)
  PROVE  /\ Took(t) /\ task[t].pc = "bell"
         /\ Became(t, "spread", task[t].op, {}, task[t].sh, task[t].uids, task[t].key, task[t].old, task[t].wrapped, task[t].num)
  <1>1. task[t].pc = "bell" /\ minted' = minted /\ nextId' = nextId BY DEF CreateBell, keyTables
  <1>2. task[t].op \in {"share", "federate"} /\ \A c \in task[t].sh : c.id < nextId
    BY <1>1, Here DEF Fits, Known
  <1> QED BY <1>1, <1>2, Here, Spreads DEF CreateBell

LEMMA DismissOne ==
  ASSUME Base, NEW t \in Tasks, Dismiss(t)
  PROVE  /\ Took(t) /\ task[t].pc = "dismiss"
         /\ Became(t, "spread", task[t].op, {}, task[t].sh, task[t].uids, task[t].key, task[t].old, task[t].wrapped, task[t].num)
  <1>1. task[t].pc = "dismiss" /\ minted' = minted /\ nextId' = nextId BY DEF Dismiss, keyTables
  <1>2. task[t].op = "unshare" /\ \A c \in task[t].sh : c.id < nextId BY <1>1, Here DEF Fits, Known
  <1> QED BY <1>1, <1>2, Here, Spreads DEF Dismiss

LEMMA GroupSharesOne ==
  ASSUME Base, NEW t \in Tasks, GroupShares(t)
  PROVE  /\ Took(t) /\ task[t].pc = "group"
         /\ Became(t, "spread", task[t].op, {}, {c \in Rows : c.row.with = "group"}, task[t].uids, task[t].key, task[t].old, task[t].wrapped, task[t].num)
  <1> DEFINE cs == {c \in Rows : c.row.with = "group"}
  <1>1. task[t].pc = "group" /\ minted' = minted /\ nextId' = nextId /\ Spread(t, cs)
    BY DEF GroupShares, tables
  <1>2. task[t].op \in {"join", "leave"} BY <1>1, Here DEF Fits
  <1>3. cs \in Copies /\ \A c \in cs : c.id < nextId BY RowTypes DEF Copies
  <1> HIDE DEF cs
  <1>4. Took(t) /\ Became(t, "spread", task[t].op, {}, cs, task[t].uids, task[t].key, task[t].old, task[t].wrapped, task[t].num)
    BY <1>1, <1>2, <1>3, Spreads
  <1> QED BY <1>1, <1>4 DEF cs

LEMMA UnnotifyOne ==
  ASSUME Base, NEW t \in Tasks, NEW a \in BOOLEAN, Unnotify(t, a)
  PROVE  Took(t) /\ task[t].pc = "unnotify" /\ Became(t, "delete", task[t].op, task[t].sh, task[t].todo, task[t].uids, task[t].key, task[t].old, task[t].wrapped, task[t].num)
  <1>1. task[t].pc = "unnotify" /\ minted' = minted /\ nextId' = nextId /\ Goto(t, "delete")
    BY DEF Unnotify, keyTables
  <1> DEFINE w == [task[t] EXCEPT !.pc = "delete"]
  <1>2. Fits(w) /\ Holds(w) /\ "delete" \in PCs BY <1>1, Here DEF Fits, Holds, Walk, Minted, Single, PCs
  <1> QED BY <1>1, <1>2, Goes

LEMMA DeleteRowOne ==
  ASSUME Base, NEW t \in Tasks, DeleteRow(t)
  PROVE  Took(t) /\ task[t].pc = "delete" /\ Became(t, "dismiss", task[t].op, task[t].sh, task[t].todo, task[t].uids, task[t].key, task[t].old, task[t].wrapped, task[t].num)
  <1>1. task[t].pc = "delete" /\ minted' = minted /\ nextId' = nextId /\ Goto(t, "dismiss")
    BY DEF DeleteRow, keyTables
  <1> DEFINE w == [task[t] EXCEPT !.pc = "dismiss"]
  <1>2. Fits(w) /\ Holds(w) /\ "dismiss" \in PCs BY <1>1, Here DEF Fits, Holds, Walk, Minted, Single, PCs
  <1> QED BY <1>1, <1>2, Goes

LEMMA OwnerReadOne ==
  ASSUME Base, NEW t \in Tasks, NEW op \in {"unshare", "update", "view"}, NEW c \in Rows, NEW e \in 0 .. MaxTime,
         OwnerRead(t, op, c, e)
  PROVE  /\ Took(t) /\ task[t].pc = "idle" /\ op \in traffic
         /\ \/ /\ Expired(c.row, clock) \/ (op = "unshare" /\ c.row.with # "remote")
               /\ Became(t, "delete", "unshare", {c}, {}, {}, 0, 0, {}, 0)
            \/ op = "unshare" /\ Became(t, "unnotify", "unshare", {c}, {}, {}, 0, 0, {}, 0)
            \/ op = "update" /\ Became(t, "update", "update", {c}, {}, {}, 0, 0, {}, e)
  <1>1. /\ task[t].pc = "idle" /\ op \in traffic /\ minted' = minted /\ nextId' = nextId
        /\ c \in Copy /\ c.id < nextId /\ minted \in Nat
    BY RowTypes DEF OwnerRead, Does, tables, keyTables, Copies, Base, TypeOK
  <1>2. {c} \in Copies /\ e \in Times /\ "delete" \in PCs /\ "unnotify" \in PCs /\ "update" \in PCs
        /\ "unshare" \in Ops /\ "update" \in Ops
    BY <1>1 DEF Copies, Times, PCs, Single, Ops
  <1>3. ASSUME NEW pc \in {"delete", "unnotify"}, task' = [task EXCEPT ![t] = [Idle EXCEPT !.pc = pc, !.op = "unshare", !.sh = {c}]]
        PROVE  Took(t) /\ Became(t, pc, "unshare", {c}, {}, {}, 0, 0, {}, 0)
    <2> DEFINE w == [Idle EXCEPT !.pc = pc, !.op = "unshare", !.sh = {c}]
    <2>1. w \in Task BY <1>2, Begin
    <2>2. Fits(w) /\ Holds(w) BY <1>1 DEF Idle, Fits, Holds, Walk, Minted, Single
    <2>3. Known(w, minted', nextId') BY <1>1 DEF Known, Idle
    <2> HIDE DEF w, Became, Idle
    <2>4. task' = [task EXCEPT ![t] = w] BY <1>3 DEF w, Became, Idle
    <2>5. Took(t) /\ task'[t] = w BY <2>1, <2>2, <2>3, <2>4, Plain
    <2>b. Became(t, pc, "unshare", {c}, {}, {}, 0, 0, {}, 0)
      BY <2>5 DEF w, Became, Idle
    <2> QED BY <2>5, <2>b
  <1>4. ASSUME task' = [task EXCEPT ![t] = [Idle EXCEPT !.pc = "update", !.op = "update", !.sh = {c}, !.num = e]]
        PROVE  Took(t) /\ Became(t, "update", "update", {c}, {}, {}, 0, 0, {}, e)
    <2> DEFINE w == [Idle EXCEPT !.pc = "update", !.op = "update", !.sh = {c}, !.num = e]
    <2>1. w \in Task BY <1>2, Begin
    <2>2. Fits(w) /\ Holds(w) BY <1>1 DEF Idle, Fits, Holds, Walk, Minted, Single
    <2>3. Known(w, minted', nextId') BY <1>1 DEF Known, Idle
    <2> HIDE DEF w, Became, Idle
    <2>4. task' = [task EXCEPT ![t] = w] BY <1>4 DEF w, Became, Idle
    <2>5. Took(t) /\ task'[t] = w BY <2>1, <2>2, <2>3, <2>4, Plain
    <2>b. Became(t, "update", "update", {c}, {}, {}, 0, 0, {}, e)
      BY <2>5 DEF w, Became, Idle
    <2> QED BY <2>5, <2>b
  <1>5. CASE Expired(c.row, clock)
    <2>1. task' = [task EXCEPT ![t] = [Idle EXCEPT !.pc = "delete", !.op = "unshare", !.sh = {c}]]
      BY <1>5 DEF OwnerRead
    <2> QED BY <1>1, <1>3, <1>5, <2>1
  <1>6. CASE ~Expired(c.row, clock) /\ op = "unshare" /\ c.row.with # "remote"
    <2>1. task' = [task EXCEPT ![t] = [Idle EXCEPT !.pc = "delete", !.op = "unshare", !.sh = {c}]]
      BY <1>6 DEF OwnerRead
    <2> QED BY <1>1, <1>3, <1>6, <2>1
  <1>7. CASE ~Expired(c.row, clock) /\ op = "unshare" /\ c.row.with = "remote"
    <2>1. task' = [task EXCEPT ![t] = [Idle EXCEPT !.pc = "unnotify", !.op = "unshare", !.sh = {c}]]
      BY <1>7 DEF OwnerRead
    <2> QED BY <1>1, <1>3, <1>7, <2>1
  <1>8. CASE ~Expired(c.row, clock) /\ op # "unshare"
    <2>1. op = "update" /\ task' = [task EXCEPT ![t] = [Idle EXCEPT !.pc = "update", !.op = "update", !.sh = {c}, !.num = e]]
      BY <1>8 DEF OwnerRead
    <2> QED BY <1>1, <1>4, <2>1
  <1> QED BY <1>5, <1>6, <1>7, <1>8

LEMMA JobListOne ==
  ASSUME Base, NEW t \in Tasks, JobList(t)
  PROVE  /\ Took(t) /\ task[t].pc = "idle" /\ "job" \in traffic
         /\ Became(t, "reap", "job", {}, {c \in Rows : Expired(c.row, clock)}, {}, 0, 0, {}, clock)
  <1> DEFINE cs == {c \in Rows : Expired(c.row, clock)}
             w == [Idle EXCEPT !.pc = "reap", !.op = "job", !.num = clock, !.todo = cs]
  <1>1. /\ task[t].pc = "idle" /\ "job" \in traffic /\ minted' = minted /\ nextId' = nextId /\ minted \in Nat
        /\ task' = [task EXCEPT ![t] = w]
    BY DEF JobList, Does, tables, keyTables, Base, TypeOK
  <1>2. cs \in Copies /\ \A c \in cs : c.id < nextId BY RowTypes DEF Copies
  <1> HIDE DEF cs
  <1>3. w \in Task
    <2>1. "reap" \in PCs /\ "job" \in Ops /\ clock \in Times BY DEF PCs, Ops, Times, Base, TypeOK
    <2> QED BY <1>2, <2>1, Begin
  <1>4. Fits(w) /\ Holds(w) BY DEF Idle, Fits, Holds, Walk, Minted, Single
  <1>5. Known(w, minted', nextId') BY <1>1, <1>2 DEF Known, Idle
  <1> HIDE DEF w, Became, Idle
  <1>6. Took(t) /\ task'[t] = w BY <1>1, <1>3, <1>4, <1>5, Plain
  <1>b. Became(t, "reap", "job", {}, cs, {}, 0, 0, {}, clock)
    BY <1>6 DEF w, Became, Idle
  <1> QED BY <1>1, <1>6, <1>b DEF cs

LEMMA JobReapOne ==
  ASSUME Base, NEW t \in Tasks, JobReap(t)
  PROVE  LET reaped == {c.id : c \in {d \in Rows : Expired(d.row, task[t].num)}} IN
         /\ Took(t) /\ task[t].pc = "reap" /\ reaped \subseteq Ids
         /\ Became(t, "bells", task[t].op, task[t].sh, {c \in task[t].todo : c.id \in reaped}, reaped, task[t].key, task[t].old, task[t].wrapped, task[t].num)
         /\ shares' = [i \in Ids |-> IF i \in reaped THEN NoShare ELSE shares[i]]
  <1> DEFINE reaped == {c.id : c \in {d \in Rows : Expired(d.row, task[t].num)}}
             cs == {c \in task[t].todo : c.id \in reaped}
             w == [task[t] EXCEPT !.pc = "bells", !.uids = reaped, !.todo = cs]
  <1>1. /\ task[t].pc = "reap" /\ minted' = minted /\ nextId' = nextId
        /\ shares' = [i \in Ids |-> IF i \in reaped THEN NoShare ELSE shares[i]]
    BY DEF JobReap, keyTables
  <1>2. reaped \subseteq Ids BY RowTypes DEF Copies, Copy
  <1>3. cs \in Copies /\ cs \subseteq task[t].todo BY Here DEF Copies
  <1>4. task' = [task EXCEPT ![t] = w] BY Here DEF JobReap
  <1> HIDE DEF cs, reaped
  <1>5. w \in Task
    <2>1. "bells" \in PCs /\ reaped \in Uids BY <1>2 DEF PCs, Uids
    <2> QED BY <1>3, <2>1, Here, Sets
  <1>6. Fits(w) /\ Holds(w) BY <1>1, Here DEF Fits, Holds, Walk, Minted, Single
  <1>7. Known(w, minted', nextId') BY <1>1, <1>3, Here DEF Known
  <1> HIDE DEF w, Became
  <1>8. Took(t) /\ task'[t] = w BY <1>4, <1>5, <1>6, <1>7, Plain
  <1>b. Became(t, "bells", task[t].op, task[t].sh, cs, reaped, task[t].key, task[t].old, task[t].wrapped, task[t].num)
    BY <1>8, Here DEF w, Became
  <1> QED BY <1>1, <1>2, <1>8, <1>b DEF cs, reaped

LEMMA JobDismissOne ==
  ASSUME Base, NEW t \in Tasks, JobDismiss(t)
  PROVE  Took(t) /\ task[t].pc = "bells" /\ Became(t, "spread", task[t].op, task[t].sh, task[t].todo, {}, task[t].key, task[t].old, task[t].wrapped, task[t].num)
  <1> DEFINE w == [task[t] EXCEPT !.pc = "spread", !.uids = {}]
  <1>1. /\ task[t].pc = "bells" /\ minted' = minted /\ nextId' = nextId /\ task' = [task EXCEPT ![t] = w]
    BY Here DEF JobDismiss, keyTables
  <1>2. w \in Task
    <2>1. "spread" \in PCs /\ {} \in Uids BY DEF PCs, Walk, Uids
    <2> QED BY <2>1, Here, Sets
  <1>3. Fits(w) /\ Holds(w) BY <1>1, Here DEF Fits, Holds, Walk, Minted, Single
  <1>4. Known(w, minted', nextId') BY <1>1, Here DEF Known
  <1> HIDE DEF w, Became
  <1>5. Took(t) /\ task'[t] = w BY <1>1, <1>2, <1>3, <1>4, Plain
  <1>b. Became(t, "spread", task[t].op, task[t].sh, task[t].todo, {}, task[t].key, task[t].old, task[t].wrapped, task[t].num)
    BY <1>5, Here DEF w, Became
  <1> QED BY <1>1, <1>5, <1>b

LEMMA MemberOne ==
  ASSUME Base, NEW t \in Tasks, NEW op \in {"join", "leave"}, NEW u \in Users, Member(t, op, u)
  PROVE  /\ Took(t) /\ task[t].pc = "idle" /\ op \in traffic
         /\ Became(t, "group", op, {}, {}, {}, 0, 0, {u}, 0)
  <1> DEFINE w == [Idle EXCEPT !.pc = "group", !.op = op, !.wrapped = {u}]
  <1>1. /\ task[t].pc = "idle" /\ op \in traffic /\ minted' = minted /\ nextId' = nextId /\ minted \in Nat
        /\ task' = [task EXCEPT ![t] = w]
    BY DEF Member, Does, keyTables, Base, TypeOK
  <1>2. w \in Task
    <2>1. "group" \in PCs /\ op \in Ops /\ {u} \in Whom BY DEF PCs, Ops, Whom
    <2> QED BY <2>1, Begin
  <1>3. Fits(w) /\ Holds(w) BY DEF Idle, Fits, Holds, Walk, Minted, Single
  <1>4. Known(w, minted', nextId') BY <1>1 DEF Known, Idle
  <1> HIDE DEF w, Became, Idle
  <1>5. Took(t) /\ task'[t] = w BY <1>1, <1>2, <1>3, <1>4, Plain
  <1>b. Became(t, "group", op, {}, {}, {}, 0, 0, {u}, 0)
    BY <1>5 DEF w, Became, Idle
  <1> QED BY <1>1, <1>5, <1>b

LEMMA ReconcileOne ==
  ASSUME Base, NEW t \in Tasks, Reconcile(t)
  PROVE  /\ Took(t) /\ task[t].pc = "idle" /\ "reconcile" \in traffic
         /\ Became(t, "spread", "reconcile", {}, Rows, {}, 0, 0, {}, 0)
  <1> DEFINE w == [Idle EXCEPT !.pc = "spread", !.op = "reconcile", !.todo = Rows]
  <1>1. /\ task[t].pc = "idle" /\ "reconcile" \in traffic /\ minted' = minted /\ nextId' = nextId /\ minted \in Nat
        /\ task' = [task EXCEPT ![t] = w]
    BY DEF Reconcile, Does, tables, keyTables, Base, TypeOK
  <1>2. w \in Task
    <2>1. "spread" \in PCs /\ "reconcile" \in Ops BY DEF PCs, Walk, Ops
    <2> QED BY <2>1, RowTypes, Begin
  <1>3. Fits(w) /\ Holds(w) BY DEF Idle, Fits, Holds, Walk, Minted, Single
  <1>4. Known(w, minted', nextId') BY <1>1, RowTypes DEF Known, Idle
  <1> HIDE DEF w, Became, Idle
  <1>5. Took(t) /\ task'[t] = w BY <1>1, <1>2, <1>3, <1>4, Plain
  <1>b. Became(t, "spread", "reconcile", {}, Rows, {}, 0, 0, {}, 0)
    BY <1>5 DEF w, Became, Idle
  <1> QED BY <1>1, <1>5, <1>b

LEMMA RecipientTypes ==
  ASSUME Base, NEW t \in Tasks, NEW c \in Copy
  PROVE  Recipients(t, c.row) \in Whom
  BY ShareeTypes, Here DEF Recipients

LEMMA SpreadShareOne ==
  ASSUME Base, NEW t \in Tasks, SpreadShare(t)
  PROVE  /\ Took(t) /\ task[t].pc = "spread"
         /\ \/ task[t].todo = {} /\ task'[t] = Idle
            \/ \E c \in task[t].todo :
                 Became(t, "read", task[t].op, {c}, task[t].todo \ {c}, Recipients(t, c.row), task[t].key, task[t].old, task[t].wrapped, task[t].num)
  <1>0. task[t].pc = "spread" /\ UNCHANGED tables BY DEF SpreadShare
  <1>1. task[t].pc = "spread" /\ minted' = minted /\ nextId' = nextId /\ minted \in Nat
    BY <1>0 DEF tables, Base, TypeOK
  <1>2. CASE task[t].todo = {} BY <1>1, <1>2, Stops DEF SpreadShare
  <1>3. CASE task[t].todo # {}
    <2>1. PICK c \in task[t].todo :
            task' = [task EXCEPT ![t].pc = "read", ![t].sh = {c}, ![t].todo = @ \ {c}, ![t].uids = Recipients(t, c.row)]
      BY <1>3 DEF SpreadShare
    <2> DEFINE cs == task[t].todo \ {c}
               us == Recipients(t, c.row)
               w == [task[t] EXCEPT !.pc = "read", !.sh = {c}, !.todo = cs, !.uids = us]
    <2>2. task' = [task EXCEPT ![t] = w] BY <2>1, Here
    <2>3. c \in Copy /\ {c} \in Copies /\ cs \in Copies /\ us \in Whom /\ {c} \cup cs \subseteq task[t].todo
      BY Here, RecipientTypes DEF Copies
    <2> HIDE DEF cs, us
    <2>4. w \in Task
      <3>1. "read" \in PCs BY DEF PCs, Walk
      <3> QED BY <2>3, <3>1, Here, Sets
    <2>5. Fits(w) /\ Holds(w) BY <1>1, <2>3, Here DEF Fits, Holds, Walk, Minted, Single, Whom
    <2>6. Known(w, minted', nextId') BY <1>1, <2>3, Here DEF Known
    <2> HIDE DEF w, Became
    <2>7. Took(t) /\ task'[t] = w BY <2>2, <2>4, <2>5, <2>6, Plain
    <2>b. Became(t, "read", task[t].op, {c}, cs, us, task[t].key, task[t].old, task[t].wrapped, task[t].num)
      BY <2>7, Here DEF w, Became
    <2> QED BY <1>1, <2>7, <2>b DEF cs, us
  <1> QED BY <1>2, <1>3

LEMMA SpreadReadOne ==
  ASSUME Base, NEW t \in Tasks, SpreadRead(t)
  PROVE  /\ Took(t) /\ task[t].pc = "read"
         /\ \/ task[t].uids = {} /\ Became(t, "spread", task[t].op, task[t].sh, task[t].todo, task[t].uids, task[t].key, task[t].old, task[t].wrapped, task[t].num)
            \/ fileKey = 0 /\ \E u \in task[t].uids : Became(t, task[t].pc, task[t].op, task[t].sh, task[t].todo, task[t].uids \ {u}, task[t].key, task[t].old, task[t].wrapped, task[t].num)
            \/ fileKey # 0 /\ Became(t, "apply", task[t].op, task[t].sh, task[t].todo, task[t].uids, fileKey, task[t].old, task[t].wrapped, task[t].num)
  <1>1. task[t].pc = "read" /\ minted' = minted /\ nextId' = nextId /\ minted \in Nat /\ fileKey \in 0 .. minted /\ fileKey \in KeyNums
    BY SharesAssumption DEF SpreadRead, tables, keyTables, Base, TypeOK, KeyNums
  <1>2. CASE task[t].uids = {} /\ Goto(t, "spread")
    <2> DEFINE w == [task[t] EXCEPT !.pc = "spread"]
    <2>1. Fits(w) /\ Holds(w) /\ "spread" \in PCs BY <1>1, Here DEF Fits, Holds, Walk, Minted, Single, PCs
    <2> QED BY <1>1, <1>2, <2>1, Goes
  <1>3. CASE fileKey = 0 /\ \E u \in task[t].uids : task' = [task EXCEPT ![t].uids = @ \ {u}]
    <2>1. PICK u \in task[t].uids : task' = [task EXCEPT ![t].uids = @ \ {u}] BY <1>3
    <2> DEFINE us == task[t].uids \ {u}
               w == [task[t] EXCEPT !.uids = us]
    <2>2. task' = [task EXCEPT ![t] = w] BY <2>1, Here
    <2>3. us \in Whom BY <1>1, Here DEF Holds, Whom
    <2> HIDE DEF us
    <2>4. w \in Task BY <2>3, Here, Sets
    <2>5. Fits(w) /\ Holds(w) BY <1>1, <2>3, Here DEF Fits, Holds, Walk, Minted, Single, Whom
    <2>6. Known(w, minted', nextId') BY <1>1, Here DEF Known
    <2> HIDE DEF w, Became
    <2>7. Took(t) /\ task'[t] = w BY <2>2, <2>4, <2>5, <2>6, Plain
    <2>b. Became(t, task[t].pc, task[t].op, task[t].sh, task[t].todo, us, task[t].key, task[t].old, task[t].wrapped, task[t].num)
      BY <2>7, Here DEF w, Became
    <2> QED BY <1>1, <1>3, <2>7, <2>b DEF us
  <1>4. CASE fileKey # 0 /\ task' = [task EXCEPT ![t].pc = "apply", ![t].key = fileKey]
    <2> DEFINE w == [task[t] EXCEPT !.pc = "apply", !.key = fileKey]
    <2>1. task' = [task EXCEPT ![t] = w] BY <1>4, Here
    <2>2. w \in Task
      <3>1. "apply" \in PCs BY DEF PCs, Walk
      <3> QED BY <1>1, <3>1, Here, Sets
    <2>3. Fits(w) /\ Holds(w) BY <1>1, Here DEF Fits, Holds, Walk, Minted, Single
    <2>4. Known(w, minted', nextId') BY <1>1, Here DEF Known
    <2> HIDE DEF w, Became
    <2>5. Took(t) /\ task'[t] = w BY <2>1, <2>2, <2>3, <2>4, Plain
    <2>b. Became(t, "apply", task[t].op, task[t].sh, task[t].todo, task[t].uids, fileKey, task[t].old, task[t].wrapped, task[t].num)
      BY <2>5, Here DEF w, Became
    <2> QED BY <1>1, <1>4, <2>5, <2>b
  <1> QED BY <1>2, <1>3, <1>4 DEF SpreadRead

LEMMA SpreadApplyOne ==
  ASSUME Base, NEW t \in Tasks, SpreadApply(t)
  PROVE  /\ Took(t) /\ task[t].pc = "apply"
         /\ \E u \in task[t].uids :
              /\ u \in Users
              /\ Became(t, "read", task[t].op, task[t].sh, task[t].todo, task[t].uids \ {u}, task[t].key, task[t].old, task[t].wrapped, task[t].num)
              /\ wraps' = IF task[t].op \in {"share", "join", "reconcile"}
                          THEN IF task[t].key \in owned THEN wraps \cup {<<task[t].key, u>>} ELSE wraps
                          ELSE wraps \ {<<task[t].key, u>>}
  <1>1. task[t].pc = "apply" /\ minted' = minted /\ nextId' = nextId BY DEF SpreadApply
  <1>2. PICK u \in task[t].uids :
          /\ task' = [task EXCEPT ![t].pc = "read", ![t].uids = @ \ {u}]
          /\ wraps' = IF task[t].op \in {"share", "join", "reconcile"}
                      THEN IF task[t].key \in owned THEN wraps \cup {<<task[t].key, u>>} ELSE wraps
                      ELSE wraps \ {<<task[t].key, u>>}
    BY DEF SpreadApply
  <1> DEFINE us == task[t].uids \ {u}
             w == [task[t] EXCEPT !.pc = "read", !.uids = us]
  <1>3. task' = [task EXCEPT ![t] = w] BY <1>2, Here
  <1>4. us \in Whom /\ u \in Users BY <1>1, Here DEF Holds, Whom
  <1> HIDE DEF us
  <1>5. w \in Task
    <2>1. "read" \in PCs /\ us \in Uids BY <1>4 DEF PCs, Walk, Whom, Uids
    <2> QED BY <2>1, Here, Sets
  <1>6. Fits(w) /\ Holds(w) BY <1>1, <1>4, Here DEF Fits, Holds, Walk, Minted, Single, Whom
  <1>7. Known(w, minted', nextId') BY <1>1, Here DEF Known
  <1> HIDE DEF w, Became
  <1>8. Took(t) /\ task'[t] = w BY <1>3, <1>5, <1>6, <1>7, Plain
  <1>b. Became(t, "read", task[t].op, task[t].sh, task[t].todo, us, task[t].key, task[t].old, task[t].wrapped, task[t].num)
    BY <1>8, Here DEF w, Became
  <1> QED BY <1>1, <1>2, <1>4, <1>8, <1>b DEF us

\* Writers.
LEMMA WriteStartOne ==
  ASSUME Base, NEW t \in Tasks, NEW op \in {"write", "overwrite"}, WriteStart(t, op)
  PROVE  /\ Took(t) /\ task[t].pc = "idle" /\ op \in traffic /\ minted + 1 \in Keys
         /\ Became(t, "row", op, {}, {}, {}, minted + 1, fileKey, {}, 0)
  <1> DEFINE k == minted + 1
             w == [Idle EXCEPT !.pc = "row", !.op = op, !.key = k, !.old = fileKey]
  <1>1. /\ task[t].pc = "idle" /\ op \in traffic /\ minted' = k /\ nextId' = nextId /\ k \in Keys /\ k \in KeyNums
        /\ k # 0 /\ k <= minted' /\ fileKey \in KeyNums
    BY SharesAssumption DEF WriteStart, Does, Base, TypeOK, Keys, KeyNums
  <1>2. task' = [task EXCEPT ![t] = w] BY DEF WriteStart
  <1> HIDE DEF k
  <1>3. w \in Task
    <2>1. "row" \in PCs /\ op \in Ops BY DEF PCs, Minted, Ops
    <2> QED BY <1>1, <2>1, Begin
  <1>4. Fits(w) /\ Holds(w) BY <1>1 DEF Idle, Fits, Holds, Walk, Minted, Single
  <1>5. Known(w, minted', nextId') BY <1>1 DEF Known, Idle
  <1> HIDE DEF w, Became, Idle
  <1>6. Took(t) /\ task'[t] = w BY <1>2, <1>3, <1>4, <1>5, Plain
  <1>b. Became(t, "row", op, {}, {}, {}, k, fileKey, {}, 0)
    BY <1>6 DEF w, Became, Idle
  <1> QED BY <1>1, <1>6, <1>b DEF k

\* A writer that moves on from one statement to another.
LEMMA WriterGoes ==
  ASSUME Base, NEW t \in Tasks, NEW pc \in Minted, Goto(t, pc), task[t].pc \in Minted,
         minted' = minted, nextId' = nextId
  PROVE  Took(t) /\ Became(t, pc, task[t].op, task[t].sh, task[t].todo, task[t].uids, task[t].key, task[t].old, task[t].wrapped, task[t].num)
  <1> DEFINE w == [task[t] EXCEPT !.pc = pc]
  <1>1. pc \in PCs /\ task[t].pc # "insert" BY DEF PCs, Minted
  <1>2. task[t].op \in {"write", "overwrite"} /\ task[t].key # 0 /\ task[t].uids \subseteq Users
    BY Here DEF Fits, Holds, Minted
  <1>3. Fits(w) /\ Holds(w)
    <2>1. w.pc = pc /\ w.op = task[t].op /\ w.key = task[t].key /\ w.uids = task[t].uids BY Here
    <2>2. pc \notin Walk \cup Single \cup {"reap", "bells", "group", "removeShares", "idle"} BY DEF Minted, Walk, Single
    <2> HIDE DEF w, Became
    <2> QED BY <1>2, <2>1, <2>2 DEF Fits, Holds, Single
  <1> QED BY <1>1, <1>3, Goes

LEMMA WriteRowOne ==
  ASSUME Base, NEW t \in Tasks, WriteRow(t)
  PROVE  /\ Took(t) /\ task[t].pc = "row"
         /\ \/ task[t].old # 0 /\ fileKey = 0 /\ fileKey' = fileKey /\ task'[t] = Idle
            \/ /\ task[t].old = 0 \/ fileKey # 0
               /\ fileKey' = task[t].key
               /\ Became(t, IF task[t].old # 0 THEN "carryList" ELSE "covering", task[t].op, task[t].sh, task[t].todo, task[t].uids, task[t].key, task[t].old, task[t].wrapped, task[t].num)
  <1>1. task[t].pc = "row" /\ minted' = minted /\ nextId' = nextId /\ minted \in Nat
    BY DEF WriteRow, Base, TypeOK
  <1>2. CASE task[t].old # 0 /\ fileKey = 0 BY <1>1, <1>2, Stops DEF WriteRow
  <1>3. CASE ~(task[t].old # 0 /\ fileKey = 0)
    <2> DEFINE pc == IF task[t].old # 0 THEN "carryList" ELSE "covering"
    <2>1. fileKey' = task[t].key /\ Goto(t, pc) BY <1>3 DEF WriteRow
    <2>2. pc \in Minted /\ task[t].pc \in Minted BY <1>1 DEF Minted
    <2> HIDE DEF pc
    <2>3. Took(t) /\ Became(t, pc, task[t].op, task[t].sh, task[t].todo, task[t].uids, task[t].key, task[t].old, task[t].wrapped, task[t].num) BY <1>1, <2>1, <2>2, WriterGoes
    <2> QED BY <1>1, <1>3, <2>1, <2>3 DEF pc
  <1> QED BY <1>2, <1>3

\* What a writer keeps when it moves on with new sets.
LEMMA WriterOn ==
  ASSUME Base, NEW t \in Tasks, NEW w \in Task, task' = [task EXCEPT ![t] = w], task[t].pc \in Minted, w.pc \in Minted,
         w.op = task[t].op, w.key = task[t].key, w.uids \in Whom, w.sh = task[t].sh,
         \A c \in w.todo : c.id < nextId, minted' = minted, nextId' = nextId
  PROVE  Took(t) /\ task'[t] = w
  <1>1. task[t].op \in {"write", "overwrite"} /\ task[t].key # 0 /\ task[t].pc # "insert"
    BY Here DEF Fits, Holds, Minted
  <1>2. w.pc \notin Walk \cup Single \cup {"reap", "bells", "group", "removeShares", "idle"} BY DEF Minted, Walk, Single
  <1>3. Fits(w) /\ Holds(w) BY <1>1, <1>2 DEF Fits, Holds, Single, Whom
  <1>4. Known(w, minted', nextId') BY <1>1, Here DEF Known
  <1> QED BY <1>3, <1>4, Plain

LEMMA WriterHere ==
  ASSUME Base, NEW t \in Tasks, task[t].pc \in Minted
  PROVE  /\ task[t].uids \in Whom /\ \A c \in task[t].todo : c.id < nextId /\ c \in Copy
         /\ task[t].key \in Keys
  <1>1. task[t].key \in Keys BY Here DEF Holds, Known, Keys, KeyNums
  <1> QED BY <1>1, Here DEF Holds, Known, Minted, Whom, Copies

LEMMA CarryListOne ==
  ASSUME Base, NEW t \in Tasks, CarryList(t)
  PROVE  /\ Took(t) /\ task[t].pc = "carryList"
         /\ Became(t, "carry", task[t].op, task[t].sh, task[t].todo, {u \in Users : <<task[t].old, u>> \in wraps}, task[t].key, task[t].old, task[t].wrapped, task[t].num)
  <1> DEFINE us == {u \in Users : <<task[t].old, u>> \in wraps}
             w == [task[t] EXCEPT !.pc = "carry", !.uids = us]
  <1>1. /\ task[t].pc = "carryList" /\ minted' = minted /\ nextId' = nextId /\ task' = [task EXCEPT ![t] = w]
    BY Here DEF CarryList, tables, keyTables
  <1>2. us \in Whom /\ us \in Uids BY DEF Whom, Uids
  <1> HIDE DEF us
  <1>3. "carry" \in PCs /\ "carry" \in Minted /\ task[t].pc \in Minted BY <1>1 DEF PCs, Minted
  <1>4. w \in Task BY <1>2, <1>3, Here, Sets
  <1>5. w.pc = "carry" /\ w.op = task[t].op /\ w.key = task[t].key /\ w.uids = us /\ w.sh = task[t].sh /\ w.todo = task[t].todo
    BY Here
  <1> HIDE DEF w, Became
  <1>6. Took(t) /\ task'[t] = w BY <1>1, <1>2, <1>3, <1>4, <1>5, WriterHere, WriterOn
  <1>b. Became(t, "carry", task[t].op, task[t].sh, task[t].todo, us, task[t].key, task[t].old, task[t].wrapped, task[t].num)
    BY <1>6, Here DEF w, Became
  <1> QED BY <1>1, <1>6, <1>b DEF us

LEMMA CarryOne ==
  ASSUME Base, NEW t \in Tasks, Carry(t)
  PROVE  /\ Took(t) /\ task[t].pc = "carry"
         /\ \/ \E u \in task[t].uids :
                 /\ u \in Users /\ wraps' = wraps \cup {<<task[t].key, u>>} /\ owned' = owned
                 /\ Became(t, task[t].pc, task[t].op, task[t].sh, task[t].todo, task[t].uids \ {u}, task[t].key, task[t].old, task[t].wrapped, task[t].num)
            \/ /\ task[t].uids = {} /\ wraps' = {p \in wraps : p[1] # task[t].old} /\ owned' = owned \ {task[t].old}
               /\ Became(t, "covering", task[t].op, task[t].sh, task[t].todo, task[t].uids, task[t].key, task[t].old, task[t].wrapped, task[t].num)
  <1>1. /\ task[t].pc = "carry" /\ minted' = minted /\ nextId' = nextId /\ task[t].pc \in Minted
    BY DEF Carry, Minted
  <1>2. CASE \E u \in task[t].uids : /\ wraps' = wraps \cup {<<task[t].key, u>>}
                                     /\ task' = [task EXCEPT ![t].uids = @ \ {u}]
                                     /\ UNCHANGED owned
    <2>1. PICK u \in task[t].uids : /\ wraps' = wraps \cup {<<task[t].key, u>>}
                                    /\ task' = [task EXCEPT ![t].uids = @ \ {u}]
                                    /\ UNCHANGED owned
      BY <1>2
    <2> DEFINE us == task[t].uids \ {u}
               w == [task[t] EXCEPT !.uids = us]
    <2>2. task' = [task EXCEPT ![t] = w] BY <2>1, Here
    <2>3. us \in Whom /\ u \in Users BY <1>1, WriterHere DEF Whom
    <2> HIDE DEF us
    <2>4. w \in Task BY <2>3, Here, Sets
    <2>5. w.pc = task[t].pc /\ w.op = task[t].op /\ w.key = task[t].key /\ w.uids = us /\ w.sh = task[t].sh /\ w.todo = task[t].todo
      BY Here
    <2> HIDE DEF w, Became
    <2>6. Took(t) /\ task'[t] = w BY <1>1, <2>2, <2>3, <2>4, <2>5, WriterHere, WriterOn
    <2>b. Became(t, task[t].pc, task[t].op, task[t].sh, task[t].todo, us, task[t].key, task[t].old, task[t].wrapped, task[t].num)
      BY <2>6, Here DEF w, Became
    <2> QED BY <1>1, <2>1, <2>3, <2>6, <2>b DEF us
  <1>3. CASE /\ task[t].uids = {} /\ wraps' = {p \in wraps : p[1] # task[t].old}
             /\ owned' = owned \ {task[t].old} /\ Goto(t, "covering")
    <2>1. "covering" \in Minted BY DEF Minted
    <2> QED BY <1>1, <1>3, <2>1, WriterGoes
  <1> QED BY <1>2, <1>3 DEF Carry

LEMMA CoveringReadOne ==
  ASSUME Base, NEW t \in Tasks, CoveringRead(t)
  PROVE  /\ Took(t) /\ task[t].pc = "covering"
         /\ \/ CoveringRows = {} /\ task'[t] = Idle
            \/ Became(t, "expand", task[t].op, task[t].sh, CoveringRows, task[t].uids, task[t].key, task[t].old, task[t].wrapped, task[t].num)
  <1>0. task[t].pc = "covering" /\ UNCHANGED tables BY DEF CoveringRead
  <1>1. task[t].pc = "covering" /\ minted' = minted /\ nextId' = nextId /\ minted \in Nat /\ task[t].pc \in Minted
    BY <1>0 DEF tables, Base, TypeOK, Minted
  <1>2. CASE CoveringRows = {} BY <1>1, <1>2, Stops DEF CoveringRead
  <1>3. CASE CoveringRows # {}
    <2> DEFINE w == [task[t] EXCEPT !.pc = "expand", !.todo = CoveringRows]
    <2>1. task' = [task EXCEPT ![t] = w] BY <1>3, Here DEF CoveringRead
    <2>2. "expand" \in PCs /\ "expand" \in Minted BY DEF PCs, Minted
    <2>3. w \in Task BY <2>2, RowTypes, Here, Sets
    <2>4. w.pc = "expand" /\ w.op = task[t].op /\ w.key = task[t].key /\ w.uids = task[t].uids /\ w.sh = task[t].sh /\ w.todo = CoveringRows
      BY Here
    <2> HIDE DEF w, Became
    <2>5. \A c \in CoveringRows : c.id < nextId BY RowTypes
    <2>6. Took(t) /\ task'[t] = w BY <1>1, <2>1, <2>2, <2>3, <2>4, <2>5, WriterHere, WriterOn
    <2>b. Became(t, "expand", task[t].op, task[t].sh, CoveringRows, task[t].uids, task[t].key, task[t].old, task[t].wrapped, task[t].num)
      BY <2>6, Here DEF w, Became
    <2> QED BY <1>1, <2>6, <2>b
  <1> QED BY <1>2, <1>3

LEMMA ExpandOne ==
  ASSUME Base, NEW t \in Tasks, Expand(t)
  PROVE  /\ Took(t) /\ task[t].pc = "expand"
         /\ \/ \E c \in task[t].todo :
                 Became(t, "wrapping", task[t].op, task[t].sh, task[t].todo \ {c}, Sharees(c.row), task[t].key, task[t].old, task[t].wrapped, task[t].num)
            \/ task[t].todo = {} /\ task[t].wrapped = {} /\ task'[t] = Idle
            \/ task[t].todo = {} /\ Became(t, "recheck", task[t].op, task[t].sh, task[t].todo, task[t].uids, task[t].key, task[t].old, task[t].wrapped, task[t].num)
  <1>0. task[t].pc = "expand" /\ UNCHANGED tables BY DEF Expand
  <1>1. task[t].pc = "expand" /\ minted' = minted /\ nextId' = nextId /\ minted \in Nat /\ task[t].pc \in Minted
    BY <1>0 DEF tables, Base, TypeOK, Minted
  <1>2. CASE \E c \in task[t].todo :
               task' = [task EXCEPT ![t].pc = "wrapping", ![t].todo = @ \ {c}, ![t].uids = Sharees(c.row)]
    <2>1. PICK c \in task[t].todo :
            task' = [task EXCEPT ![t].pc = "wrapping", ![t].todo = @ \ {c}, ![t].uids = Sharees(c.row)]
      BY <1>2
    <2> DEFINE cs == task[t].todo \ {c}
               us == Sharees(c.row)
               w == [task[t] EXCEPT !.pc = "wrapping", !.todo = cs, !.uids = us]
    <2>2. task' = [task EXCEPT ![t] = w] BY <2>1, Here
    <2>3. us \in Whom /\ cs \in Copies /\ \A d \in cs : d.id < nextId
      BY <1>1, WriterHere, ShareeTypes, Here DEF Copies
    <2> HIDE DEF us, cs
    <2>4. "wrapping" \in PCs /\ "wrapping" \in Minted BY DEF PCs, Minted
    <2>5. w \in Task BY <2>3, <2>4, Here, Sets
    <2>6. w.pc = "wrapping" /\ w.op = task[t].op /\ w.key = task[t].key /\ w.uids = us /\ w.sh = task[t].sh /\ w.todo = cs
      BY Here
    <2> HIDE DEF w, Became
    <2>7. Took(t) /\ task'[t] = w BY <1>1, <2>2, <2>3, <2>4, <2>5, <2>6, WriterOn
    <2>b. Became(t, "wrapping", task[t].op, task[t].sh, cs, us, task[t].key, task[t].old, task[t].wrapped, task[t].num)
      BY <2>7, Here DEF w, Became
    <2> QED BY <1>1, <2>7, <2>b DEF us, cs
  <1>3. CASE task[t].todo = {} /\ task[t].wrapped = {} /\ Done(t) BY <1>1, <1>3, Stops
  <1>4. CASE task[t].todo = {} /\ Goto(t, "recheck")
    <2>1. "recheck" \in Minted BY DEF Minted
    <2> QED BY <1>1, <1>4, <2>1, WriterGoes
  <1> QED BY <1>2, <1>3, <1>4 DEF Expand

LEMMA WrapOneOne ==
  ASSUME Base, NEW t \in Tasks, WrapOne(t)
  PROVE  /\ Took(t) /\ task[t].pc = "wrapping"
         /\ \/ \E u \in task[t].uids :
                 /\ u \in Users /\ wraps' = wraps \cup {<<task[t].key, u>>}
                 /\ Became(t, task[t].pc, task[t].op, task[t].sh, task[t].todo, task[t].uids \ {u}, task[t].key, task[t].old, task[t].wrapped \cup {u}, task[t].num)
            \/ task[t].uids = {} /\ wraps' = wraps /\ Became(t, "expand", task[t].op, task[t].sh, task[t].todo, task[t].uids, task[t].key, task[t].old, task[t].wrapped, task[t].num)
  <1>1. task[t].pc = "wrapping" /\ minted' = minted /\ nextId' = nextId /\ task[t].pc \in Minted
    BY DEF WrapOne, Minted
  <1>2. CASE \E u \in task[t].uids :
               /\ wraps' = wraps \cup {<<task[t].key, u>>}
               /\ task' = [task EXCEPT ![t].uids = @ \ {u}, ![t].wrapped = @ \cup {u}]
    <2>1. PICK u \in task[t].uids :
               /\ wraps' = wraps \cup {<<task[t].key, u>>}
               /\ task' = [task EXCEPT ![t].uids = @ \ {u}, ![t].wrapped = @ \cup {u}]
      BY <1>2
    <2> DEFINE us == task[t].uids \ {u}
               ws == task[t].wrapped \cup {u}
               w == [task[t] EXCEPT !.uids = us, !.wrapped = ws]
    <2>2. task' = [task EXCEPT ![t] = w] BY <2>1, Here
    <2>3. us \in Whom /\ ws \in Whom /\ u \in Users BY <1>1, WriterHere, Here DEF Whom
    <2> HIDE DEF us, ws
    <2>4. w \in Task BY <2>3, Here, Sets
    <2>5. w.pc = task[t].pc /\ w.op = task[t].op /\ w.key = task[t].key /\ w.uids = us /\ w.sh = task[t].sh /\ w.todo = task[t].todo
      BY Here
    <2> HIDE DEF w, Became
    <2>6. Took(t) /\ task'[t] = w BY <1>1, <2>2, <2>3, <2>4, <2>5, WriterHere, WriterOn
    <2>b. Became(t, task[t].pc, task[t].op, task[t].sh, task[t].todo, us, task[t].key, task[t].old, ws, task[t].num)
      BY <2>6, Here DEF w, Became
    <2> QED BY <1>1, <2>1, <2>3, <2>6, <2>b DEF us, ws
  <1>3. CASE task[t].uids = {} /\ Goto(t, "expand") /\ UNCHANGED wraps
    <2>1. "expand" \in Minted BY DEF Minted
    <2> QED BY <1>1, <1>3, <2>1, WriterGoes
  <1> QED BY <1>2, <1>3 DEF WrapOne

LEMMA RecheckOne ==
  ASSUME Base, NEW t \in Tasks, Recheck(t)
  PROVE  Took(t) /\ task[t].pc = "recheck" /\ Became(t, "live", task[t].op, task[t].sh, CoveringRows, task[t].uids, task[t].key, task[t].old, task[t].wrapped, task[t].num)
  <1> DEFINE w == [task[t] EXCEPT !.pc = "live", !.todo = CoveringRows]
  <1>1. task[t].pc = "recheck" /\ minted' = minted /\ nextId' = nextId /\ task[t].pc \in Minted
    BY DEF Recheck, tables, keyTables, Minted
  <1>2. task' = [task EXCEPT ![t] = w] BY Here DEF Recheck
  <1>3. "live" \in PCs /\ "live" \in Minted BY DEF PCs, Minted
  <1>4. w \in Task BY <1>3, RowTypes, Here, Sets
  <1>5. w.pc = "live" /\ w.op = task[t].op /\ w.key = task[t].key /\ w.uids = task[t].uids /\ w.sh = task[t].sh /\ w.todo = CoveringRows
    BY Here
  <1> HIDE DEF w, Became
  <1>6. \A c \in CoveringRows : c.id < nextId BY RowTypes
  <1>7. Took(t) /\ task'[t] = w BY <1>1, <1>2, <1>3, <1>4, <1>5, <1>6, WriterHere, WriterOn
  <1>b. Became(t, "live", task[t].op, task[t].sh, CoveringRows, task[t].uids, task[t].key, task[t].old, task[t].wrapped, task[t].num)
    BY <1>7, Here DEF w, Became
  <1> QED BY <1>1, <1>7, <1>b

LEMMA LiveUIDsOne ==
  ASSUME Base, NEW t \in Tasks, LiveUIDs(t)
  PROVE  /\ Took(t) /\ task[t].pc = "live"
         /\ Became(t, "undo", task[t].op, task[t].sh, {}, task[t].uids, task[t].key, task[t].old, task[t].wrapped \ UNION {Sharees(c.row) : c \in task[t].todo}, task[t].num)
  <1> DEFINE ws == task[t].wrapped \ UNION {Sharees(c.row) : c \in task[t].todo}
             w == [task[t] EXCEPT !.pc = "undo", !.todo = {}, !.wrapped = ws]
  <1>1. task[t].pc = "live" /\ minted' = minted /\ nextId' = nextId /\ task[t].pc \in Minted
    BY DEF LiveUIDs, tables, keyTables, Minted
  <1>2. task' = [task EXCEPT ![t] = w] BY Here DEF LiveUIDs
  <1>3. ws \in Whom BY Here DEF Whom
  <1> HIDE DEF ws
  <1>4. "undo" \in PCs /\ "undo" \in Minted /\ {} \in Copies BY DEF PCs, Minted, Copies
  <1>5. w \in Task BY <1>3, <1>4, Here, Sets
  <1>6. w.pc = "undo" /\ w.op = task[t].op /\ w.key = task[t].key /\ w.uids = task[t].uids /\ w.sh = task[t].sh /\ w.todo = {}
    BY Here
  <1> HIDE DEF w, Became
  <1>7. Took(t) /\ task'[t] = w BY <1>1, <1>2, <1>4, <1>5, <1>6, WriterHere, WriterOn
  <1>b. Became(t, "undo", task[t].op, task[t].sh, {}, task[t].uids, task[t].key, task[t].old, ws, task[t].num)
    BY <1>7, Here DEF w, Became
  <1> QED BY <1>1, <1>7, <1>b DEF ws

LEMMA UndoOneOne ==
  ASSUME Base, NEW t \in Tasks, UndoOne(t)
  PROVE  /\ Took(t) /\ task[t].pc = "undo"
         /\ \/ \E u \in task[t].wrapped :
                 /\ wraps' = wraps \ {<<task[t].key, u>>}
                 /\ Became(t, task[t].pc, task[t].op, task[t].sh, task[t].todo, task[t].uids, task[t].key, task[t].old, task[t].wrapped \ {u}, task[t].num)
            \/ task[t].wrapped = {} /\ wraps' = wraps /\ task'[t] = Idle
  <1>1. task[t].pc = "undo" /\ minted' = minted /\ nextId' = nextId /\ task[t].pc \in Minted /\ minted \in Nat
    BY DEF UndoOne, Minted, Base, TypeOK
  <1>2. CASE \E u \in task[t].wrapped : /\ wraps' = wraps \ {<<task[t].key, u>>}
                                        /\ task' = [task EXCEPT ![t].wrapped = @ \ {u}]
    <2>1. PICK u \in task[t].wrapped : /\ wraps' = wraps \ {<<task[t].key, u>>}
                                       /\ task' = [task EXCEPT ![t].wrapped = @ \ {u}]
      BY <1>2
    <2> DEFINE ws == task[t].wrapped \ {u}
               w == [task[t] EXCEPT !.wrapped = ws]
    <2>2. task' = [task EXCEPT ![t] = w] BY <2>1, Here
    <2>3. ws \in Whom BY Here DEF Whom
    <2> HIDE DEF ws
    <2>4. w \in Task BY <2>3, Here, Sets
    <2>5. w.pc = task[t].pc /\ w.op = task[t].op /\ w.key = task[t].key /\ w.uids = task[t].uids /\ w.sh = task[t].sh /\ w.todo = task[t].todo
      BY Here
    <2> HIDE DEF w, Became
    <2>6. Took(t) /\ task'[t] = w BY <1>1, <2>2, <2>4, <2>5, WriterHere, WriterOn
    <2>b. Became(t, task[t].pc, task[t].op, task[t].sh, task[t].todo, task[t].uids, task[t].key, task[t].old, ws, task[t].num)
      BY <2>6, Here DEF w, Became
    <2> QED BY <1>1, <2>1, <2>6, <2>b DEF ws
  <1>3. CASE task[t].wrapped = {} /\ Done(t) /\ UNCHANGED wraps BY <1>1, <1>3, Stops
  <1> QED BY <1>2, <1>3 DEF UndoOne

LEMMA RemoveRowOne ==
  ASSUME Base, NEW t \in Tasks, RemoveRow(t)
  PROVE  Took(t) /\ task[t].pc = "idle" /\ "remove" \in traffic
         /\ Became(t, "removeShares", "remove", {}, {}, {}, 0, 0, {}, 0)
  <1> DEFINE w == [Idle EXCEPT !.pc = "removeShares", !.op = "remove"]
  <1>1. /\ task[t].pc = "idle" /\ "remove" \in traffic /\ minted' = minted /\ nextId' = nextId /\ minted \in Nat
        /\ task' = [task EXCEPT ![t] = w]
    BY DEF RemoveRow, Does, Base, TypeOK
  <1>2. w \in Task
    <2>1. "removeShares" \in PCs /\ "remove" \in Ops BY DEF PCs, Ops
    <2> QED BY <2>1, Begin
  <1>3. Fits(w) /\ Holds(w) BY DEF Idle, Fits, Holds, Walk, Minted, Single
  <1>4. Known(w, minted', nextId') BY <1>1 DEF Known, Idle
  <1> HIDE DEF w, Became, Idle
  <1>5. Took(t) /\ task'[t] = w BY <1>1, <1>2, <1>3, <1>4, Plain
  <1>b. Became(t, "removeShares", "remove", {}, {}, {}, 0, 0, {}, 0)
    BY <1>5 DEF w, Became, Idle
  <1> QED BY <1>1, <1>5, <1>b

\* A step of request t, by what it changes.
Looks(t) ==
  \/ \E row \in Share, op \in {"share", "federate"} : CreateStart(t, op, row)
  \/ \E op \in {"unshare", "update", "view"}, c \in Rows, e \in 0 .. MaxTime : OwnerRead(t, op, c, e)
  \/ JobList(t) \/ Reconcile(t) \/ GroupShares(t) \/ SpreadRead(t)
  \/ CarryList(t) \/ CoveringRead(t) \/ Expand(t) \/ Recheck(t) \/ LiveUIDs(t)
Drops(t) == CreateCompensate(t) \/ DeleteRow(t) \/ UpdateRow(t) \/ JobReap(t) \/ RemoveShares(t)
Tells(t) ==
  \/ \E a, b \in BOOLEAN : CreateNotify(t, a, b)
  \/ \E a \in BOOLEAN : Unnotify(t, a)
  \/ CreateBell(t) \/ Dismiss(t) \/ JobDismiss(t) \/ SpreadShare(t)
  \/ \E op \in {"join", "leave"}, u \in Users : Member(t, op, u)
Seals(t) ==
  \/ SpreadApply(t) \/ Carry(t) \/ WrapOne(t) \/ UndoOne(t) \/ WriteRow(t) \/ RemoveRow(t)
  \/ \E op \in {"write", "overwrite"} : WriteStart(t, op)

LEMMA Splits ==
  Next => \/ \E t \in Tasks : Looks(t) \/ Drops(t) \/ Tells(t) \/ Seals(t) \/ CreateInsert(t)
          \/ \E i \in incoming : Decline(i)
          \/ Tick
  BY DEF Next, Looks, Drops, Tells, Seals

LEMMA LooksOne ==
  ASSUME Base, NEW t \in Tasks, Looks(t)
  PROVE  Took(t) /\ UNCHANGED <<tables, clock, traffic>>
  <1>1. CASE \E row \in Share, op \in {"share", "federate"} : CreateStart(t, op, row)
    BY <1>1, CreateStartOne DEF CreateStart
  <1>2. CASE \E op \in {"unshare", "update", "view"}, c \in Rows, e \in 0 .. MaxTime : OwnerRead(t, op, c, e)
    <2>1. PICK op \in {"unshare", "update", "view"}, c \in Rows, e \in 0 .. MaxTime : OwnerRead(t, op, c, e) BY <1>2
    <2>2. Took(t) BY <2>1, OwnerReadOne
    <2> QED BY <2>1, <2>2 DEF OwnerRead
  <1>3. CASE JobList(t) BY <1>3, JobListOne DEF JobList
  <1>4. CASE Reconcile(t) BY <1>4, ReconcileOne DEF Reconcile
  <1>5. CASE GroupShares(t) BY <1>5, GroupSharesOne DEF GroupShares
  <1>6. CASE SpreadRead(t) BY <1>6, SpreadReadOne DEF SpreadRead
  <1>7. CASE CarryList(t) BY <1>7, CarryListOne DEF CarryList
  <1>8. CASE CoveringRead(t) BY <1>8, CoveringReadOne DEF CoveringRead
  <1>9. CASE Expand(t) BY <1>9, ExpandOne DEF Expand
  <1>10. CASE Recheck(t) BY <1>10, RecheckOne DEF Recheck
  <1>11. CASE LiveUIDs(t) BY <1>11, LiveUIDsOne DEF LiveUIDs
  <1> QED BY <1>1, <1>2, <1>3, <1>4, <1>5, <1>6, <1>7, <1>8, <1>9, <1>10, <1>11 DEF Looks

LEMMA TookBase ==
  ASSUME Base, NEW t \in Tasks, Took(t), Tables', Fresh', minted <= minted', nextId <= nextId'
  PROVE  Base'
  <1>1. TypeOK' BY DEF Took, Tables, TypeOK
  <1>2. ASSUME NEW q \in Tasks
        PROVE  Fits(task'[q]) /\ Holds(task'[q]) /\ Known(task'[q], minted', nextId')
    <2>1. CASE q = t BY <2>1 DEF Took
    <2>2. CASE q # t
      <3>1. task'[q] = task[q] BY <2>2 DEF Took
      <3>2. Fits(task[q]) /\ Holds(task[q]) /\ Known(task[q], minted, nextId) BY DEF Base
      <3>3. /\ task[q].key \in Int /\ minted \in Int /\ minted' \in Int /\ nextId \in Int /\ nextId' \in Int
            /\ \A c \in task[q].sh \cup task[q].todo : c.id \in Int
        BY Here DEF KeyNums, Copies, Copy, Ids, Base, TypeOK, Tables
      <3>4. Known(task[q], minted', nextId') BY <3>2, <3>3 DEF Known
      <3> QED BY <3>1, <3>2, <3>4
    <2> QED BY <2>1, <2>2
  <1> QED BY <1>1, <1>2 DEF Base

\* Rows only disappear, or get another expiry.
LEMMA DropsOne ==
  ASSUME Base, NEW t \in Tasks, Drops(t)
  PROVE  /\ Took(t) /\ UNCHANGED <<nextId, members, keyTables, bells, incoming, clock, traffic>>
         /\ shares' \in [Ids -> Share \cup {NoShare}]
         /\ \A i \in Ids : \/ shares'[i] = NoShare \/ shares'[i] = shares[i]
                           \/ /\ task[t].pc = "update" /\ shares[i] # NoShare
                              /\ shares'[i].with = shares[i].with
  <1>1. minted \in Nat /\ shares \in [Ids -> Share \cup {NoShare}] BY DEF Base, TypeOK
  <1>2. CASE CreateCompensate(t) \/ DeleteRow(t)
    <2>1. /\ UNCHANGED <<nextId, members, keyTables, bells, incoming, clock, traffic>> /\ minted' = minted
          /\ shares' = [shares EXCEPT ![Mine(t).id] = NoShare]
      BY <1>2 DEF CreateCompensate, DeleteRow, keyTables
    <2>2. Took(t) BY <1>1, <1>2, <2>1, Stops, DeleteRowOne DEF CreateCompensate
    <2> QED BY <1>1, <2>1, <2>2
  <1>3. CASE UpdateRow(t)
    <2>1. /\ UNCHANGED <<nextId, members, keyTables, bells, incoming, clock, traffic>> /\ minted' = minted
          /\ task[t].pc = "update" /\ Done(t)
          /\ shares' = IF shares[Mine(t).id] = NoShare THEN shares ELSE [shares EXCEPT ![Mine(t).id].expire = task[t].num]
      BY <1>3 DEF UpdateRow, keyTables
    <2>2. Took(t) BY <1>1, <2>1, Stops
    <2>3. task[t].num \in 0 .. MaxTime /\ Mine(t).id \in Ids BY <2>1, Here, InHand DEF Times, Single
    <2>4. CASE shares[Mine(t).id] = NoShare BY <1>1, <2>1, <2>2, <2>4
    <2>5. CASE shares[Mine(t).id] # NoShare
      <3> DEFINE j == Mine(t).id
                 r == [shares[j] EXCEPT !.expire = task[t].num]
      <3>1. shares[j] \in Share BY <1>1, <2>3, <2>5
      <3>2. r \in Share /\ r.with = shares[j].with BY <2>3, <3>1 DEF Share
      <3>3. shares' = [shares EXCEPT ![j] = r] BY <2>1, <2>5
      <3> HIDE DEF r, j
      <3>4. shares' \in [Ids -> Share \cup {NoShare}] BY <1>1, <3>2, <3>3
      <3>5. \A i \in Ids : shares'[i] = IF i = j THEN r ELSE shares[i] BY <1>1, <3>3
      <3> QED BY <2>1, <2>2, <2>5, <3>2, <3>4, <3>5 DEF j
    <2> QED BY <2>4, <2>5
  <1>4. CASE JobReap(t)
    <2> DEFINE reaped == {c.id : c \in {d \in Rows : Expired(d.row, task[t].num)}}
    <2>1. Took(t) /\ shares' = [i \in Ids |-> IF i \in reaped THEN NoShare ELSE shares[i]] BY <1>4, JobReapOne
    <2> HIDE DEF reaped
    <2>2. UNCHANGED <<nextId, members, keyTables, bells, incoming, clock, traffic>> BY <1>4 DEF JobReap
    <2> QED BY <1>1, <2>1, <2>2
  <1>5. CASE RemoveShares(t)
    <2>1. UNCHANGED <<nextId, members, keyTables, bells, incoming, clock, traffic>> /\ minted' = minted /\ Done(t)
      BY <1>5 DEF RemoveShares, keyTables
    <2>2. Took(t) BY <1>1, <2>1, Stops
    <2>3. shares' = [i \in Ids |-> IF shares[i].target = "file" THEN NoShare ELSE shares[i]] BY <1>5 DEF RemoveShares
    <2> QED BY <1>1, <2>1, <2>2, <2>3
  <1> QED BY <1>2, <1>3, <1>4, <1>5 DEF Drops

LEMMA TellsOne ==
  ASSUME Base, NEW t \in Tasks, Tells(t)
  PROVE  /\ Took(t) /\ UNCHANGED <<shares, nextId, keyTables, clock>>
         /\ members' \subseteq Users /\ bells' \subseteq Ids /\ incoming' \subseteq Ids
         /\ traffic' = traffic \/ traffic' = traffic \cup {"reconciled"}
  <1>1. members \subseteq Users /\ bells \subseteq Ids /\ incoming \subseteq Ids BY DEF Base, TypeOK
  <1>2. task[t].pc \in Single => Mine(t).id \in Ids BY InHand
  <1>3. CASE \E a, b \in BOOLEAN : CreateNotify(t, a, b)
    <2>1. PICK a, b \in BOOLEAN : CreateNotify(t, a, b) BY <1>3
    <2>2. Took(t) /\ task[t].pc \in Single BY <2>1, CreateNotifyOne DEF Single
    <2> QED BY <1>1, <1>2, <2>1, <2>2 DEF CreateNotify
  <1>4. CASE \E a \in BOOLEAN : Unnotify(t, a)
    <2>1. PICK a \in BOOLEAN : Unnotify(t, a) BY <1>4
    <2>2. Took(t) BY <2>1, UnnotifyOne
    <2> QED BY <1>1, <2>1, <2>2 DEF Unnotify
  <1>5. CASE CreateBell(t)
    <2>1. Took(t) /\ task[t].pc \in Single BY <1>5, CreateBellOne DEF Single
    <2> QED BY <1>1, <1>2, <1>5, <2>1 DEF CreateBell
  <1>6. CASE Dismiss(t) BY <1>1, <1>6, DismissOne DEF Dismiss
  <1>7. CASE JobDismiss(t) BY <1>1, <1>7, JobDismissOne DEF JobDismiss
  <1>8. CASE SpreadShare(t)
    <2>1. UNCHANGED <<tables, clock>> /\ (traffic' = traffic \/ traffic' = traffic \cup {"reconciled"})
      BY <1>8 DEF SpreadShare
    <2> QED BY <1>1, <1>8, <2>1, SpreadShareOne DEF tables, keyTables
  <1>9. CASE \E op \in {"join", "leave"}, u \in Users : Member(t, op, u)
    <2>1. PICK op \in {"join", "leave"}, u \in Users : Member(t, op, u) BY <1>9
    <2>2. Took(t) BY <2>1, MemberOne
    <2> QED BY <1>1, <2>1, <2>2 DEF Member
  <1> QED BY <1>3, <1>4, <1>5, <1>6, <1>7, <1>8, <1>9 DEF Tells

LEMMA SealsOne ==
  ASSUME Base, NEW t \in Tasks, Seals(t)
  PROVE  /\ Took(t) /\ UNCHANGED <<shares, nextId, members, bells, incoming, clock, traffic>>
         /\ fileKey' \in 0 .. minted' /\ minted' \in 0 .. MaxKeys /\ minted <= minted'
         /\ owned' \subseteq Keys /\ wraps' \subseteq Keys \X Users
  <1>1. /\ fileKey \in 0 .. minted /\ minted \in 0 .. MaxKeys /\ owned \subseteq Keys /\ wraps \subseteq Keys \X Users
    BY DEF Base, TypeOK
  <1>2. CASE SpreadApply(t) \/ Carry(t) \/ WrapOne(t) \/ UndoOne(t)
    <2>1. UNCHANGED <<shares, nextId, members, fileKey, minted, bells, incoming, clock, traffic>>
      BY <1>2 DEF SpreadApply, Carry, WrapOne, UndoOne
    <2>2. Took(t) BY <1>2, SpreadApplyOne, CarryOne, WrapOneOne, UndoOneOne
    <2>3. owned' \subseteq owned BY <1>2 DEF SpreadApply, Carry, WrapOne, UndoOne
    <2>4. wraps' \subseteq wraps \/ \E k \in Keys, u \in Users : wraps' = wraps \cup {<<k, u>>}
      <3>1. CASE SpreadApply(t) BY <1>1, <3>1, SpreadApplyOne
      <3>2. CASE Carry(t)
        <4>1. task[t].key \in Keys BY <3>2, CarryOne, WriterHere DEF Minted
        <4> QED BY <3>2, <4>1, CarryOne
      <3>3. CASE WrapOne(t)
        <4>1. task[t].key \in Keys BY <3>3, WrapOneOne, WriterHere DEF Minted
        <4> QED BY <3>3, <4>1, WrapOneOne
      <3>4. CASE UndoOne(t) BY <3>4, UndoOneOne
      <3> QED BY <1>2, <3>1, <3>2, <3>3, <3>4
    <2>5. wraps' \subseteq Keys \X Users BY <1>1, <2>4
    <2> QED BY <1>1, <2>1, <2>2, <2>3, <2>5
  <1>6. CASE WriteRow(t)
    <2>1. task[t].key \in 0 .. minted BY <1>6, WriteRowOne, Here DEF Known, KeyNums
    <2>2. fileKey' \in 0 .. minted BY <1>1, <1>6, <2>1, WriteRowOne
    <2>3. UNCHANGED <<shares, nextId, members, minted, owned, wraps, bells, incoming, clock, traffic>>
      BY <1>6 DEF WriteRow
    <2>4. Took(t) BY <1>6, WriteRowOne
    <2> QED BY <1>1, <2>2, <2>3, <2>4
  <1>7. CASE RemoveRow(t)
    <2>1. UNCHANGED <<shares, nextId, members, minted, owned, wraps, bells, incoming, clock, traffic>> /\ fileKey' = 0
      BY <1>7 DEF RemoveRow
    <2>2. Took(t) BY <1>7, RemoveRowOne
    <2> QED BY <1>1, <2>1, <2>2
  <1>8. CASE \E op \in {"write", "overwrite"} : WriteStart(t, op)
    <2>1. PICK op \in {"write", "overwrite"} : WriteStart(t, op) BY <1>8
    <2>2. Took(t) /\ minted + 1 \in Keys BY <2>1, WriteStartOne
    <2>3. /\ UNCHANGED <<shares, nextId, members, bells, incoming, clock, traffic>>
          /\ minted' = minted + 1 /\ owned' = owned \cup {minted + 1} /\ fileKey' = fileKey /\ wraps' = wraps
      BY <2>1 DEF WriteStart
    <2>4. minted' \in 0 .. MaxKeys /\ fileKey' \in 0 .. minted' /\ minted <= minted'
      BY SharesAssumption, <1>1, <2>2, <2>3 DEF Keys
    <2> QED BY <1>1, <2>2, <2>3, <2>4
  <1> QED BY <1>2, <1>6, <1>7, <1>8 DEF Seals

LEMMA InsertsOne ==
  ASSUME Base, NEW t \in Tasks, CreateInsert(t)
  PROVE  /\ UNCHANGED <<members, keyTables, bells, incoming, clock, traffic>>
         /\ nextId \in Ids /\ nextId' = nextId + 1
         /\ shares[nextId] = NoShare /\ Mine(t).row \in Share
         /\ shares' = [shares EXCEPT ![nextId] = Mine(t).row]
  <1>1. nextId \in Ids BY SharesAssumption DEF CreateInsert, Base, TypeOK, Ids
  <1>2. Mine(t).row \in Share BY CreateInsertOne DEF Copy
  <1>3. shares[nextId] = NoShare BY <1>1 DEF Base, Fresh, Ids
  <1> QED BY <1>1, <1>2, <1>3 DEF CreateInsert

LEMMA BaseStep == Base /\ [Next]_vars => Base'
  <1> SUFFICES ASSUME Base, [Next]_vars PROVE Base'
    OBVIOUS
  <1>0. Tables /\ Fresh /\ minted \in Nat /\ nextId \in Nat BY DEF Base, TypeOK, Tables
  <1>1. ASSUME NEW t \in Tasks, Looks(t) PROVE Base'
    <2>1. Took(t) /\ UNCHANGED <<tables, clock, traffic>> BY <1>1, LooksOne
    <2>2. Tables' /\ Fresh' BY <1>0, <2>1 DEF tables, Tables, Fresh
    <2>3. minted' = minted /\ nextId' = nextId BY <2>1 DEF tables
    <2> QED BY <1>0, <2>1, <2>2, <2>3, TookBase
  <1>2. ASSUME NEW t \in Tasks, Drops(t) PROVE Base'
    <2>1. /\ Took(t) /\ UNCHANGED <<nextId, members, keyTables, bells, incoming, clock, traffic>>
          /\ shares' \in [Ids -> Share \cup {NoShare}]
          /\ \A i \in Ids : shares[i] = NoShare => shares'[i] = NoShare
      BY <1>2, DropsOne
    <2>2. minted' = minted /\ nextId' = nextId BY <2>1 DEF keyTables
    <2>3. Tables' /\ Fresh' BY <1>0, <2>1 DEF keyTables, Tables, Fresh
    <2> QED BY <1>0, <2>1, <2>2, <2>3, TookBase
  <1>3. ASSUME NEW t \in Tasks, Tells(t) PROVE Base'
    <2>1. /\ Took(t) /\ UNCHANGED <<shares, nextId, keyTables, clock>>
          /\ members' \subseteq Users /\ bells' \subseteq Ids /\ incoming' \subseteq Ids
          /\ traffic' = traffic \/ traffic' = traffic \cup {"reconciled"}
      BY <1>3, TellsOne
    <2>2. minted' = minted /\ nextId' = nextId BY <2>1 DEF keyTables
    <2>3. traffic' \ {"reconciled"} = traffic \ {"reconciled"} BY <2>1
    <2>4. Tables' /\ Fresh' BY <1>0, <2>1, <2>3 DEF keyTables, Tables, Fresh
    <2> QED BY <1>0, <2>1, <2>2, <2>4, TookBase
  <1>4. ASSUME NEW t \in Tasks, Seals(t) PROVE Base'
    <2>1. /\ Took(t) /\ UNCHANGED <<shares, nextId, members, bells, incoming, clock, traffic>>
          /\ fileKey' \in 0 .. minted' /\ minted' \in 0 .. MaxKeys /\ minted <= minted'
          /\ owned' \subseteq Keys /\ wraps' \subseteq Keys \X Users
      BY <1>4, SealsOne
    <2>2. Tables' /\ Fresh' BY <1>0, <2>1 DEF Tables, Fresh
    <2> QED BY <1>0, <2>1, <2>2, TookBase
  <1>5. ASSUME NEW t \in Tasks, CreateInsert(t) PROVE Base'
    <2>1. Took(t) BY <1>5, CreateInsertOne
    <2>2. /\ UNCHANGED <<members, keyTables, bells, incoming, clock, traffic>>
          /\ nextId \in Ids /\ nextId' = nextId + 1 /\ Mine(t).row \in Share
          /\ shares' = [shares EXCEPT ![nextId] = Mine(t).row]
      BY <1>5, InsertsOne
    <2>3. shares' \in [Ids -> Share \cup {NoShare}] /\ nextId' \in 1 .. MaxShares + 1
      BY SharesAssumption, <1>0, <2>2 DEF Tables, Ids
    <2>4. Tables' BY <1>0, <2>2, <2>3 DEF keyTables, Tables
    <2>5. Fresh' BY <1>0, <2>2 DEF Tables, Fresh, Ids
    <2>6. minted' = minted BY <2>2 DEF keyTables
    <2> QED BY <1>0, <2>1, <2>2, <2>4, <2>5, <2>6, TookBase
  <1>6. ASSUME NEW i \in incoming, Decline(i) PROVE Base'
    <2>1. UNCHANGED <<shares, nextId, members, keyTables, bells, clock, task, traffic>> /\ incoming' \subseteq incoming
      BY <1>6 DEF Decline
    <2> QED BY <2>1 DEF Base, TypeOK, Fresh, keyTables
  <1>7. CASE Tick
    <2>1. UNCHANGED <<tables, task, traffic>> /\ clock' \in 0 .. MaxTime
      BY SharesAssumption, <1>7 DEF Tick, Base, TypeOK
    <2> QED BY <2>1 DEF Base, TypeOK, Fresh, tables
  <1>8. CASE UNCHANGED vars BY <1>8 DEF vars, Base, TypeOK, Fresh
  <1> QED BY <1>1, <1>2, <1>3, <1>4, <1>5, <1>6, <1>7, <1>8, Splits

LEMMA BaseInit == Init => Base
  <1> SUFFICES ASSUME Init PROVE Base
    OBVIOUS
  <1>1. PICK n \in 0 .. MaxShares - 1 :
          /\ nextId = n + 1 /\ shares \in [Ids -> Share \cup {NoShare}]
          /\ \A i \in Ids : shares[i] # NoShare <=> i <= n
    BY DEF Init
  <1>2. nextId \in 1 .. MaxShares + 1 /\ Fresh BY SharesAssumption, <1>1 DEF Fresh, Ids
  <1>3. members \subseteq Users /\ clock \in 0 .. MaxTime /\ bells \subseteq Ids /\ incoming \subseteq Ids
    BY SharesAssumption DEF Init, Rows
  <1>4. minted \in 0 .. MaxKeys /\ fileKey = minted /\ owned = 1 .. minted /\ owned \subseteq Keys
    BY SharesAssumption DEF Init, Keys
  <1>5. wraps \subseteq Keys \X Users
    <2>1. Covered \subseteq Users
      <3>1. \A c \in Rows : c.row \in Share BY <1>1 DEF Rows
      <3>2. \A c \in Rows : Sharees(c.row) \subseteq Users BY <1>3, <3>1 DEF Sharees, Share
      <3> QED BY <3>2 DEF Covered, CoveringRows
    <2>2. wraps = {} \/ wraps = {<<k, u>> : k \in 1 .. minted, u \in Covered} BY DEF Init
    <2> QED BY <1>4, <2>1, <2>2
  <1>6. traffic \ {"reconciled"} \in Traffics
    <2>1. traffic \in Traffics /\ "reconciled" \notin traffic BY SharesAssumption DEF Init
    <2>2. traffic \ {"reconciled"} = traffic BY <2>1
    <2> QED BY <2>1, <2>2
  <1>7. task \in [Tasks -> Task] /\ \A t \in Tasks : task[t] = Idle BY IdleTask DEF Init
  <1>8. \A t \in Tasks : Known(task[t], minted, nextId) BY <1>4, <1>7 DEF Idle, Known
  <1> QED BY <1>1, <1>2, <1>3, <1>4, <1>5, <1>6, <1>7, <1>8, IdleTask DEF Base, TypeOK

LEMMA BaseHolds == Spec => []Base
  BY BaseInit, BaseStep, PTL DEF Spec

\* Types of the shares, the wraps and the requests in flight, with what is known of
\* them (sharing, KeySharer, the job and the hooks).
THEOREM SharesTypeCorrect == Spec => []TypeOK
  <1>1. Base => TypeOK BY DEF Base
  <1> QED BY <1>1, BaseHolds, PTL

-----------------------------------------------------------------------------
(* Revocations delete before they unwrap.                                  *)

\* The id of a share that is gone is not used again.
LEMMA GoneStays ==
  ASSUME Base, [Next]_vars
  PROVE  \A i \in Ids : i < nextId /\ shares[i] = NoShare => shares'[i] = NoShare
  <1>1. ASSUME NEW t \in Tasks, Looks(t) PROVE shares' = shares BY <1>1, LooksOne DEF tables
  <1>2. ASSUME NEW t \in Tasks, Drops(t) PROVE \A i \in Ids : shares[i] = NoShare => shares'[i] = NoShare
    BY <1>2, DropsOne
  <1>3. ASSUME NEW t \in Tasks, Tells(t) PROVE shares' = shares BY <1>3, TellsOne
  <1>4. ASSUME NEW t \in Tasks, Seals(t) PROVE shares' = shares BY <1>4, SealsOne
  <1>5. ASSUME NEW t \in Tasks, CreateInsert(t) PROVE \A i \in Ids : i < nextId => shares'[i] = shares[i]
    <2>1. nextId \in Ids /\ shares' = [shares EXCEPT ![nextId] = Mine(t).row] BY <1>5, InsertsOne
    <2> QED BY <2>1 DEF Base, TypeOK, Ids
  <1>6. ASSUME NEW i \in incoming, Decline(i) PROVE shares' = shares BY <1>6 DEF Decline
  <1>7. CASE Tick BY <1>7 DEF Tick, tables
  <1>8. CASE UNCHANGED vars BY <1>8 DEF vars
  <1> QED BY <1>1, <1>2, <1>3, <1>4, <1>5, <1>6, <1>7, <1>8, Splits

\* Who moves: one request, or none.
LEMMA Movers ==
  ASSUME Base, [Next]_vars
  PROVE  \/ task' = task
         \/ \E t \in Tasks : Took(t) /\ (Looks(t) \/ Drops(t) \/ Tells(t) \/ Seals(t) \/ CreateInsert(t))
  BY Splits, LooksOne, DropsOne, TellsOne, SealsOne, CreateInsertOne DEF Decline, Tick, vars

\* A state that has nothing to do with revocations.
Elsewhere(r) == r.pc \notin {"dismiss", "bells"} /\ (r.pc \in Walk => r.op \notin {"unshare", "job"})

LEMMA GoneOne ==
  ASSUME Base, GoneInv, NEW t \in Tasks, Took(t),
         Looks(t) \/ Drops(t) \/ Tells(t) \/ Seals(t) \/ CreateInsert(t),
         \A i \in Ids : i < nextId /\ shares[i] = NoShare => shares'[i] = NoShare
  PROVE  \/ Elsewhere(task'[t])
         \/ \A c \in task'[t].sh \cup task'[t].todo : shares'[c.id] = NoShare
  <1>0. /\ task[t].pc # "insert" => \A c \in task[t].sh \cup task[t].todo : c.id \in Ids /\ c.id < nextId
        /\ Gone(task[t]) /\ Fits(task[t]) /\ Holds(task[t])
    BY Here DEF Known, GoneInv, Copies, Copy
  <1>i. Elsewhere(Idle) BY DEF Elsewhere, Idle, Walk
  \* A walk, or its end.
  <1>w. ASSUME task[t].pc \in Walk \cup {"dismiss", "bells"}, task'[t].op = task[t].op, task'[t].pc \in Walk,
               task'[t].sh \cup task'[t].todo \subseteq task[t].sh \cup task[t].todo
        PROVE  \/ Elsewhere(task'[t])
               \/ \A c \in task'[t].sh \cup task'[t].todo : shares'[c.id] = NoShare
    <2>1. CASE task[t].op \in {"unshare", "job"}
      <3>1. task[t].pc # "insert" BY <1>w DEF Walk
      <3>2. \A c \in task[t].sh \cup task[t].todo : shares[c.id] = NoShare BY <1>0, <1>w, <2>1 DEF Gone
      <3> QED BY <1>0, <1>w, <3>1, <3>2
    <2>2. CASE task[t].op \notin {"unshare", "job"}
      <3>1. task'[t].pc \notin {"dismiss", "bells"} BY <1>w DEF Walk
      <3> QED BY <1>w, <2>2, <3>1 DEF Elsewhere
    <2> QED BY <2>1, <2>2
  <1>1. CASE \E row \in Share, op \in {"share", "federate"} : CreateStart(t, op, row)
    <2>1. task'[t].pc = "insert" BY <1>1, CreateStartOne DEF Became
    <2> QED BY <2>1 DEF Elsewhere, Walk
  <1>2. CASE \E op \in {"unshare", "update", "view"}, c \in Rows, e \in 0 .. MaxTime : OwnerRead(t, op, c, e)
    <2>1. task'[t].pc \in {"delete", "unnotify", "update"} BY <1>2, OwnerReadOne DEF Became
    <2> QED BY <2>1 DEF Elsewhere, Walk
  <1>3. CASE JobList(t)
    <2>1. task'[t].pc = "reap" BY <1>3, JobListOne DEF Became
    <2> QED BY <2>1 DEF Elsewhere, Walk
  <1>4. CASE Reconcile(t)
    <2>1. task'[t].pc = "spread" /\ task'[t].op = "reconcile" BY <1>4, ReconcileOne DEF Became
    <2> QED BY <2>1 DEF Elsewhere, Walk
  <1>5. CASE GroupShares(t)
    <2>1. task'[t].pc = "spread" /\ task'[t].op \in {"join", "leave"} BY <1>0, <1>5, Here, GroupSharesOne DEF Fits, Became
    <2> QED BY <2>1 DEF Elsewhere, Walk
  <1>6. CASE SpreadRead(t)
    <2>1. /\ task[t].pc = "read" /\ task'[t].op = task[t].op /\ task'[t].pc \in Walk
          /\ task'[t].sh = task[t].sh /\ task'[t].todo = task[t].todo
      BY <1>6, Here, SpreadReadOne DEF Walk, Became
    <2> QED BY <1>w, <2>1 DEF Walk
  <1>7. CASE CarryList(t) \/ CoveringRead(t) \/ Expand(t) \/ Recheck(t) \/ LiveUIDs(t)
    <2>1. task'[t] = Idle \/ task'[t].pc \in Minted
      BY <1>7, Here, CarryListOne, CoveringReadOne, ExpandOne, RecheckOne, LiveUIDsOne DEF Minted, Became
    <2> QED BY <1>i, <2>1 DEF Elsewhere, Walk, Minted
  <1>8. CASE CreateCompensate(t) \/ UpdateRow(t) \/ RemoveShares(t)
    <2>1. task'[t] = Idle BY <1>8, Here DEF CreateCompensate, UpdateRow, RemoveShares, Done
    <2> QED BY <1>i, <2>1
  <1>9. CASE DeleteRow(t)
    <2>1. task[t].pc = "delete" /\ task'[t].sh = task[t].sh /\ task'[t].todo = task[t].todo BY <1>9, Here, DeleteRowOne DEF Became
    <2>2. task[t].sh = {Mine(t)} /\ task[t].todo = {} /\ Mine(t).id \in Ids BY <2>1, InHand DEF Single
    <2>3. shares'[Mine(t).id] = NoShare BY <1>9, <2>2 DEF DeleteRow, Base, TypeOK
    <2> QED BY <2>1, <2>2, <2>3
  <1>10. CASE JobReap(t)
    <2> DEFINE reaped == {c.id : c \in {d \in Rows : Expired(d.row, task[t].num)}}
    <2>1. /\ task[t].pc = "reap" /\ reaped \subseteq Ids
          /\ Became(t, "bells", task[t].op, task[t].sh, {c \in task[t].todo : c.id \in reaped}, reaped, task[t].key, task[t].old, task[t].wrapped, task[t].num)
          /\ shares' = [i \in Ids |-> IF i \in reaped THEN NoShare ELSE shares[i]]
      BY <1>10, JobReapOne
    <2> HIDE DEF reaped
    <2>2. task'[t].sh = task[t].sh /\ task'[t].todo = {c \in task[t].todo : c.id \in reaped} BY <2>1 DEF Became
    <2>3. task[t].sh = {} BY <1>0, <2>1 DEF Holds
    <2> QED BY <2>1, <2>2, <2>3
  <1>11. CASE (\E a, b \in BOOLEAN : CreateNotify(t, a, b)) \/ (\E a \in BOOLEAN : Unnotify(t, a))
    <2>1. task'[t] = Idle \/ task'[t].pc \in {"compensate", "delete"} BY <1>11, Here, CreateNotifyOne, UnnotifyOne DEF Became
    <2> QED BY <1>i, <2>1 DEF Elsewhere, Walk
  <1>12. CASE CreateBell(t)
    <2>1. task'[t].pc = "spread" /\ task'[t].op \in {"share", "federate"} BY <1>0, <1>12, Here, CreateBellOne DEF Fits, Became
    <2> QED BY <2>1 DEF Elsewhere, Walk
  <1>13. CASE Dismiss(t)
    <2>1. /\ task[t].pc = "dismiss" /\ task'[t].op = task[t].op /\ task'[t].pc \in Walk
          /\ task'[t].sh = {} /\ task'[t].todo = task[t].sh
      BY <1>13, Here, DismissOne DEF Walk, Became
    <2> QED BY <1>w, <2>1
  <1>14. CASE JobDismiss(t)
    <2>1. /\ task[t].pc = "bells" /\ task'[t].op = task[t].op /\ task'[t].pc \in Walk
          /\ task'[t].sh = task[t].sh /\ task'[t].todo = task[t].todo
      BY <1>14, Here, JobDismissOne DEF Walk, Became
    <2> QED BY <1>w, <2>1
  <1>15. CASE SpreadShare(t)
    <2>1. CASE task'[t] = Idle BY <1>i, <2>1
    <2>2. CASE task'[t] # Idle
      <3>1. PICK c \in task[t].todo :
              Became(t, "read", task[t].op, {c}, task[t].todo \ {c}, Recipients(t, c.row), task[t].key, task[t].old, task[t].wrapped, task[t].num)
        BY <1>15, <2>2, SpreadShareOne
      <3>2. /\ task[t].pc = "spread" /\ task'[t].op = task[t].op /\ task'[t].pc \in Walk
            /\ task'[t].sh = {c} /\ task'[t].todo = task[t].todo \ {c}
        BY <1>15, <3>1, Here, SpreadShareOne DEF Walk, Became
      <3> QED BY <1>w, <3>2 DEF Walk
    <2> QED BY <2>1, <2>2
  <1>16. CASE \E op \in {"join", "leave"}, u \in Users : Member(t, op, u)
    <2>1. task'[t].pc = "group" BY <1>16, MemberOne DEF Became
    <2> QED BY <2>1 DEF Elsewhere, Walk
  <1>17. CASE SpreadApply(t)
    <2>1. /\ task[t].pc = "apply" /\ task'[t].op = task[t].op /\ task'[t].pc \in Walk
          /\ task'[t].sh = task[t].sh /\ task'[t].todo = task[t].todo
      BY <1>17, Here, SpreadApplyOne DEF Walk, Became
    <2> QED BY <1>w, <2>1 DEF Walk
  <1>18. CASE Carry(t) \/ WrapOne(t) \/ UndoOne(t) \/ WriteRow(t)
    <2>1. task'[t] = Idle \/ task'[t].pc \in Minted
      BY <1>18, Here, CarryOne, WrapOneOne, UndoOneOne, WriteRowOne DEF Minted, Became
    <2> QED BY <1>i, <2>1 DEF Elsewhere, Walk, Minted
  <1>19. CASE RemoveRow(t) \/ \E op \in {"write", "overwrite"} : WriteStart(t, op)
    <2>1. task'[t].pc \in {"removeShares", "row"} BY <1>19, RemoveRowOne, WriteStartOne DEF Became
    <2> QED BY <2>1 DEF Elsewhere, Walk
  <1>20. CASE CreateInsert(t)
    <2>1. task'[t].pc \in {"notify", "bell"} BY <1>20, Here, CreateInsertOne DEF Became
    <2> QED BY <2>1 DEF Elsewhere, Walk
  <1> QED BY <1>1, <1>2, <1>3, <1>4, <1>5, <1>6, <1>7, <1>8, <1>9, <1>10, <1>11, <1>12, <1>13, <1>14, <1>15, <1>16, <1>17,
             <1>18, <1>19, <1>20 DEF Looks, Drops, Tells, Seals

LEMMA GoneStep == Base /\ GoneInv /\ [Next]_vars => GoneInv'
  <1> SUFFICES ASSUME Base, GoneInv, [Next]_vars, NEW q \in Tasks PROVE Gone(task[q])'
    BY DEF GoneInv
  <1>1. \A i \in Ids : i < nextId /\ shares[i] = NoShare => shares'[i] = NoShare BY GoneStays
  <1>2. CASE task'[q] = task[q]
    <2>1. Gone(task[q]) BY DEF GoneInv
    <2>2. task[q].pc # "insert" => \A c \in task[q].sh \cup task[q].todo : c.id \in Ids /\ c.id < nextId
      BY Here DEF Known, Copies, Copy
    <2> QED BY <1>1, <1>2, <2>1, <2>2 DEF Gone, Walk
  <1>3. CASE task'[q] # task[q]
    <2>1. PICK t \in Tasks : Took(t) /\ (Looks(t) \/ Drops(t) \/ Tells(t) \/ Seals(t) \/ CreateInsert(t))
      BY <1>3, Movers
    <2>2. t = q BY <1>3, <2>1 DEF Took
    <2>3. \/ Elsewhere(task'[q])
          \/ \A c \in task'[q].sh \cup task'[q].todo : shares'[c.id] = NoShare
      BY <1>1, <2>1, <2>2, GoneOne
    <2> QED BY <2>3 DEF Gone, Elsewhere
  <1> QED BY <1>2, <1>3

\* Service.Delete and the job take wraps away for a share only when its row is gone,
\* whatever updates, reads and other revocations of it overlap.
THEOREM UnwrapsFollowDeletes == Spec => []UnwrapAfterDelete
  <1>1. Init => GoneInv BY DEF Init, GoneInv, Gone, Idle, Walk
  <1>2. Base /\ GoneInv => UnwrapAfterDelete BY DEF GoneInv, Gone, UnwrapAfterDelete, Walk
  <1> QED BY <1>1, <1>2, BaseHolds, GoneStep, PTL DEF Spec

-----------------------------------------------------------------------------
(* A federated share has both its sides.                                   *)

\* Request t is confirming, giving up or removing share i.
Keeps(t, i) == task[t].pc \in {"notify", "compensate", "delete"} /\ \E c \in task[t].sh : c.id = i

LEMMA KeepsOn ==
  ASSUME NEW q \in Tasks, NEW i, task'[q] = task[q], Keeps(q, i)
  PROVE  Keeps(q, i)'
  BY DEF Keeps

\* A request that was at another statement leaves the keepers alone.
LEMMA KeepersStay ==
  ASSUME NEW t \in Tasks, Took(t), task[t].pc \notin {"notify", "compensate", "delete"}, NEW i,
         \E q \in Tasks : Keeps(q, i)
  PROVE  \E q \in Tasks : Keeps(q, i)'
  <1>1. PICK q \in Tasks : Keeps(q, i) OBVIOUS
  <1>2. q # t BY <1>1 DEF Keeps
  <1>3. task'[q] = task[q] BY <1>2 DEF Took
  <1> QED BY <1>1, <1>3, KeepsOn

LEMMA FedStep == Base /\ FedInv /\ [Next]_vars => FedInv'
  <1> SUFFICES ASSUME Base, FedInv, [Next]_vars, ("decline" \notin traffic)', NEW i \in Ids,
                      shares'[i].with = "remote", i \notin incoming'
               PROVE  \E q \in Tasks : Keeps(q, i)'
    BY DEF FedInv, Keeps
  <1>0. traffic \subseteq traffic'
    <2>1. ASSUME NEW t \in Tasks, Looks(t) \/ Drops(t) \/ Tells(t) \/ Seals(t) \/ CreateInsert(t) PROVE traffic \subseteq traffic'
      BY <2>1, LooksOne, DropsOne, TellsOne, SealsOne, InsertsOne
    <2> QED BY <2>1, Splits DEF Decline, Tick, vars
  <1>n. NoShare.with # "remote" BY DEF NoShare
  <1>f. shares[i].with = "remote" /\ i \notin incoming => \E q \in Tasks : Keeps(q, i)
    BY <1>0 DEF FedInv, Keeps
  <1>1. ASSUME NEW t \in Tasks, Looks(t) PROVE \E q \in Tasks : Keeps(q, i)'
    <2>1. Took(t) /\ shares' = shares /\ incoming' = incoming BY <1>1, LooksOne DEF tables
    <2>2. task[t].pc \notin {"notify", "compensate", "delete"}
      BY <1>1 DEF Looks, CreateStart, OwnerRead, JobList, Reconcile, GroupShares, SpreadRead, CarryList, CoveringRead,
                  Expand, Recheck, LiveUIDs, Does
    <2> QED BY <1>f, <2>1, <2>2, KeepersStay
  <1>2. ASSUME NEW t \in Tasks, Drops(t) PROVE \E q \in Tasks : Keeps(q, i)'
    <2>1. Took(t) /\ incoming' = incoming /\ shares[i].with = "remote" BY <1>2, <1>n, DropsOne
    <2>2. PICK q \in Tasks : Keeps(q, i) BY <1>f, <2>1
    <2>3. CASE q = t
      <3>1. task[t].pc \in {"notify", "compensate", "delete"} /\ \E c \in task[t].sh : c.id = i BY <2>2, <2>3 DEF Keeps
      <3>2. CreateCompensate(t) \/ DeleteRow(t)
        BY <1>2, <3>1 DEF Drops, UpdateRow, JobReap, RemoveShares
      <3>3. Mine(t).id = i BY <3>1, InHand DEF Single
      <3>4. shares' = [shares EXCEPT ![i] = NoShare] BY <3>2, <3>3 DEF CreateCompensate, DeleteRow
      <3>5. shares'[i] = NoShare BY <3>4 DEF Base, TypeOK
      <3> QED BY <1>n, <3>5
    <2>4. CASE q # t
      <3>1. task'[q] = task[q] BY <2>1, <2>4 DEF Took
      <3> QED BY <2>2, <3>1, KeepsOn
    <2> QED BY <2>3, <2>4
  <1>3. ASSUME NEW t \in Tasks, NEW a \in BOOLEAN, NEW b \in BOOLEAN, CreateNotify(t, a, b)
        PROVE  \E q \in Tasks : Keeps(q, i)'
    <2>1. /\ Took(t) /\ shares' = shares /\ incoming \subseteq incoming' /\ task[t].pc = "notify"
          /\ b => Mine(t).id \in incoming'
      BY <1>3, CreateNotifyOne DEF CreateNotify
    <2>2. PICK q \in Tasks : Keeps(q, i) BY <1>f, <2>1
    <2>3. CASE q = t
      <3>1. Mine(t).id = i BY <2>1, <2>2, <2>3, InHand DEF Keeps, Single
      <3>2. ~b BY <2>1, <3>1
      <3>3. task'[t].pc = "compensate" /\ task'[t].sh = task[t].sh BY <1>3, <3>2, CreateNotifyOne DEF Became
      <3> QED BY <2>2, <2>3, <3>3 DEF Keeps
    <2>4. CASE q # t
      <3>1. task'[q] = task[q] BY <2>1, <2>4 DEF Took
      <3> QED BY <2>2, <3>1, KeepsOn
    <2> QED BY <2>3, <2>4
  <1>4. ASSUME NEW t \in Tasks, NEW a \in BOOLEAN, Unnotify(t, a)
        PROVE  \E q \in Tasks : Keeps(q, i)'
    <2>1. /\ Took(t) /\ shares' = shares /\ task[t].pc = "unnotify"
          /\ task'[t].pc = "delete" /\ task'[t].sh = task[t].sh /\ incoming \ {Mine(t).id} \subseteq incoming'
      BY <1>4, UnnotifyOne DEF Unnotify, Became
    <2>2. Mine(t) \in task[t].sh BY <2>1, InHand DEF Single
    <2>3. CASE i = Mine(t).id BY <2>1, <2>2, <2>3 DEF Keeps
    <2>4. CASE i # Mine(t).id BY <1>f, <2>1, <2>4, KeepersStay
    <2> QED BY <2>3, <2>4
  <1>5. ASSUME NEW t \in Tasks, Tells(t), ~ \E a, b \in BOOLEAN : CreateNotify(t, a, b), ~ \E a \in BOOLEAN : Unnotify(t, a)
        PROVE  \E q \in Tasks : Keeps(q, i)'
    <2>1. Took(t) /\ shares' = shares BY <1>5, TellsOne
    <2>2. task[t].pc \notin {"notify", "compensate", "delete"} /\ incoming' = incoming
      BY <1>5 DEF Tells, CreateBell, Dismiss, JobDismiss, SpreadShare, Member, Does, tables
    <2> QED BY <1>f, <2>1, <2>2, KeepersStay
  <1>6. ASSUME NEW t \in Tasks, Seals(t) PROVE \E q \in Tasks : Keeps(q, i)'
    <2>1. Took(t) /\ shares' = shares /\ incoming' = incoming BY <1>6, SealsOne
    <2>2. task[t].pc \notin {"notify", "compensate", "delete"}
      BY <1>6 DEF Seals, SpreadApply, Carry, WrapOne, UndoOne, WriteRow, RemoveRow, WriteStart, Does
    <2> QED BY <1>f, <2>1, <2>2, KeepersStay
  <1>7. ASSUME NEW t \in Tasks, CreateInsert(t) PROVE \E q \in Tasks : Keeps(q, i)'
    <2>1. /\ Took(t) /\ incoming' = incoming /\ task[t].pc = "insert"
          /\ nextId \in Ids /\ shares' = [shares EXCEPT ![nextId] = Mine(t).row]
      BY <1>7, CreateInsertOne, InsertsOne
    <2>2. CASE i = nextId
      <3>1. Mine(t).row.with = "remote" BY <2>1, <2>2 DEF Base, TypeOK
      <3>2. task'[t].pc = "notify" /\ task'[t].sh = {[id |-> nextId, row |-> Mine(t).row]}
        BY <1>7, <3>1, CreateInsertOne DEF Became
      <3>3. [id |-> nextId, row |-> Mine(t).row].id = i BY <2>2
      <3>4. \E c \in task'[t].sh : c.id = i BY <3>2, <3>3
      <3> QED BY <3>2, <3>4 DEF Keeps
    <2>3. CASE i # nextId
      <3>1. shares'[i] = shares[i] BY <2>1, <2>3 DEF Base, TypeOK
      <3> QED BY <1>f, <2>1, <3>1, KeepersStay
    <2> QED BY <2>2, <2>3
  <1>8. CASE \E j \in incoming : Decline(j) BY <1>0, <1>8 DEF Decline
  <1>9. CASE Tick \/ UNCHANGED vars
    <2>1. UNCHANGED <<shares, incoming, task>> BY <1>9 DEF Tick, tables, vars
    <2> QED BY <1>f, <2>1, KeepsOn
  <1> QED BY <1>1, <1>2, <1>3, <1>4, <1>5, <1>6, <1>7, <1>8, <1>9, Splits DEF Tells

\* A federated share that no request is working on has its other side, whatever notices
\* and answers are lost (notifyRemote, its compensation and notifyUnshare).
THEOREM BothSidesKept == Spec => []FederatedBothSides
  <1>1. Init => FedInv
    <2> SUFFICES ASSUME Init, NEW i \in Ids PROVE shares[i].with # "remote"
      BY DEF FedInv
    <2>1. PICK n \in 0 .. MaxShares - 1 :
            /\ shares \in [Ids -> Share \cup {NoShare}]
            /\ \A j \in Ids : shares[j] # NoShare <=> j <= n
            /\ \A j \in 1 .. n : shares[j].with # "remote"
      BY DEF Init
    <2>2. CASE i <= n BY <2>1, <2>2 DEF Ids
    <2>3. CASE ~(i <= n) BY <2>1, <2>3 DEF NoShare
    <2> QED BY <2>2, <2>3
  <1>2. Base /\ FedInv => FederatedBothSides
    <2> SUFFICES ASSUME Base, FedInv, "decline" \notin traffic, NEW c \in Rows, c.row.with = "remote",
                        \A t \in Tasks : c.id \notin {d.id : d \in task[t].sh}
                 PROVE  c.id \in incoming
      BY DEF FederatedBothSides
    <2>1. c.row = shares[c.id] /\ c.id \in Ids BY RowTypes DEF Rows
    <2> QED BY <2>1 DEF FedInv
  <1> QED BY <1>1, <1>2, BaseHolds, FedStep, PTL DEF Spec

-----------------------------------------------------------------------------
(* First writes against revocations: what is in flight.                    *)

LEMMA TrafficGrows ==
  ASSUME Base, [Next]_vars
  PROVE  traffic \subseteq traffic'
  <1>1. ASSUME NEW t \in Tasks, Looks(t) \/ Drops(t) \/ Tells(t) \/ Seals(t) \/ CreateInsert(t) PROVE traffic \subseteq traffic'
    BY <1>1, LooksOne, DropsOne, TellsOne, SealsOne, InsertsOne
  <1> QED BY <1>1, Splits DEF Decline, Tick, vars

\* A request that was idle begins what was asked for; another goes on with its own.
LEMMA OpOne ==
  ASSUME Base, NEW t \in Tasks, Looks(t) \/ Drops(t) \/ Tells(t) \/ Seals(t) \/ CreateInsert(t)
  PROVE  \/ task'[t].op \in {task[t].op, "none"}
         \/ task'[t].op \in traffic
         \/ task'[t].op = "unshare" /\ traffic \cap {"view", "update"} # {}
  <1>i. Idle.op = "none" BY DEF Idle
  <1>1. CASE \E row \in Share, op \in {"share", "federate"} : CreateStart(t, op, row)
    <2>1. PICK row \in Share, op \in {"share", "federate"} : CreateStart(t, op, row) BY <1>1
    <2>2. task'[t].op = op BY <2>1, CreateStartOne DEF Became
    <2> QED BY <2>1, <2>2 DEF CreateStart, Does
  <1>2. CASE \E op \in {"unshare", "update", "view"}, c \in Rows, e \in 0 .. MaxTime : OwnerRead(t, op, c, e)
    <2>1. PICK op \in {"unshare", "update", "view"}, c \in Rows, e \in 0 .. MaxTime : OwnerRead(t, op, c, e) BY <1>2
    <2>2. op \in traffic /\ (task'[t].op = "unshare" \/ (op = "update" /\ task'[t].op = "update"))
      BY <2>1, OwnerReadOne DEF Became
    <2> QED BY <2>2
  <1>3. CASE JobList(t) BY <1>3, JobListOne DEF Became
  <1>4. CASE Reconcile(t) BY <1>4, ReconcileOne DEF Became
  <1>5. CASE GroupShares(t) BY <1>5, GroupSharesOne DEF Became
  <1>6. CASE SpreadRead(t) BY <1>6, SpreadReadOne DEF Became
  <1>7. CASE CarryList(t) \/ CoveringRead(t) BY <1>i, <1>7, CarryListOne, CoveringReadOne DEF Became
  <1>8. CASE Expand(t) BY <1>i, <1>8, ExpandOne DEF Became
  <1>9. CASE Recheck(t) \/ LiveUIDs(t) BY <1>9, RecheckOne, LiveUIDsOne DEF Became
  <1>10. CASE CreateCompensate(t) \/ UpdateRow(t) \/ RemoveShares(t)
    BY <1>i, <1>10, Here DEF CreateCompensate, UpdateRow, RemoveShares, Done
  <1>11. CASE DeleteRow(t) BY <1>11, DeleteRowOne DEF Became
  <1>12. CASE JobReap(t) BY <1>12, JobReapOne DEF Became
  <1>13. CASE (\E a, b \in BOOLEAN : CreateNotify(t, a, b)) \/ (\E a \in BOOLEAN : Unnotify(t, a))
    BY <1>i, <1>13, CreateNotifyOne, UnnotifyOne DEF Became
  <1>14. CASE CreateBell(t) \/ Dismiss(t) BY <1>14, CreateBellOne, DismissOne DEF Became
  <1>15. CASE JobDismiss(t) BY <1>15, JobDismissOne DEF Became
  <1>16. CASE SpreadShare(t) BY <1>i, <1>16, SpreadShareOne DEF Became
  <1>17. CASE \E op \in {"join", "leave"}, u \in Users : Member(t, op, u)
    <2>1. PICK op \in {"join", "leave"}, u \in Users : Member(t, op, u) BY <1>17
    <2> QED BY <2>1, MemberOne DEF Became
  <1>18. CASE SpreadApply(t) BY <1>18, SpreadApplyOne DEF Became
  <1>19. CASE Carry(t) BY <1>19, CarryOne DEF Became
  <1>20. CASE WrapOne(t) BY <1>20, WrapOneOne DEF Became
  <1>21. CASE UndoOne(t) BY <1>i, <1>21, UndoOneOne DEF Became
  <1>22. CASE WriteRow(t) BY <1>i, <1>22, WriteRowOne DEF Became
  <1>23. CASE RemoveRow(t) BY <1>23, RemoveRowOne DEF Became
  <1>24. CASE \E op \in {"write", "overwrite"} : WriteStart(t, op) BY <1>24, WriteStartOne DEF Became
  <1>25. CASE CreateInsert(t) BY <1>25, CreateInsertOne DEF Became
  <1> QED BY <1>1, <1>2, <1>3, <1>4, <1>5, <1>6, <1>7, <1>8, <1>9, <1>10, <1>11, <1>12, <1>13, <1>14, <1>15, <1>16, <1>17,
             <1>18, <1>19, <1>20, <1>21, <1>22, <1>23, <1>24, <1>25 DEF Looks, Drops, Tells, Seals

LEMMA AskedStep == Base /\ Asked /\ [Next]_vars => Asked'
  <1> SUFFICES ASSUME Base, Asked, [Next]_vars, NEW q \in Tasks
               PROVE  \/ task'[q].op \in traffic' \cup {"none"}
                      \/ task'[q].op = "unshare" /\ traffic' \cap {"view", "update"} # {}
    BY DEF Asked
  <1>1. traffic \subseteq traffic' BY TrafficGrows
  <1>2. \/ task[q].op \in traffic \cup {"none"}
        \/ task[q].op = "unshare" /\ traffic \cap {"view", "update"} # {}
    BY DEF Asked
  <1>3. CASE task'[q] = task[q] BY <1>1, <1>2, <1>3
  <1>4. CASE task'[q] # task[q]
    <2>1. PICK t \in Tasks : Took(t) /\ (Looks(t) \/ Drops(t) \/ Tells(t) \/ Seals(t) \/ CreateInsert(t))
      BY <1>4, Movers
    <2>2. t = q BY <1>4, <2>1 DEF Took
    <2> QED BY <1>1, <1>2, <2>1, <2>2, OpOne
  <1> QED BY <1>3, <1>4

LEMMA InMix ==
  ASSUME Base, Asked, Mix, NEW t \in Tasks
  PROVE  /\ task[t].op \in {"none", "write", "unshare", "job", "leave"}
         /\ FirstWrites => task[t].op # "leave"
         /\ Leavers => task[t].op \notin {"unshare", "job"}
         /\ task[t].pc \notin {"insert", "bell", "notify", "compensate", "update", "removeShares"}
         /\ task[t].pc \in Walk => task[t].op \in {"unshare", "job", "leave"}
         /\ task[t].pc \in Minted => task[t].op = "write"
         /\ task[t].pc = "group" => task[t].op = "leave"
         /\ task[t].pc = "idle" => task[t].op = "none"
  <1>1. \/ task[t].op \in traffic \cup {"none"}
        \/ task[t].op = "unshare" /\ traffic \cap {"view", "update"} # {}
    BY DEF Asked
  <1>2. task[t].op \in {"none", "write", "unshare", "job", "leave", "view"} /\ (FirstWrites => task[t].op # "leave")
        /\ (Leavers => task[t].op \notin {"unshare", "job"})
    BY <1>1 DEF Mix, FirstWrites, Leavers
  <1>3. Fits(task[t]) /\ task[t].pc \in PCs BY Here
  <1>4. task[t].op # "view" BY <1>2, <1>3 DEF Fits, PCs, Single, Walk, Minted
  <1> QED BY <1>2, <1>3, <1>4 DEF Fits, Walk, Minted

\* What can happen in such a mix.
Starts(t) ==
  \/ \E op \in {"unshare", "view"}, c \in Rows, e \in 0 .. MaxTime : OwnerRead(t, op, c, e)
  \/ JobList(t) \/ (\E u \in Users : Member(t, "leave", u)) \/ WriteStart(t, "write")
Removes(t) == DeleteRow(t) \/ JobReap(t)
Walks(t) ==
  \/ \E a \in BOOLEAN : Unnotify(t, a)
  \/ Dismiss(t) \/ JobDismiss(t) \/ GroupShares(t) \/ SpreadRead(t) \/ SpreadShare(t) \/ SpreadApply(t)
Writes(t) == WriteRow(t) \/ CoveringRead(t) \/ Expand(t) \/ WrapOne(t) \/ Recheck(t) \/ LiveUIDs(t) \/ UndoOne(t)

LEMMA MixSteps ==
  ASSUME Base, StrayInv, Mix, NEW t \in Tasks, Looks(t) \/ Drops(t) \/ Tells(t) \/ Seals(t) \/ CreateInsert(t)
  PROVE  Starts(t) \/ Removes(t) \/ Walks(t) \/ Writes(t)
  <1>1. Asked /\ OneWriter BY DEF StrayInv
  <1>2. traffic \cap {"share", "federate", "update", "join", "overwrite", "remove", "reconcile"} = {}
    BY DEF Mix, FirstWrites, Leavers
  <1>3. task[t].pc \notin {"insert", "bell", "notify", "compensate", "update", "removeShares"}
    BY <1>1, InMix
  <1>4. task[t].pc \notin {"carryList", "carry"}
    <2>1. task[t].pc \in {"carryList", "carry"} => Writing(t) BY Here DEF Fits, Minted, Writing
    <2> QED BY <1>1, <2>1 DEF OneWriter
  <1>5. CASE Looks(t)
    <2>1. CASE \E row \in Share, op \in {"share", "federate"} : CreateStart(t, op, row)
      BY <1>2, <2>1 DEF CreateStart, Does
    <2>2. CASE \E op \in {"unshare", "update", "view"}, c \in Rows, e \in 0 .. MaxTime : OwnerRead(t, op, c, e)
      <3>1. PICK op \in {"unshare", "update", "view"}, c \in Rows, e \in 0 .. MaxTime : OwnerRead(t, op, c, e) BY <2>2
      <3>2. op \in traffic BY <3>1 DEF OwnerRead, Does
      <3>3. op \in {"unshare", "view"} BY <1>2, <3>2
      <3> QED BY <3>1, <3>3 DEF Starts
    <2>3. CASE JobList(t) \/ Reconcile(t) BY <1>2, <2>3 DEF Reconcile, Does, Starts
    <2>4. CASE GroupShares(t) \/ SpreadRead(t) BY <2>4 DEF Walks
    <2>5. CASE CarryList(t) BY <1>4, <2>5 DEF CarryList
    <2>6. CASE CoveringRead(t) \/ Expand(t) \/ Recheck(t) \/ LiveUIDs(t) BY <2>6 DEF Writes
    <2> QED BY <1>5, <2>1, <2>2, <2>3, <2>4, <2>5, <2>6 DEF Looks
  <1>6. CASE Drops(t) BY <1>3, <1>6 DEF Drops, CreateCompensate, UpdateRow, RemoveShares, Removes
  <1>7. CASE Tells(t)
    <2>1. CASE \E op \in {"join", "leave"}, u \in Users : Member(t, op, u)
      <3>1. PICK op \in {"join", "leave"}, u \in Users : Member(t, op, u) BY <2>1
      <3>2. op \in traffic BY <3>1 DEF Member, Does
      <3>3. op = "leave" BY <1>2, <3>2
      <3> QED BY <3>1, <3>3 DEF Starts
    <2>2. CASE (\E a, b \in BOOLEAN : CreateNotify(t, a, b)) \/ CreateBell(t)
      BY <1>3, <2>2 DEF CreateNotify, CreateBell
    <2>3. CASE Dismiss(t) \/ JobDismiss(t) \/ SpreadShare(t) \/ \E a \in BOOLEAN : Unnotify(t, a) BY <2>3 DEF Walks
    <2> QED BY <1>7, <2>1, <2>2, <2>3 DEF Tells
  <1>8. CASE Seals(t)
    <2>1. CASE Carry(t) BY <1>4, <2>1 DEF Carry
    <2>2. CASE RemoveRow(t) BY <1>2, <2>2 DEF RemoveRow, Does
    <2>3. CASE \E op \in {"write", "overwrite"} : WriteStart(t, op) BY <1>2, <2>3 DEF WriteStart, Does, Starts
    <2>4. CASE SpreadApply(t) \/ WrapOne(t) \/ UndoOne(t) \/ WriteRow(t) BY <2>4 DEF Walks, Writes
    <2> QED BY <1>8, <2>1, <2>2, <2>3, <2>4 DEF Seals
  <1>9. CASE CreateInsert(t) BY <1>3, <1>9 DEF CreateInsert
  <1> QED BY <1>5, <1>6, <1>7, <1>8, <1>9

-----------------------------------------------------------------------------
(* First writes against revocations: what a step changes.                  *)

\* An operation is at one of its own statements.
LEMMA Places ==
  ASSUME Base, Asked, Mix, NEW t \in Tasks
  PROVE  /\ task[t].op = "write" <=> task[t].pc \in Minted
         /\ task[t].op = "none" <=> task[t].pc = "idle"
         /\ task[t].op \in {"unshare", "job", "leave"} => 
              task[t].pc \in Walk \cup {"unnotify", "delete", "dismiss", "reap", "bells", "group"}
         /\ task[t].op \in {"unshare", "job"} => FirstWrites /\ ~Leavers
         /\ task[t].op = "leave" => Leavers /\ ~FirstWrites
         /\ Writing(t) <=> task[t].op = "write"
  <1>1. Fits(task[t]) /\ task[t].pc \in PCs BY Here
  <1>2. /\ task[t].op \in {"none", "write", "unshare", "job", "leave"}
        /\ FirstWrites => task[t].op # "leave"
        /\ Leavers => task[t].op \notin {"unshare", "job"}
        /\ FirstWrites \/ Leavers
        /\ task[t].pc \notin {"insert", "bell", "notify", "compensate", "update", "removeShares"}
        /\ task[t].pc \in Walk => task[t].op \in {"unshare", "job", "leave"}
        /\ task[t].pc \in Minted => task[t].op = "write"
        /\ task[t].pc = "group" => task[t].op = "leave"
        /\ task[t].pc = "idle" => task[t].op = "none"
    BY InMix DEF Mix
  <1>3. task[t].op = "write" => task[t].pc \in Minted
    BY <1>1, <1>2 DEF Fits, PCs, Single
  <1>4. task[t].op = "none" => task[t].pc = "idle"
    BY <1>1, <1>2 DEF Fits, PCs, Single
  <1>5. task[t].op \in {"unshare", "job", "leave"} => 
              task[t].pc \in Walk \cup {"unnotify", "delete", "dismiss", "reap", "bells", "group"}
    BY <1>1, <1>2 DEF Fits, PCs, Single
  <1> QED BY <1>2, <1>3, <1>4, <1>5 DEF Writing

\* Shares only go, members only leave, and the file has its row from a write on.
LEMMA MixTables ==
  ASSUME Base, StrayInv, Mix, NEW t \in Tasks, Starts(t) \/ Removes(t) \/ Walks(t) \/ Writes(t)
  PROVE  /\ Took(t)
         /\ \A i \in Ids : shares'[i] \in {NoShare, shares[i]}
         /\ members' \subseteq members
         /\ FirstWrites => members' = members
         /\ Leavers => shares' = shares
         /\ fileKey' = fileKey \/ WriteRow(t)
  <1>1. CASE \E op \in {"unshare", "view"}, c \in Rows, e \in 0 .. MaxTime : OwnerRead(t, op, c, e)
    <2>1. PICK op \in {"unshare", "view"}, c \in Rows, e \in 0 .. MaxTime : OwnerRead(t, op, c, e) BY <1>1
    <2>2. Took(t) BY <2>1, OwnerReadOne
    <2> QED BY <2>1, <2>2 DEF OwnerRead, tables, keyTables
  <1>2. CASE JobList(t) BY <1>2, JobListOne DEF JobList, tables, keyTables
  <1>3. CASE \E u \in Users : Member(t, "leave", u)
    <2>1. PICK u \in Users : Member(t, "leave", u) BY <1>3
    <2>2. Took(t) /\ "leave" \in traffic BY <2>1, MemberOne
    <2>3. ~FirstWrites BY <2>2 DEF FirstWrites
    <2> QED BY <2>1, <2>2, <2>3 DEF Member, keyTables
  <1>4. CASE WriteStart(t, "write") BY <1>4, WriteStartOne DEF WriteStart
  <1>5. CASE Removes(t)
    <2>1. task[t].pc \in {"delete", "reap"} BY <1>5 DEF Removes, DeleteRow, JobReap
    <2>2. task[t].op \in {"unshare", "job"} BY <2>1, Here DEF Fits
    <2>3. ~Leavers BY <2>2, Places DEF StrayInv
    <2>4. Drops(t) /\ task[t].pc # "update" BY <1>5, <2>1 DEF Removes, Drops
    <2>5. /\ Took(t) /\ members' = members /\ fileKey' = fileKey
          /\ \A i \in Ids : shares'[i] = NoShare \/ shares'[i] = shares[i]
      BY <2>4, DropsOne DEF keyTables
    <2> QED BY <2>3, <2>5
  <1>6. CASE Walks(t)
    <2>1. CASE \E a \in BOOLEAN : Unnotify(t, a) BY <2>1, UnnotifyOne DEF Unnotify, keyTables
    <2>2. CASE Dismiss(t) \/ JobDismiss(t)
      BY <2>2, DismissOne, JobDismissOne DEF Dismiss, JobDismiss, keyTables
    <2>3. CASE GroupShares(t) \/ SpreadRead(t) \/ SpreadShare(t)
      BY <2>3, GroupSharesOne, SpreadReadOne, SpreadShareOne DEF GroupShares, SpreadRead, SpreadShare, tables, keyTables
    <2>4. CASE SpreadApply(t) BY <2>4, SpreadApplyOne DEF SpreadApply
    <2> QED BY <1>6, <2>1, <2>2, <2>3, <2>4 DEF Walks
  <1>7. CASE Writes(t)
    <2>1. CASE WriteRow(t) BY <2>1, WriteRowOne DEF WriteRow
    <2>2. CASE WrapOne(t) \/ UndoOne(t) BY <2>2, WrapOneOne, UndoOneOne DEF WrapOne, UndoOne
    <2>3. CASE CoveringRead(t) \/ Expand(t) \/ Recheck(t) \/ LiveUIDs(t)
      BY <2>3, CoveringReadOne, ExpandOne, RecheckOne, LiveUIDsOne
         DEF CoveringRead, Expand, Recheck, LiveUIDs, tables, keyTables
    <2> QED BY <1>7, <2>1, <2>2, <2>3 DEF Writes
  <1> QED BY <1>1, <1>2, <1>3, <1>4, <1>5, <1>6, <1>7 DEF Starts

\* A request holds copies of shares as they were; only the job's list makes a reaper.
LEMMA CopiesOne ==
  ASSUME Base, StrayInv, Mix, NEW t \in Tasks, Starts(t) \/ Removes(t) \/ Walks(t) \/ Writes(t)
  PROVE  /\ task'[t].sh \cup task'[t].todo \subseteq task[t].sh \cup task[t].todo \cup Rows
         /\ task'[t].pc = "reap" => JobList(t)
  <1>i. Idle.sh = {} /\ Idle.todo = {} /\ Idle.pc = "idle" BY DEF Idle
  <1>1. CASE \E op \in {"unshare", "view"}, c \in Rows, e \in 0 .. MaxTime : OwnerRead(t, op, c, e)
    <2>1. PICK op \in {"unshare", "view"}, c \in Rows, e \in 0 .. MaxTime : OwnerRead(t, op, c, e) BY <1>1
    <2>2. task'[t].sh = {c} /\ task'[t].todo = {} /\ task'[t].pc # "reap" BY <2>1, OwnerReadOne DEF Became
    <2> QED BY <2>2
  <1>2. CASE JobList(t) BY <1>2, JobListOne DEF Became
  <1>3. CASE \E u \in Users : Member(t, "leave", u)
    <2>1. PICK u \in Users : Member(t, "leave", u) BY <1>3
    <2> QED BY <2>1, MemberOne DEF Became
  <1>4. CASE WriteStart(t, "write") BY <1>4, WriteStartOne DEF Became
  <1>5. CASE Removes(t) BY <1>5, DeleteRowOne, JobReapOne DEF Removes, Became
  <1>6. CASE Walks(t)
    <2>1. CASE \E a \in BOOLEAN : Unnotify(t, a) BY <2>1, UnnotifyOne DEF Became
    <2>2. CASE Dismiss(t) \/ JobDismiss(t) BY <2>2, DismissOne, JobDismissOne DEF Became
    <2>3. CASE GroupShares(t) BY <2>3, GroupSharesOne DEF Became
    <2>4. CASE SpreadRead(t) BY <2>4, SpreadReadOne DEF Became
    <2>5. CASE SpreadShare(t) BY <1>i, <2>5, SpreadShareOne DEF Became
    <2>6. CASE SpreadApply(t) BY <2>6, SpreadApplyOne DEF Became
    <2> QED BY <1>6, <2>1, <2>2, <2>3, <2>4, <2>5, <2>6 DEF Walks
  <1>7. CASE Writes(t)
    <2>1. CASE WriteRow(t) BY <1>i, <2>1, WriteRowOne DEF Became
    <2>2. CASE CoveringRead(t) BY <1>i, <2>2, RowTypes, CoveringReadOne DEF Became
    <2>3. CASE Expand(t) BY <1>i, <2>3, ExpandOne DEF Became
    <2>4. CASE WrapOne(t) BY <2>4, WrapOneOne DEF Became
    <2>5. CASE Recheck(t) \/ LiveUIDs(t) BY <2>5, RowTypes, RecheckOne, LiveUIDsOne DEF Became
    <2>6. CASE UndoOne(t) BY <1>i, <2>6, UndoOneOne DEF Became
    <2> QED BY <1>7, <2>1, <2>2, <2>3, <2>4, <2>5, <2>6 DEF Writes
  <1> QED BY <1>1, <1>2, <1>3, <1>4, <1>5, <1>6, <1>7 DEF Starts

\* The list the job makes at its start is everything it may reap.
LEMMA ExactStep ==
  ASSUME Base, Base', StrayInv, Mix, NEW t \in Tasks, Starts(t) \/ Removes(t) \/ Walks(t) \/ Writes(t)
  PROVE  \A q \in Tasks : Exact(task[q])'
  <1> SUFFICES ASSUME NEW q \in Tasks
               PROVE  /\ \A c \in task'[q].sh \cup task'[q].todo : shares'[c.id] \in {NoShare, c.row}
                      /\ task'[q].pc = "reap" => \A c \in Rows' : Expired(c.row, task'[q].num) => c \in task'[q].todo
    BY DEF Exact
  <1>1. /\ Took(t) /\ \A i \in Ids : shares'[i] \in {NoShare, shares[i]} BY MixTables
  <1>2. Rows' \subseteq Rows BY <1>1 DEF Rows
  <1>3. ASSUME NEW r \in Tasks
        PROVE  \A c \in task[r].sh \cup task[r].todo \cup Rows : c.id \in Ids /\ shares[c.id] \in {NoShare, c.row}
    BY Here, RowTypes DEF StrayInv, Exact, Copies, Copy
  <1>4. CASE q = t
    <2>1. \A c \in task'[t].sh \cup task'[t].todo : shares'[c.id] \in {NoShare, c.row}
      <3>1. task'[t].sh \cup task'[t].todo \subseteq task[t].sh \cup task[t].todo \cup Rows BY CopiesOne
      <3> QED BY <1>1, <1>3, <3>1
    <2>2. ASSUME task'[t].pc = "reap" PROVE \A c \in Rows' : Expired(c.row, task'[t].num) => c \in task'[t].todo
      <3>1. JobList(t) BY <2>2, CopiesOne
      <3>2. task'[t].num = clock /\ task'[t].todo = {c \in Rows : Expired(c.row, clock)}
        BY <3>1, JobListOne DEF Became
      <3> QED BY <1>2, <3>2
    <2> QED BY <1>4, <2>1, <2>2
  <1>5. CASE q # t
    <2>1. task'[q] = task[q] BY <1>1, <1>5 DEF Took
    <2>2. task[q].pc = "reap" => \A c \in Rows : Expired(c.row, task[q].num) => c \in task[q].todo
      BY DEF StrayInv, Exact
    <2> QED BY <1>1, <1>2, <1>3, <2>1, <2>2
  <1> QED BY <1>4, <1>5

\* A writer begins while there is no other and no row, and writes the key it minted.
LEMMA WriterOne ==
  ASSUME Base, StrayInv, Mix, NEW t \in Tasks, Starts(t) \/ Removes(t) \/ Walks(t) \/ Writes(t),
         task'[t].op \in {"write", "overwrite"}
  PROVE  \/ WriteStart(t, "write")
         \/ /\ Writing(t)
            /\ task'[t].pc \notin {"row", "carryList", "carry"} /\ task'[t].key = fileKey'
  <1>i. Idle.op = "none" BY DEF Idle
  <1>w. /\ Writing(t) => task[t].pc \in Minted
        /\ task[t].pc \in Minted => Writing(t)
        /\ task[t].pc \in Minted /\ task[t].pc # "row" => task[t].key = fileKey /\ task[t].pc \notin {"carryList", "carry"}
        /\ task[t].pc = "row" => task[t].old = 0
    BY Places DEF StrayInv, OneWriter, Minted
  <1>1. CASE \E op \in {"unshare", "view"}, c \in Rows, e \in 0 .. MaxTime : OwnerRead(t, op, c, e)
    <2>1. PICK op \in {"unshare", "view"}, c \in Rows, e \in 0 .. MaxTime : OwnerRead(t, op, c, e) BY <1>1
    <2> QED BY <2>1, OwnerReadOne DEF Became
  <1>2. CASE JobList(t) BY <1>2, JobListOne DEF Became
  <1>3. CASE \E u \in Users : Member(t, "leave", u)
    <2>1. PICK u \in Users : Member(t, "leave", u) BY <1>3
    <2> QED BY <2>1, MemberOne DEF Became
  <1>5. CASE Removes(t) BY <1>5, <1>w, DeleteRowOne, JobReapOne DEF Removes, Became, Writing, Minted
  <1>6. CASE Walks(t)
    <2>1. CASE \E a \in BOOLEAN : Unnotify(t, a) BY <1>w, <2>1, UnnotifyOne DEF Became, Writing, Minted
    <2>2. CASE Dismiss(t) \/ JobDismiss(t) BY <1>w, <2>2, DismissOne, JobDismissOne DEF Became, Writing, Minted
    <2>3. CASE GroupShares(t) BY <1>w, <2>3, GroupSharesOne DEF Became, Writing, Minted
    <2>4. CASE SpreadRead(t) BY <1>w, <2>4, SpreadReadOne DEF Became, Writing, Minted
    <2>5. CASE SpreadShare(t) BY <1>i, <1>w, <2>5, SpreadShareOne DEF Became, Writing, Minted
    <2>6. CASE SpreadApply(t) BY <1>w, <2>6, SpreadApplyOne DEF Became, Writing, Minted
    <2> QED BY <1>6, <2>1, <2>2, <2>3, <2>4, <2>5, <2>6 DEF Walks
  <1>7. CASE Writes(t)
    <2>1. CASE WriteRow(t)
      <3>1. task[t].pc = "row" /\ task[t].old = 0 BY <1>w, <2>1, WriteRowOne
      <3>2. task'[t].pc = "covering" /\ task'[t].key = fileKey' BY <2>1, <3>1, WriteRowOne DEF Became
      <3> QED BY <1>w, <3>1, <3>2 DEF Minted
    <2>e. ~WriteRow(t) => fileKey' = fileKey BY MixTables
    <2>2. CASE CoveringRead(t) BY <1>i, <1>w, <2>2, <2>e, CoveringReadOne DEF Became, Minted, WriteRow
    <2>3. CASE Expand(t) BY <1>i, <1>w, <2>3, <2>e, ExpandOne DEF Became, Minted, WriteRow
    <2>4. CASE WrapOne(t) BY <1>w, <2>4, <2>e, WrapOneOne DEF Became, Minted, WriteRow
    <2>5. CASE Recheck(t) BY <1>w, <2>5, <2>e, RecheckOne DEF Became, Minted, WriteRow
    <2>6. CASE LiveUIDs(t) BY <1>w, <2>6, <2>e, LiveUIDsOne DEF Became, Minted, WriteRow
    <2>7. CASE UndoOne(t) BY <1>i, <1>w, <2>7, <2>e, UndoOneOne DEF Became, Minted, WriteRow
    <2> QED BY <1>7, <2>1, <2>2, <2>3, <2>4, <2>5, <2>6, <2>7 DEF Writes
  <1> QED BY <1>1, <1>2, <1>3, <1>5, <1>6, <1>7 DEF Starts

\* Only the writer adds wraps, of the file's key and of its own making.
LEMMA WrapsOne ==
  ASSUME Base, StrayInv, Mix, NEW t \in Tasks, Starts(t) \/ Removes(t) \/ Walks(t) \/ Writes(t), NEW p \in wraps' \ wraps
  PROVE  /\ WrapOne(t) /\ task[t].pc = "wrapping"
         /\ \E u \in task[t].uids : u \in Users /\ p = <<task[t].key, u>> /\ u \in task'[t].wrapped /\ task'[t].pc = "wrapping"
  <1>0. Asked BY DEF StrayInv
  <1>1. CASE Starts(t) BY <1>1 DEF Starts, OwnerRead, JobList, Member, WriteStart, tables, keyTables
  <1>2. CASE Removes(t) BY <1>2 DEF Removes, DeleteRow, JobReap, keyTables
  <1>3. CASE Walks(t)
    <2>1. CASE SpreadApply(t)
      <3>1. task[t].op \in {"unshare", "job", "leave"} BY <1>0, <2>1, SpreadApplyOne, InMix DEF Walk
      <3> QED BY <2>1, <3>1, SpreadApplyOne
    <2>2. CASE ~SpreadApply(t)
      BY <1>3, <2>2 DEF Walks, Unnotify, Dismiss, JobDismiss, GroupShares, SpreadRead, SpreadShare, tables, keyTables
    <2> QED BY <2>1, <2>2
  <1>4. CASE Writes(t)
    <2>1. CASE WrapOne(t) BY <2>1, WrapOneOne DEF Became
    <2>2. CASE UndoOne(t) BY <2>2, UndoOneOne
    <2>3. CASE ~WrapOne(t) /\ ~UndoOne(t)
      BY <1>4, <2>3 DEF Writes, WriteRow, CoveringRead, Expand, Recheck, LiveUIDs, tables, keyTables
    <2> QED BY <2>1, <2>2, <2>3
  <1> QED BY <1>1, <1>2, <1>3, <1>4

LEMMA OneWriterStep ==
  ASSUME Base, Base', StrayInv, Mix, NEW t \in Tasks, Starts(t) \/ Removes(t) \/ Walks(t) \/ Writes(t)
  PROVE  OneWriter'
  <1>0. OneWriter /\ Took(t) /\ wraps \subseteq Keys \X Users /\ fileKey \in Nat
    BY MixTables DEF StrayInv, Base, TypeOK
  <1>q. \A q \in Tasks \ {t} : task'[q] = task[q] BY <1>0 DEF Took
  <1>m. WriteRow(t) => /\ Writing(t) /\ fileKey = 0 /\ wraps' = wraps
    <2> SUFFICES ASSUME WriteRow(t) PROVE Writing(t) /\ fileKey = 0 /\ wraps' = wraps
      OBVIOUS
    <2>1. task[t].pc = "row" /\ wraps' = wraps BY DEF WriteRow
    <2>2. Writing(t) BY <2>1, Places DEF StrayInv, Minted
    <2> QED BY <1>0, <2>1, <2>2 DEF OneWriter
  <1>k. fileKey' = fileKey \/ WriteRow(t) BY MixTables
  <1>s. WriteStart(t, "write") => /\ \A s \in Tasks : ~Writing(s)
                                  /\ fileKey = 0 /\ fileKey' = fileKey
                                  /\ task'[t].pc = "row" /\ task'[t].old = 0
    <2> SUFFICES ASSUME WriteStart(t, "write")
                 PROVE  /\ \A s \in Tasks : ~Writing(s)
                        /\ fileKey = 0 /\ fileKey' = fileKey
                        /\ task'[t].pc = "row" /\ task'[t].old = 0
      OBVIOUS
    <2>1. (\A s \in Tasks : ~Writing(s)) /\ fileKey = 0 /\ fileKey' = fileKey BY DEF WriteStart
    <2>2. task'[t].pc = "row" /\ task'[t].old = fileKey BY WriteStartOne DEF Became
    <2> QED BY <2>1, <2>2
  <1>1. \A q, s \in Tasks : task'[q].op \in {"write", "overwrite"} /\ task'[s].op \in {"write", "overwrite"} => q = s
    <2> SUFFICES ASSUME NEW q \in Tasks, NEW s \in Tasks, q # s,
                        task'[q].op \in {"write", "overwrite"}, task'[s].op \in {"write", "overwrite"}
                 PROVE  FALSE
      OBVIOUS
    <2>1. ASSUME NEW r \in Tasks, task'[r].op \in {"write", "overwrite"}
          PROVE  Writing(r) \/ (r = t /\ WriteStart(t, "write"))
      BY <1>q, <2>1, WriterOne DEF Writing
    <2>2. Writing(q) /\ Writing(s) BY <1>s, <2>1
    <2> QED BY <1>0, <2>2 DEF OneWriter
  <1>2. ASSUME NEW q \in Tasks, task'[q].op \in {"write", "overwrite"}
        PROVE  /\ task'[q].pc = "row" => task'[q].old = 0 /\ fileKey' = 0
               /\ task'[q].pc # "row" => task'[q].key = fileKey' /\ task'[q].pc \notin {"carryList", "carry"}
    <2>1. CASE q = t BY <1>s, <1>2, <2>1, WriterOne
    <2>2. CASE q # t
      <3>1. task'[q] = task[q] /\ Writing(q) BY <1>2, <1>q, <2>2 DEF Writing
      <3>2. fileKey' = fileKey BY <1>0, <1>k, <1>m, <2>2, <3>1 DEF OneWriter
      <3> QED BY <1>0, <3>1, <3>2 DEF OneWriter
    <2> QED BY <2>1, <2>2
  <1>3. ASSUME NEW p \in wraps' PROVE p[1] = fileKey'
    <2>1. CASE p \in wraps
      <3>1. p[1] = fileKey /\ p[1] \in Keys BY <1>0, <2>1 DEF OneWriter
      <3>2. fileKey # 0 BY <3>1 DEF Keys
      <3> QED BY <1>k, <1>m, <3>1, <3>2
    <2>2. CASE p \notin wraps
      <3>1. WrapOne(t) /\ task[t].pc = "wrapping" /\ p[1] = task[t].key BY <2>2, WrapsOne
      <3>2. Writing(t) BY <3>1, Places DEF StrayInv, Minted
      <3>3. task[t].key = fileKey BY <1>0, <3>1, <3>2 DEF OneWriter
      <3>4. fileKey' = fileKey BY <3>1 DEF WrapOne
      <3> QED BY <3>1, <3>3, <3>4
    <2> QED BY <2>1, <2>2
  <1> QED BY <1>1, <1>2, <1>3 DEF OneWriter, Writing

-----------------------------------------------------------------------------
(* First writes against revocations: every wrap stays accounted for.       *)

\* A request that does not move keeps its promise.
LEMMA Bystander ==
  ASSUME Base, StrayInv, Mix, NEW t \in Tasks, Starts(t) \/ Removes(t) \/ Walks(t) \/ Writes(t), fileKey' = fileKey,
         NEW q \in Tasks \ {t}, NEW u, Strips(q, u) \/ Rechecks(q, u)
  PROVE  Strips(q, u)' \/ Rechecks(q, u)'
  <1>1. /\ task'[q] = task[q] /\ members' \subseteq members
        /\ FirstWrites => members' = members
        /\ Leavers => shares' = shares
    BY MixTables DEF Took
  <1>2. /\ task[q].op \in {"unshare", "job"} => FirstWrites
        /\ task[q].op = "leave" => Leavers
    BY Places DEF StrayInv
  <1>3. CASE Strips(q, u)
    <2>1. CASE task[q].op \in {"unshare", "job"}
      <3>1. members' = members /\ task[q].op # "leave" BY <1>1, <1>2, <2>1
      <3>2. \A c \in Copy : Recipients(q, c.row)' = Recipients(q, c.row) BY <1>1, <3>1 DEF Recipients, Sharees
      <3>3. task[q].sh \subseteq Copy /\ task[q].todo \subseteq Copy BY Here DEF Copies
      <3>4. task[q].pc # "group" BY <2>1, Here DEF Fits
      <3> QED BY <1>1, <1>3, <3>2, <3>3, <3>4 DEF Strips
    <2>2. CASE task[q].op = "leave"
      <3>1. shares' = shares BY <1>1, <1>2, <2>2
      <3>2. \A c \in Copy : Recipients(q, c.row)' = Recipients(q, c.row) BY <1>1, <2>2 DEF Recipients
      <3>3. task[q].sh \subseteq Copy /\ task[q].todo \subseteq Copy BY Here DEF Copies
      <3>4. Rows' = Rows BY <3>1 DEF Rows
      <3> QED BY <1>1, <1>3, <3>2, <3>3, <3>4 DEF Strips
    <2> QED BY <1>3, <2>1, <2>2 DEF Strips
  <1>4. CASE Rechecks(q, u)
    <2>1. \A c \in Copy : u \notin Sharees(c.row) => u \notin Sharees(c.row)' BY <1>1 DEF Sharees
    <2>2. task[q].todo \subseteq Copy BY Here DEF Copies
    <2> QED BY <1>1, <1>4, <2>1, <2>2 DEF Rechecks
  <1> QED BY <1>3, <1>4

\* Whoever loses the last share that covered him has a revocation under way: its share is
\* in the hands of Service.Delete or of the job, or the hook of his leaving is still to run.
LEMMA CoverLost ==
  ASSUME Base, Base', StrayInv, Mix, NEW t \in Tasks, Starts(t) \/ Removes(t) \/ Walks(t) \/ Writes(t),
         NEW u \in Users, u \in Covered, u \notin Covered'
  PROVE  Strips(t, u)'
  <1>1. PICK c \in CoveringRows : u \in Sharees(c.row) BY DEF Covered
  <1>2. c \in Rows /\ c \in Copy /\ c.row = shares[c.id] /\ c.id \in Ids /\ shares[c.id] # NoShare /\ c.row.with # "remote"
    BY <1>1, RowTypes DEF CoveringRows, Copies, Copy, Rows
  <1>3. c \notin Rows' \/ u \notin Sharees(c.row)'
    BY <1>2 DEF Covered, CoveringRows
  <1>4. shares' = shares => c \in Rows' BY <1>2 DEF Rows
  <1>5. members' = members => u \in Sharees(c.row)' BY <1>1 DEF Sharees
  <1>6. Asked BY DEF StrayInv
  <1>7. CASE DeleteRow(t)
    <2>1. /\ task[t].pc = "delete" /\ task'[t].pc = "dismiss" /\ task'[t].op = task[t].op /\ task'[t].sh = task[t].sh
          /\ members' = members /\ shares' = [shares EXCEPT ![Mine(t).id] = NoShare]
      BY <1>7, DeleteRowOne DEF Became, DeleteRow
    <2>2. Mine(t) \in task[t].sh /\ Mine(t).id \in Ids /\ task[t].op = "unshare" BY <2>1, InHand, Here DEF Single, Fits
    <2>3. c \notin Rows' BY <1>3, <1>5, <2>1
    <2>4. c.id = Mine(t).id
      <3>1. shares \in [Ids -> Share \cup {NoShare}] BY DEF Base, TypeOK
      <3>2. c.id # Mine(t).id => shares'[c.id] = shares[c.id] BY <1>2, <2>1, <3>1
      <3>3. shares'[c.id] = shares[c.id] => [id |-> c.id, row |-> shares'[c.id]] \in Rows' BY <1>2 DEF Rows
      <3>4. [id |-> c.id, row |-> shares[c.id]] = c BY <1>2 DEF Copy
      <3> QED BY <2>3, <3>2, <3>3, <3>4
    <2>5. PICK d \in task'[t].sh : d.row = c.row
      <3>1. shares[Mine(t).id] \in {NoShare, Mine(t).row} BY <2>2 DEF StrayInv, Exact
      <3> QED BY <1>2, <2>1, <2>2, <2>4, <3>1
    <2>6. u \in Recipients(t, d.row)' 
      <3>1. u \in Sharees(c.row)' BY <1>5, <2>1
      <3>2. Sharees(d.row)' = Sharees(c.row)' BY <2>5 DEF Sharees
      <3>3. Recipients(t, d.row)' = Sharees(d.row)' BY <2>1, <2>2 DEF Recipients
      <3> QED BY <3>1, <3>2, <3>3
    <2> QED BY <2>1, <2>2, <2>6 DEF Strips
  <1>8. CASE JobReap(t)
    <2> DEFINE reaped == {d.id : d \in {e \in Rows : Expired(e.row, task[t].num)}}
    <2>1. /\ task[t].pc = "reap" /\ task'[t].pc = "bells" /\ task'[t].op = task[t].op
          /\ task'[t].todo = {d \in task[t].todo : d.id \in reaped}
          /\ members' = members /\ shares' = [i \in Ids |-> IF i \in reaped THEN NoShare ELSE shares[i]]
      BY <1>8, JobReapOne DEF Became, JobReap
    <2>2. task[t].op = "job" BY <2>1, Here DEF Fits
    <2>3. c.id \in reaped
      <3>1. c.id \notin reaped => shares'[c.id] = shares[c.id] BY <1>2, <2>1
      <3>2. shares'[c.id] = shares[c.id] => [id |-> c.id, row |-> shares'[c.id]] \in Rows' BY <1>2 DEF Rows
      <3>3. [id |-> c.id, row |-> shares[c.id]] = c BY <1>2 DEF Copy
      <3> QED BY <1>3, <1>5, <2>1, <3>1, <3>2, <3>3
    <2>4. c \in task[t].todo
      <3>1. PICK d \in Rows : Expired(d.row, task[t].num) /\ d.id = c.id BY <2>3
      <3>2. d.row = c.row BY <1>2, <3>1, RowTypes
      <3> QED BY <1>2, <2>1, <3>1, <3>2 DEF StrayInv, Exact
    <2>5. c \in task'[t].todo BY <2>1, <2>3, <2>4
    <2>6. Recipients(t, c.row)' = Sharees(c.row)' BY <2>1, <2>2 DEF Recipients
    <2> QED BY <1>5, <2>1, <2>2, <2>5, <2>6 DEF Strips
  <1>9. CASE \E v \in Users : Member(t, "leave", v)
    <2>1. PICK v \in Users : Member(t, "leave", v) BY <1>9
    <2>2. /\ task'[t].pc = "group" /\ task'[t].op = "leave" /\ task'[t].wrapped = {v}
          /\ shares' = shares /\ members' = members \ {v}
      BY <2>1, MemberOne DEF Became, Member
    <2>3. u \notin Sharees(c.row)' /\ c \in Rows' BY <1>3, <1>4, <2>2
    <2>4. c.row.with = "group" /\ u = v
      <3>1. Sharees(c.row)' = CASE c.row.with = "group"  -> members'
                                [] c.row.with = "remote" -> {}
                                [] OTHER               -> {c.row.with}
        BY DEF Sharees
      <3>2. Sharees(c.row) = CASE c.row.with = "group"  -> members
                               [] c.row.with = "remote" -> {}
                               [] OTHER               -> {c.row.with}
        BY DEF Sharees
      <3>3. c.row.with = "group" BY <1>1, <1>2, <2>3, <3>1, <3>2
      <3>4. u \in members /\ u \notin members' BY <1>1, <2>3, <3>1, <3>2, <3>3
      <3> QED BY <2>2, <3>3, <3>4
    <2> QED BY <2>2, <2>3, <2>4 DEF Strips
  <1>10. CASE ~DeleteRow(t) /\ ~JobReap(t) /\ ~(\E v \in Users : Member(t, "leave", v))
    <2>1. shares' = shares /\ members' = members
      <3>1. CASE Starts(t) BY <1>10, <3>1 DEF Starts, OwnerRead, JobList, WriteStart, tables
      <3>2. CASE Walks(t)
        BY <3>2 DEF Walks, Unnotify, Dismiss, JobDismiss, GroupShares, SpreadRead, SpreadShare, SpreadApply, tables
      <3>3. CASE Writes(t)
        BY <3>3 DEF Writes, WriteRow, CoveringRead, Expand, WrapOne, Recheck, LiveUIDs, UndoOne, tables
      <3> QED BY <1>10, <3>1, <3>2, <3>3 DEF Removes
    <2> QED BY <1>3, <1>4, <1>5, <2>1
  <1> QED BY <1>7, <1>8, <1>9, <1>10

\* A revocation carries u's wrap with it until it has taken it away.
LEMMA StripsOn ==
  ASSUME Base, Base', StrayInv, Mix, NEW t \in Tasks, Starts(t) \/ Removes(t) \/ Walks(t) \/ Writes(t),
         fileKey' = fileKey, fileKey # 0,
         NEW u \in Users, Strips(t, u), <<fileKey', u>> \in wraps'
  PROVE  Strips(t, u)'
  <1>1. task[t].op \in {"unshare", "job", "leave"} BY DEF Strips
  <1>2. task[t].pc \in Walk \cup {"unnotify", "delete", "dismiss", "reap", "bells", "group"} BY <1>1, Places DEF StrayInv
  <1>3. task[t].pc \in {"dismiss", "group", "spread", "read", "apply", "bells"} BY <1>2 DEF Strips, Walk
  <1>4. Dismiss(t) \/ GroupShares(t) \/ SpreadShare(t) \/ SpreadRead(t) \/ SpreadApply(t) \/ JobDismiss(t)
    <2>1. ~Starts(t) BY <1>3 DEF Starts, OwnerRead, JobList, Member, WriteStart, Does
    <2>2. ~Removes(t) BY <1>3 DEF Removes, DeleteRow, JobReap
    <2>3. ~Writes(t) BY <1>3 DEF Writes, WriteRow, CoveringRead, Expand, WrapOne, Recheck, LiveUIDs, UndoOne
    <2>4. ~ \E a \in BOOLEAN : Unnotify(t, a) BY <1>3 DEF Unnotify
    <2> QED BY <2>1, <2>2, <2>3, <2>4 DEF Walks
  <1>5. UNCHANGED <<shares, members>>
    BY <1>4 DEF Dismiss, GroupShares, SpreadShare, SpreadRead, SpreadApply, JobDismiss, tables
  <1>6. Rows' = Rows BY <1>5 DEF Rows
  <1>7. task[t].sh \subseteq Copy /\ task[t].todo \subseteq Copy /\ Rows \subseteq Copy BY Here, RowTypes DEF Copies
  \* A walk goes on: who was a recipient of a share still is.
  <1>8. ASSUME task'[t].op = task[t].op, task'[t].wrapped = task[t].wrapped
        PROVE  \A c \in Copy : Recipients(t, c.row)' = Recipients(t, c.row)
    BY <1>5, <1>8 DEF Recipients, Sharees
  <1>9. CASE Dismiss(t)
    <2>1. /\ task[t].pc = "dismiss" /\ task'[t].pc = "spread" /\ task'[t].op = task[t].op
          /\ task'[t].wrapped = task[t].wrapped /\ task'[t].todo = task[t].sh
      BY <1>9, DismissOne DEF Became
    <2>2. PICK c \in task[t].sh : u \in Recipients(t, c.row) BY <2>1 DEF Strips, Walk
    <2>3. u \in Recipients(t, c.row)' BY <1>7, <1>8, <2>1, <2>2
    <2> QED BY <1>1, <2>1, <2>2, <2>3 DEF Strips, Walk
  <1>10. CASE GroupShares(t)
    <2>1. /\ task[t].pc = "group" /\ task'[t].pc = "spread" /\ task'[t].op = task[t].op
          /\ task'[t].wrapped = task[t].wrapped /\ task'[t].todo = {c \in Rows : c.row.with = "group"}
      BY <1>10, GroupSharesOne DEF Became
    <2>2. u \in task[t].wrapped /\ \E c \in Rows : c.row.with = "group" BY <2>1 DEF Strips, Walk
    <2>3. PICK c \in task'[t].todo : c.row.with = "group" BY <2>1, <2>2
    <2>4. task[t].op = "leave" BY <1>1, <2>1, Here DEF Fits
    <2>5. u \in Recipients(t, c.row)' BY <2>1, <2>2, <2>4 DEF Recipients
    <2> QED BY <1>1, <2>1, <2>3, <2>5 DEF Strips, Walk
  <1>11. CASE JobDismiss(t)
    <2>1. /\ task[t].pc = "bells" /\ task'[t].pc = "spread" /\ task'[t].op = task[t].op
          /\ task'[t].wrapped = task[t].wrapped /\ task'[t].todo = task[t].todo
      BY <1>11, JobDismissOne DEF Became
    <2>2. PICK c \in task[t].todo : u \in Recipients(t, c.row) BY <2>1 DEF Strips, Walk
    <2>3. u \in Recipients(t, c.row)' BY <1>7, <1>8, <2>1, <2>2
    <2> QED BY <1>1, <2>1, <2>2, <2>3 DEF Strips, Walk
  <1>12. CASE SpreadShare(t)
    <2>1. task[t].pc = "spread" BY <1>12, SpreadShareOne
    <2>2. PICK c \in task[t].todo : u \in Recipients(t, c.row) BY <2>1 DEF Strips
    <2>3. PICK d \in task[t].todo :
            /\ task'[t].pc = "read" /\ task'[t].op = task[t].op /\ task'[t].wrapped = task[t].wrapped
            /\ task'[t].todo = task[t].todo \ {d} /\ task'[t].uids = Recipients(t, d.row)
      BY <1>12, <2>2, SpreadShareOne DEF Became
    <2>4. CASE c = d BY <1>1, <2>2, <2>3, <2>4 DEF Strips
    <2>5. CASE c # d
      <3>1. u \in Recipients(t, c.row)' BY <1>7, <1>8, <2>2, <2>3
      <3>2. c \in task'[t].todo BY <2>2, <2>3, <2>5
      <3> QED BY <1>1, <2>3, <3>1, <3>2 DEF Strips, Walk
    <2> QED BY <2>4, <2>5
  <1>13. CASE SpreadRead(t) /\ u \in task[t].uids
    <2>1. /\ task'[t].pc = "apply" /\ task'[t].op = task[t].op /\ task'[t].uids = task[t].uids /\ task'[t].key = fileKey
      BY <1>13, SpreadReadOne DEF Became
    <2> QED BY <1>1, <1>13, <2>1 DEF Strips
  <1>14. CASE SpreadRead(t) /\ u \notin task[t].uids
    <2>1. /\ task[t].pc = "read" /\ task'[t].pc \in Walk /\ task'[t].op = task[t].op
          /\ task'[t].wrapped = task[t].wrapped /\ task'[t].todo = task[t].todo
      BY <1>14, SpreadReadOne DEF Became, Walk
    <2>2. PICK c \in task[t].todo : u \in Recipients(t, c.row) BY <1>14, <2>1 DEF Strips
    <2>3. u \in Recipients(t, c.row)' BY <1>7, <1>8, <2>1, <2>2
    <2> QED BY <1>1, <2>1, <2>2, <2>3 DEF Strips
  <1>15. CASE SpreadApply(t)
    <2>1. PICK v \in task[t].uids :
            /\ task[t].pc = "apply" /\ task'[t].pc = "read" /\ task'[t].op = task[t].op
            /\ task'[t].wrapped = task[t].wrapped /\ task'[t].todo = task[t].todo /\ task'[t].uids = task[t].uids \ {v}
            /\ wraps' = wraps \ {<<task[t].key, v>>}
      BY <1>1, <1>15, SpreadApplyOne DEF Became
    <2>2. CASE u \in task[t].uids /\ task[t].key = fileKey
      <3>1. v # u BY <2>1, <2>2
      <3> QED BY <1>1, <2>1, <2>2, <3>1 DEF Strips
    <2>3. CASE \E c \in task[t].todo : u \in Recipients(t, c.row)
      <3>1. PICK c \in task[t].todo : u \in Recipients(t, c.row) BY <2>3
      <3>2. u \in Recipients(t, c.row)' BY <1>7, <1>8, <2>1, <3>1
      <3> QED BY <1>1, <2>1, <3>1, <3>2 DEF Strips, Walk
    <2> QED BY <2>1, <2>2, <2>3 DEF Strips
  <1> QED BY <1>4, <1>9, <1>10, <1>11, <1>12, <1>13, <1>14, <1>15

\* The writer remembers whom it gave a wrap until it has compared them with the shares.
LEMMA RechecksOn ==
  ASSUME Base, Base', StrayInv, Mix, NEW t \in Tasks, Starts(t) \/ Removes(t) \/ Walks(t) \/ Writes(t),
         fileKey' = fileKey,
         NEW u \in Users, Rechecks(t, u), <<fileKey', u>> \in wraps', u \notin Covered'
  PROVE  Rechecks(t, u)'
  <1>1. task[t].op = "write" /\ u \in task[t].wrapped /\ task[t].pc \in {"expand", "wrapping", "recheck", "undo", "live"}
    BY DEF Rechecks
  <1>2. Expand(t) \/ WrapOne(t) \/ Recheck(t) \/ LiveUIDs(t) \/ UndoOne(t)
    <2>1. ~Starts(t) BY <1>1 DEF Starts, OwnerRead, JobList, Member, WriteStart, Does
    <2>2. ~Removes(t) BY <1>1 DEF Removes, DeleteRow, JobReap
    <2>3. ~Walks(t) BY <1>1 DEF Walks, Unnotify, Dismiss, JobDismiss, GroupShares, SpreadRead, SpreadShare, SpreadApply
    <2>4. ~WriteRow(t) /\ ~CoveringRead(t) BY <1>1 DEF WriteRow, CoveringRead
    <2> QED BY <2>1, <2>2, <2>3, <2>4 DEF Writes
  <1>3. CASE Expand(t)
    <2>1. /\ task'[t].pc \in {"wrapping", "recheck"} /\ task'[t].op = task[t].op /\ task'[t].wrapped = task[t].wrapped
      BY <1>1, <1>3, ExpandOne DEF Became
    <2> QED BY <1>1, <2>1 DEF Rechecks
  <1>4. CASE WrapOne(t)
    <2>1. /\ task'[t].pc \in {"wrapping", "expand"} /\ task'[t].op = task[t].op /\ task[t].wrapped \subseteq task'[t].wrapped
      BY <1>1, <1>4, WrapOneOne DEF Became
    <2> QED BY <1>1, <2>1 DEF Rechecks
  <1>5. CASE Recheck(t)
    <2>1. /\ task'[t].pc = "live" /\ task'[t].op = task[t].op /\ task'[t].wrapped = task[t].wrapped /\ task'[t].todo = CoveringRows
      BY <1>5, RecheckOne DEF Became
    <2>2. UNCHANGED <<shares, members>> BY <1>5 DEF Recheck, tables
    <2>3. CoveringRows' = CoveringRows BY <2>2 DEF CoveringRows, Rows
    <2>4. \A c \in CoveringRows' : u \notin Sharees(c.row)' BY DEF Covered
    <2> QED BY <1>1, <2>1, <2>3, <2>4 DEF Rechecks
  <1>6. CASE LiveUIDs(t)
    <2>1. /\ task[t].pc = "live" /\ task'[t].pc = "undo" /\ task'[t].op = task[t].op
          /\ task'[t].wrapped = task[t].wrapped \ UNION {Sharees(c.row) : c \in task[t].todo}
      BY <1>6, LiveUIDsOne DEF Became
    <2>2. \A c \in task[t].todo : u \notin Sharees(c.row) BY <2>1 DEF Rechecks
    <2>3. u \in task'[t].wrapped BY <1>1, <2>1, <2>2
    <2> QED BY <1>1, <2>1, <2>3 DEF Rechecks
  <1>7. CASE UndoOne(t)
    <2>1. PICK v \in task[t].wrapped :
            /\ task'[t].pc = "undo" /\ task'[t].op = task[t].op /\ task'[t].wrapped = task[t].wrapped \ {v}
            /\ wraps' = wraps \ {<<task[t].key, v>>}
      BY <1>1, <1>7, UndoOneOne DEF Became
    <2>2. task[t].key = fileKey
      <3>1. task[t].pc = "undo" BY <1>7, UndoOneOne
      <3> QED BY <1>1, <3>1 DEF StrayInv, OneWriter, Writing
    <2>3. u # v BY <2>1, <2>2
    <2> QED BY <1>1, <2>1, <2>3 DEF Rechecks
  <1> QED BY <1>2, <1>3, <1>4, <1>5, <1>6, <1>7

LEMMA JustifiedStep ==
  ASSUME Base, Base', StrayInv, Mix, NEW t \in Tasks, Starts(t) \/ Removes(t) \/ Walks(t) \/ Writes(t),
         NEW u \in Users, <<fileKey', u>> \in wraps'
  PROVE  Justified(u)'
  <1>1. OneWriter' BY OneWriterStep
  <1>2. fileKey' # 0 /\ wraps \subseteq Keys \X Users /\ fileKey' \in Keys
    <2>1. wraps \subseteq Keys \X Users /\ wraps' \subseteq Keys' \X Users BY DEF Base, TypeOK
    <2>2. Keys' = Keys BY DEF Keys
    <2>3. fileKey' \in Keys BY <2>1, <2>2
    <2> QED BY <2>1, <2>3 DEF Keys
  <1>3. CASE <<fileKey', u>> \notin wraps
    <2>1. <<fileKey', u>> \in wraps' \ wraps BY <1>3
    <2>2. WrapOne(t) /\ task[t].pc = "wrapping" BY <2>1, WrapsOne
    <2>3. PICK v \in task[t].uids :
            /\ v \in Users /\ <<fileKey', u>> = <<task[t].key, v>> /\ v \in task'[t].wrapped /\ task'[t].pc = "wrapping"
      BY <2>1, WrapsOne
    <2>4. v = u BY <2>3
    <2>5. task'[t].op = "write"
      <3>1. task[t].op = "write" BY <2>2, Places DEF StrayInv, Minted
      <3> QED BY <2>2, <3>1, WrapOneOne DEF Became
    <2>6. Rechecks(t, u)' BY <2>3, <2>4, <2>5 DEF Rechecks
    <2> QED BY <2>6 DEF Justified
  <1>4. CASE <<fileKey', u>> \in wraps
    <2>1. fileKey' = fileKey
      <3>1. <<fileKey', u>>[1] = fileKey BY <1>4 DEF StrayInv, OneWriter
      <3> QED BY <3>1
    <2>2. Justified(u) BY <1>4, <2>1 DEF StrayInv, Holders
    <2>3. CASE u \in Covered'  BY <2>3 DEF Justified
    <2>4. CASE u \in Covered /\ u \notin Covered' BY <2>4, CoverLost DEF Justified
    <2>5. CASE u \notin Covered /\ u \notin Covered'
      <3>1. PICK q \in Tasks : Strips(q, u) \/ Rechecks(q, u) BY <2>2, <2>5 DEF Justified
      <3>2. CASE q # t BY <2>1, <3>1, <3>2, Bystander DEF Justified
      <3>3. CASE q = t
        <4>1. Strips(t, u)' \/ Rechecks(t, u)' BY <1>2, <2>1, <2>5, <3>1, <3>3, StripsOn, RechecksOn
        <4> QED BY <4>1 DEF Justified
      <3> QED BY <3>2, <3>3
    <2> QED BY <2>3, <2>4, <2>5
  <1> QED BY <1>3, <1>4

LEMMA StrayStep == Base /\ StrayInv /\ [Next]_vars => StrayInv'
  <1> SUFFICES ASSUME Base, StrayInv, [Next]_vars PROVE StrayInv'
    OBVIOUS
  <1>1. Asked' /\ Base' BY AskedStep, BaseStep DEF StrayInv
  <1>2. ASSUME Mix' PROVE Mix BY <1>2, TrafficGrows DEF Mix, FirstWrites, Leavers
  <1>3. ASSUME Mix', NEW t \in Tasks, Looks(t) \/ Drops(t) \/ Tells(t) \/ Seals(t) \/ CreateInsert(t)
        PROVE  OneWriter' /\ (\A q \in Tasks : Exact(task[q])') /\ \A u \in Holders' : Justified(u)'
    <2>1. Mix BY <1>2, <1>3
    <2>2. Starts(t) \/ Removes(t) \/ Walks(t) \/ Writes(t) BY <1>3, <2>1, MixSteps
    <2>3. ASSUME NEW u \in Holders' PROVE Justified(u)'
      <3>1. u \in Users /\ <<fileKey', u>> \in wraps' BY DEF Holders
      <3> QED BY <1>1, <2>1, <2>2, <3>1, JustifiedStep
    <2> QED BY <1>1, <2>1, <2>2, <2>3, OneWriterStep, ExactStep
  <1>4. ASSUME Mix', NEW i \in incoming, Decline(i) PROVE FALSE
    <2>1. "decline" \in traffic BY <1>4 DEF Decline
    <2> QED BY <1>2, <1>4, <2>1 DEF Mix, FirstWrites, Leavers
  <1>5. ASSUME Mix', Tick \/ UNCHANGED vars
        PROVE  OneWriter' /\ (\A q \in Tasks : Exact(task[q])') /\ \A u \in Holders' : Justified(u)'
    <2>1. UNCHANGED <<shares, members, fileKey, wraps, task>> BY <1>5 DEF Tick, tables, keyTables, vars
    <2>2. OneWriter /\ (\A q \in Tasks : Exact(task[q])) /\ \A u \in Holders : Justified(u) BY <1>2, <1>5 DEF StrayInv
    <2>3. OneWriter' BY <2>1, <2>2 DEF OneWriter, Writing
    <2>4. Rows' = Rows BY <2>1 DEF Rows
    <2>5. \A q \in Tasks : Exact(task[q])' BY <2>1, <2>2, <2>4 DEF Exact, Expired
    <2>6. Holders' = Holders /\ Covered' = Covered BY <2>1, <2>4 DEF Holders, Covered, CoveringRows, Sharees
    <2>7. \A u : \A q \in Tasks : Strips(q, u)' <=> Strips(q, u)
      BY <2>1, <2>4 DEF Strips, Recipients, Sharees
    <2>8. \A u : \A q \in Tasks : Rechecks(q, u)' <=> Rechecks(q, u)
      BY <2>1 DEF Rechecks, Sharees
    <2> QED BY <2>2, <2>3, <2>5, <2>6, <2>7, <2>8 DEF Justified
  <1>6. ASSUME Mix' PROVE OneWriter' /\ (\A q \in Tasks : Exact(task[q])') /\ \A u \in Holders' : Justified(u)'
    BY <1>3, <1>4, <1>5, <1>6, Splits
  <1> QED BY <1>1, <1>6 DEF StrayInv

LEMMA StrayInit == Init => StrayInv
  <1> SUFFICES ASSUME Init PROVE StrayInv
    OBVIOUS
  <1>1. \A t \in Tasks : task[t] = Idle BY DEF Init
  <1>2. Asked BY <1>1 DEF Asked, Idle
  <1>3. minted \in {0, 1} /\ fileKey = minted BY DEF Init
  <1>4. ASSUME Mix PROVE wraps = {<<k, u>> : k \in 1 .. minted, u \in Covered}
    <2>1. "reconcile" \notin traffic BY <1>4 DEF Mix, FirstWrites, Leavers
    <2> QED BY <2>1 DEF Init
  <1>5. Mix => OneWriter
    <2>1. \A t \in Tasks : ~Writing(t) BY <1>1 DEF Writing, Idle
    <2>2. Mix => \A p \in wraps : p[1] = fileKey BY <1>3, <1>4
    <2> QED BY <2>1, <2>2 DEF OneWriter
  <1>6. \A t \in Tasks : Exact(task[t]) BY <1>1 DEF Exact, Idle
  <1>7. Mix => \A u \in Holders : Justified(u) BY <1>4 DEF Holders, Justified
  <1> QED BY <1>2, <1>5, <1>6, <1>7 DEF StrayInv

\* A first write that races revocations by request, by lazy expiry and by the job, or
\* members leaving: once all are done nobody holds the key whom no share covers
\* (WrapForWrite's second Covering read, Service.Delete's order, the job's lists).
THEOREM NobodyKeepsAKey == Spec => []NoStrayWrap
  <1>1. Base /\ StrayInv => NoStrayWrap
    <2> SUFFICES ASSUME Base, StrayInv, Quiet, Mix, NEW u \in Holders PROVE u \in Covered
      BY DEF NoStrayWrap, Mix, FirstWrites, Leavers
    <2>1. \A t \in Tasks : task[t].pc = "idle" /\ task[t].op = "none" BY Places DEF Quiet, StrayInv
    <2>2. \A t \in Tasks : ~Strips(t, u) /\ ~Rechecks(t, u) BY <2>1 DEF Strips, Rechecks
    <2> QED BY <2>2 DEF StrayInv, Justified
  <1> QED BY <1>1, BaseHolds, StrayInit, StrayStep, PTL DEF Spec
-----------------------------------------------------------------------------
(* Grants, joins, writes and reconciliations.                              *)

GrantMix == traffic \subseteq {"share", "join", "write", "overwrite", "reconcile", "reconciled"}

\* No share to another server, hence none that is taken back.
Local(r) ==
  /\ r.pc \notin {"notify", "compensate"}
  /\ r.pc = "insert" => \A c \in r.sh : c.row.with # "remote"

\* There is one writer, its key is the file's from its row on, and the row of
\* the file's key resolves.
OneKey ==
  /\ \A t, s \in Tasks : Writing(t) /\ Writing(s) => t = s
  /\ fileKey # 0 => fileKey \in owned
  /\ \A t \in Tasks : Writing(t) =>
       /\ task[t].key \in owned /\ task[t].key # task[t].old
       /\ task[t].pc # "row" => task[t].key = fileKey

\* What a writer has read of the shares is still so, and it finds nobody to unwrap.
Kept(t) ==
  Writing(t) =>
    /\ task[t].pc \in {"expand", "wrapping"} => task[t].todo \subseteq CoveringRows
    /\ task[t].pc = "wrapping" => task[t].uids \subseteq Covered
    /\ task[t].wrapped \subseteq Covered
    /\ task[t].pc = "live" => \A u \in task[t].wrapped : \E c \in task[t].todo : u \in Sharees(c.row)
    /\ task[t].pc = "undo" => task[t].wrapped = {}

\* A hook will give u a wrap of the file's key ...
Gives(t, u) ==
  /\ task[t].op \in {"share", "join", "reconcile"}
  /\ \/ task[t].pc = "bell" /\ \E c \in task[t].sh : u \in Recipients(t, c.row)
     \/ task[t].pc = "group" /\ u \in task[t].wrapped /\ \E c \in Rows : c.row.with = "group"
     \/ task[t].pc \in Walk /\ \E c \in task[t].todo : u \in Recipients(t, c.row)
     \/ task[t].pc = "read" /\ u \in task[t].uids
     \/ task[t].pc = "apply" /\ u \in task[t].uids /\ task[t].key = fileKey

\* ... or the writer will.
WillWrap(t, u) ==
  /\ Writing(t)
  /\ \/ task[t].pc \in {"carryList", "carry", "covering"}
     \/ task[t].pc \in {"expand", "wrapping"} /\ \E c \in task[t].todo : u \in Sharees(c.row)
     \/ task[t].pc = "wrapping" /\ u \in task[t].uids

Served(u) == u \in Holders \/ \E t \in Tasks : Gives(t, u) \/ WillWrap(t, u)

\* The shares that came without wraps are a reconciliation's business.
Taken ==
  "reconcile" \in traffic => "reconciled" \in traffic \/ \E t \in Tasks : task[t].op = "reconcile"

GrantInv ==
  /\ Asked
  /\ GrantMix => /\ OneKey
                 /\ \A t \in Tasks : Local(task[t]) /\ Kept(t)
                 /\ Taken /\ fileKey # 0 => \A u \in Covered : Served(u)

Opens(t) ==
  \/ \E row \in Share : CreateStart(t, "share", row)
  \/ Reconcile(t) \/ (\E u \in Users : Member(t, "join", u)) \/ \E op \in {"write", "overwrite"} : WriteStart(t, op)
Hooks(t) == CreateBell(t) \/ GroupShares(t) \/ SpreadShare(t) \/ SpreadRead(t) \/ SpreadApply(t)
Works(t) ==
  \/ WriteRow(t) \/ CarryList(t) \/ Carry(t) \/ CoveringRead(t) \/ Expand(t) \/ WrapOne(t)
  \/ Recheck(t) \/ LiveUIDs(t) \/ UndoOne(t)

LEMMA GrantPlaces ==
  ASSUME Base, GrantInv, GrantMix, NEW t \in Tasks
  PROVE  /\ task[t].op \in {"none", "share", "join", "write", "overwrite", "reconcile"}
         /\ Writing(t) <=> task[t].pc \in Minted
         /\ task[t].op = "none" <=> task[t].pc = "idle"
         /\ task[t].pc \in {"insert", "bell"} => task[t].op = "share"
         /\ task[t].pc = "group" => task[t].op = "join"
         /\ task[t].pc \in Walk => task[t].op \in {"share", "join", "reconcile"}
         /\ task[t].op \in {"share", "join", "reconcile"} => task[t].pc \in Walk \cup {"insert", "bell", "group"}
         /\ task[t].pc \in {"idle", "insert", "bell", "group"} \cup Walk \cup Minted
  <1>1. Fits(task[t]) /\ task[t].pc \in PCs /\ task[t].op \in Marks BY Here
  <1>2. task[t].op \in traffic \cup {"none", "unshare"} /\ (task[t].op = "unshare" => traffic \cap {"view", "update"} # {})
    <2>1. \/ task[t].op \in traffic \cup {"none"}
          \/ task[t].op = "unshare" /\ traffic \cap {"view", "update"} # {}
      BY DEF GrantInv, Asked
    <2>2. task[t].op = "unshare" => traffic \cap {"view", "update"} # {}
      BY <2>1 DEF GrantMix
    <2> QED BY <2>1, <2>2
  <1>3. task[t].op \in {"none", "share", "join", "write", "overwrite", "reconcile", "reconciled"}
    BY <1>2 DEF GrantMix
  <1>4. task[t].pc \notin {"notify", "compensate"} BY DEF GrantInv, Local
  <1>5. task[t].pc \in {"idle", "insert", "bell", "group"} \cup Walk \cup Minted
    BY <1>1, <1>3, <1>4 DEF Fits, PCs, Single
  <1>6. task[t].op # "reconciled" BY <1>1, <1>5 DEF Fits, Walk, Minted
  <1> QED BY <1>1, <1>3, <1>5, <1>6 DEF Fits, Walk, Minted, Writing

LEMMA GrantSteps ==
  ASSUME Base, GrantInv, GrantMix, NEW t \in Tasks, Looks(t) \/ Drops(t) \/ Tells(t) \/ Seals(t) \/ CreateInsert(t)
  PROVE  Opens(t) \/ Hooks(t) \/ Works(t) \/ CreateInsert(t)
  <1>1. traffic \cap {"federate", "unshare", "update", "view", "job", "leave", "remove"} = {} BY DEF GrantMix
  <1>2. task[t].pc \notin {"notify", "compensate", "unnotify", "delete", "dismiss", "update", "reap", "bells", "removeShares"}
    BY GrantPlaces DEF Walk, Minted
  <1>3. CASE Looks(t)
    <2>1. CASE \E row \in Share, op \in {"share", "federate"} : CreateStart(t, op, row)
      <3>1. PICK row \in Share, op \in {"share", "federate"} : CreateStart(t, op, row) BY <2>1
      <3>2. op = "share" BY <1>1, <3>1 DEF CreateStart, Does
      <3> QED BY <3>1, <3>2 DEF Opens
    <2>2. CASE \E op \in {"unshare", "update", "view"}, c \in Rows, e \in 0 .. MaxTime : OwnerRead(t, op, c, e)
      <3>1. PICK op \in {"unshare", "update", "view"}, c \in Rows, e \in 0 .. MaxTime : OwnerRead(t, op, c, e) BY <2>2
      <3>2. op \in traffic BY <3>1 DEF OwnerRead, Does
      <3> QED BY <1>1, <3>1, <3>2
    <2>3. CASE JobList(t) BY <1>1, <2>3 DEF JobList, Does
    <2>4. CASE Reconcile(t) BY <2>4 DEF Opens
    <2>5. CASE GroupShares(t) \/ SpreadRead(t) BY <2>5 DEF Hooks
    <2>6. CASE CarryList(t) \/ CoveringRead(t) \/ Expand(t) \/ Recheck(t) \/ LiveUIDs(t) BY <2>6 DEF Works
    <2> QED BY <1>3, <2>1, <2>2, <2>3, <2>4, <2>5, <2>6 DEF Looks
  <1>4. CASE Drops(t)
    BY <1>2, <1>4 DEF Drops, CreateCompensate, DeleteRow, UpdateRow, JobReap, RemoveShares
  <1>5. CASE Tells(t)
    <2>1. CASE \E op \in {"join", "leave"}, u \in Users : Member(t, op, u)
      <3>1. PICK op \in {"join", "leave"}, u \in Users : Member(t, op, u) BY <2>1
      <3>2. op = "join" BY <1>1, <3>1 DEF Member, Does
      <3> QED BY <3>1, <3>2 DEF Opens
    <2>2. CASE (\E a, b \in BOOLEAN : CreateNotify(t, a, b)) \/ (\E a \in BOOLEAN : Unnotify(t, a))
      BY <1>2, <2>2 DEF CreateNotify, Unnotify
    <2>3. CASE Dismiss(t) \/ JobDismiss(t) BY <1>2, <2>3 DEF Dismiss, JobDismiss
    <2>4. CASE CreateBell(t) \/ SpreadShare(t) BY <2>4 DEF Hooks
    <2> QED BY <1>5, <2>1, <2>2, <2>3, <2>4 DEF Tells
  <1>6. CASE Seals(t)
    <2>1. CASE RemoveRow(t) BY <1>1, <2>1 DEF RemoveRow, Does
    <2>2. CASE \E op \in {"write", "overwrite"} : WriteStart(t, op) BY <2>2 DEF Opens
    <2>3. CASE SpreadApply(t) \/ Carry(t) \/ WrapOne(t) \/ UndoOne(t) \/ WriteRow(t) BY <2>3 DEF Hooks, Works
    <2> QED BY <1>6, <2>1, <2>2, <2>3 DEF Seals
  <1> QED BY <1>3, <1>4, <1>5, <1>6

\* Shares only come and members only join; the keys change with a write.
LEMMA GrantTables ==
  ASSUME Base, GrantInv, GrantMix, NEW t \in Tasks, Opens(t) \/ Hooks(t) \/ Works(t) \/ CreateInsert(t)
  PROVE  /\ Took(t)
         /\ \A i \in Ids : shares[i] # NoShare => shares'[i] = shares[i]
         /\ members \subseteq members'
         /\ fileKey' = fileKey \/ WriteRow(t)
         /\ shares' = shares \/ CreateInsert(t)
         /\ members' = members \/ \E u \in Users : Member(t, "join", u)
         /\ traffic' = traffic \/ SpreadShare(t)
         /\ owned' = owned \/ Carry(t) \/ (\E op \in {"write", "overwrite"} : WriteStart(t, op))
  <1>1. CASE Opens(t)
    <2>1. CASE \E row \in Share : CreateStart(t, "share", row)
      <3>1. PICK row \in Share : CreateStart(t, "share", row) BY <2>1
      <3>2. Took(t) BY <3>1, CreateStartOne
      <3> QED BY <3>1, <3>2 DEF CreateStart, tables, keyTables
    <2>2. CASE Reconcile(t) BY <2>2, ReconcileOne DEF Reconcile, tables, keyTables
    <2>3. CASE \E u \in Users : Member(t, "join", u)
      <3>1. PICK u \in Users : Member(t, "join", u) BY <2>3
      <3>2. Took(t) BY <3>1, MemberOne
      <3> QED BY <3>1, <3>2 DEF Member, keyTables
    <2>4. CASE \E op \in {"write", "overwrite"} : WriteStart(t, op)
      <3>1. PICK op \in {"write", "overwrite"} : WriteStart(t, op) BY <2>4
      <3>2. Took(t) BY <3>1, WriteStartOne
      <3> QED BY <3>1, <3>2 DEF WriteStart
    <2> QED BY <1>1, <2>1, <2>2, <2>3, <2>4 DEF Opens
  <1>2. CASE Hooks(t)
    <2>1. CASE CreateBell(t) BY <2>1, CreateBellOne DEF CreateBell, keyTables
    <2>2. CASE GroupShares(t) \/ SpreadRead(t)
      BY <2>2, GroupSharesOne, SpreadReadOne DEF GroupShares, SpreadRead, tables, keyTables
    <2>3. CASE SpreadShare(t) BY <2>3, SpreadShareOne DEF SpreadShare, tables, keyTables
    <2>4. CASE SpreadApply(t) BY <2>4, SpreadApplyOne DEF SpreadApply
    <2> QED BY <1>2, <2>1, <2>2, <2>3, <2>4 DEF Hooks
  <1>3. CASE Works(t)
    <2>1. CASE WriteRow(t) BY <2>1, WriteRowOne DEF WriteRow
    <2>2. CASE WrapOne(t) \/ UndoOne(t) BY <2>2, WrapOneOne, UndoOneOne DEF WrapOne, UndoOne
    <2>3. CASE Carry(t) BY <2>3, CarryOne DEF Carry
    <2>4. CASE CarryList(t) \/ CoveringRead(t) \/ Expand(t) \/ Recheck(t) \/ LiveUIDs(t)
      BY <2>4, CarryListOne, CoveringReadOne, ExpandOne, RecheckOne, LiveUIDsOne
         DEF CarryList, CoveringRead, Expand, Recheck, LiveUIDs, tables, keyTables
    <2> QED BY <1>3, <2>1, <2>2, <2>3, <2>4 DEF Works
  <1>4. CASE CreateInsert(t)
    <2>1. /\ UNCHANGED <<members, keyTables, traffic>> /\ nextId \in Ids /\ shares[nextId] = NoShare
          /\ shares' = [shares EXCEPT ![nextId] = Mine(t).row]
      BY <1>4, InsertsOne
    <2>2. \A i \in Ids : shares[i] # NoShare => shares'[i] = shares[i] BY <2>1 DEF Base, TypeOK
    <2> QED BY <1>4, <2>1, <2>2, CreateInsertOne DEF keyTables
  <1> QED BY <1>1, <1>2, <1>3, <1>4

\* Who is covered stays covered.
LEMMA CoverGrows ==
  ASSUME Base, GrantInv, GrantMix, NEW t \in Tasks, Opens(t) \/ Hooks(t) \/ Works(t) \/ CreateInsert(t)
  PROVE  /\ Rows \subseteq Rows' /\ CoveringRows \subseteq CoveringRows' /\ Covered \subseteq Covered'
         /\ \A c \in Copy : Sharees(c.row) \subseteq Sharees(c.row)'
  <1>1. /\ \A i \in Ids : shares[i] # NoShare => shares'[i] = shares[i]
        /\ members \subseteq members'
    BY GrantTables
  <1>2. Rows \subseteq Rows' BY <1>1 DEF Rows
  <1>3. \A c \in Copy : Sharees(c.row) \subseteq Sharees(c.row)' BY <1>1 DEF Sharees
  <1>4. CoveringRows \subseteq CoveringRows' BY <1>2 DEF CoveringRows
  <1>5. Covered \subseteq Covered'
    <2>1. CoveringRows \subseteq Copy BY RowTypes DEF Copies
    <2> QED BY <1>3, <1>4, <2>1 DEF Covered
  <1> QED BY <1>2, <1>3, <1>4, <1>5

\* A writer writes and wraps with the key it minted.
LEMMA WorkerOne ==
  ASSUME Base, GrantInv, GrantMix, NEW t \in Tasks, Opens(t) \/ Hooks(t) \/ Works(t) \/ CreateInsert(t),
         task'[t].op \in {"write", "overwrite"}
  PROVE  \/ /\ \E op \in {"write", "overwrite"} : WriteStart(t, op)
            /\ task'[t].pc = "row" /\ task'[t].key = minted + 1 /\ task'[t].old = fileKey
            /\ task'[t].wrapped = {}
         \/ /\ Works(t) /\ Writing(t) /\ task'[t].pc # "row"
            /\ task'[t].key = task[t].key /\ task'[t].old = task[t].old /\ task[t].key = fileKey'
  <1>i. Idle.op = "none" BY DEF Idle
  <1>w. /\ Writing(t) <=> task[t].pc \in Minted
        /\ Writing(t) /\ task[t].pc # "row" => task[t].key = fileKey
    BY GrantPlaces DEF GrantInv, OneKey
  <1>1. CASE Opens(t)
    <2>1. CASE \E row \in Share : CreateStart(t, "share", row)
      <3>1. PICK row \in Share : CreateStart(t, "share", row) BY <2>1
      <3> QED BY <3>1, CreateStartOne DEF Became
    <2>2. CASE Reconcile(t) BY <2>2, ReconcileOne DEF Became
    <2>3. CASE \E u \in Users : Member(t, "join", u)
      <3>1. PICK u \in Users : Member(t, "join", u) BY <2>3
      <3> QED BY <3>1, MemberOne DEF Became
    <2>4. CASE \E op \in {"write", "overwrite"} : WriteStart(t, op) BY <2>4, WriteStartOne DEF Became
    <2> QED BY <1>1, <2>1, <2>2, <2>3, <2>4 DEF Opens
  <1>2. CASE Hooks(t)
    <2>0. task'[t].op \in {task[t].op, "none"} /\ task[t].pc \in {"bell", "group"} \cup Walk
      <3>1. CASE CreateBell(t) BY <3>1, CreateBellOne DEF Became
      <3>2. CASE GroupShares(t) BY <3>2, GroupSharesOne DEF Became
      <3>3. CASE SpreadRead(t) BY <3>3, SpreadReadOne DEF Became, Walk
      <3>4. CASE SpreadShare(t) BY <1>i, <3>4, SpreadShareOne DEF Became, Walk
      <3>5. CASE SpreadApply(t) BY <3>5, SpreadApplyOne DEF Became, Walk
      <3> QED BY <1>2, <3>1, <3>2, <3>3, <3>4, <3>5 DEF Hooks
    <2> QED BY <2>0, GrantPlaces
  <1>3. CASE Works(t)
    <2>1. CASE WriteRow(t)
      <3>1. task[t].pc = "row" /\ fileKey' = task[t].key BY <1>i, <2>1, WriteRowOne
      <3> QED BY <1>i, <1>w, <1>3, <2>1, <3>1, WriteRowOne DEF Became, Minted
    <2>e. ~WriteRow(t) => fileKey' = fileKey BY GrantTables
    <2>2. CASE CarryList(t) BY <1>w, <1>3, <2>2, <2>e, CarryListOne DEF Became, Minted, WriteRow
    <2>3. CASE Carry(t) BY <1>w, <1>3, <2>3, <2>e, CarryOne DEF Became, Minted, WriteRow
    <2>4. CASE CoveringRead(t) BY <1>i, <1>w, <1>3, <2>4, <2>e, CoveringReadOne DEF Became, Minted, WriteRow
    <2>5. CASE Expand(t) BY <1>i, <1>w, <1>3, <2>5, <2>e, ExpandOne DEF Became, Minted, WriteRow
    <2>6. CASE WrapOne(t) BY <1>w, <1>3, <2>6, <2>e, WrapOneOne DEF Became, Minted, WriteRow
    <2>7. CASE Recheck(t) BY <1>w, <1>3, <2>7, <2>e, RecheckOne DEF Became, Minted, WriteRow
    <2>8. CASE LiveUIDs(t) BY <1>w, <1>3, <2>8, <2>e, LiveUIDsOne DEF Became, Minted, WriteRow
    <2>9. CASE UndoOne(t) BY <1>i, <1>w, <1>3, <2>9, <2>e, UndoOneOne DEF Became, Minted, WriteRow
    <2> QED BY <1>3, <2>1, <2>2, <2>3, <2>4, <2>5, <2>6, <2>7, <2>8, <2>9 DEF Works
  <1>4. CASE CreateInsert(t)
    <2>1. task'[t].op = task[t].op /\ task[t].pc = "insert" BY <1>4, CreateInsertOne DEF Became
    <2> QED BY <2>1, GrantPlaces
  <1> QED BY <1>1, <1>2, <1>3, <1>4

LEMMA OneKeyStep ==
  ASSUME Base, GrantInv, GrantMix, NEW t \in Tasks, Opens(t) \/ Hooks(t) \/ Works(t) \/ CreateInsert(t)
  PROVE  OneKey'
  <1>0. /\ OneKey /\ Took(t) /\ fileKey \in 0 .. minted /\ minted \in Nat /\ (fileKey' = fileKey \/ WriteRow(t))
    BY GrantTables DEF GrantInv, Base, TypeOK
  <1>q. \A q \in Tasks \ {t} : task'[q] = task[q] BY <1>0 DEF Took
  <1>s. \A op \in {"write", "overwrite"} : WriteStart(t, op) =>
          /\ \A s \in Tasks : ~Writing(s)
          /\ fileKey' = fileKey /\ owned' = owned \cup {minted + 1}
    BY DEF WriteStart
  <1>r. WriteRow(t) => /\ Writing(t) /\ owned' = owned /\ fileKey' \in {fileKey, task[t].key}
    <2> SUFFICES ASSUME WriteRow(t) PROVE Writing(t) /\ owned' = owned /\ fileKey' \in {fileKey, task[t].key}
      OBVIOUS
    <2>1. task[t].pc = "row" /\ owned' = owned /\ fileKey' \in {fileKey, task[t].key} BY DEF WriteRow
    <2> QED BY <2>1, GrantPlaces DEF Minted
  <1>c. Carry(t) => Writing(t) /\ task[t].key = fileKey /\ owned \ {task[t].old} \subseteq owned' /\ fileKey' = fileKey
    <2> SUFFICES ASSUME Carry(t)
                 PROVE  Writing(t) /\ task[t].key = fileKey /\ owned \ {task[t].old} \subseteq owned' /\ fileKey' = fileKey
      OBVIOUS
    <2>1. task[t].pc = "carry" /\ fileKey' = fileKey BY DEF Carry
    <2>2. owned \ {task[t].old} \subseteq owned' BY CarryOne
    <2>3. Writing(t) BY <2>1, GrantPlaces DEF Minted
    <2> QED BY <1>0, <2>1, <2>2, <2>3 DEF OneKey
  <1>o. \/ owned \subseteq owned'
        \/ Carry(t)
    BY <1>s, GrantTables
  <1>1. \A q, s \in Tasks : task'[q].op \in {"write", "overwrite"} /\ task'[s].op \in {"write", "overwrite"} => q = s
    <2> SUFFICES ASSUME NEW q \in Tasks, NEW s \in Tasks, q # s,
                        task'[q].op \in {"write", "overwrite"}, task'[s].op \in {"write", "overwrite"}
                 PROVE  FALSE
      OBVIOUS
    <2>1. ASSUME NEW r \in Tasks, task'[r].op \in {"write", "overwrite"}
          PROVE  Writing(r) \/ (r = t /\ \E op \in {"write", "overwrite"} : WriteStart(t, op))
      BY <1>q, <2>1, WorkerOne DEF Writing
    <2>2. Writing(q) /\ Writing(s) BY <1>s, <2>1
    <2> QED BY <1>0, <2>2 DEF OneKey
  <1>2. fileKey' # 0 => fileKey' \in owned'
    <2>1. CASE WriteRow(t) BY <1>0, <1>r, <2>1 DEF OneKey
    <2>2. CASE Carry(t) BY <1>0, <1>c, <2>2 DEF OneKey
    <2>3. CASE ~WriteRow(t) /\ ~Carry(t) BY <1>0, <1>o, <2>3 DEF OneKey
    <2> QED BY <2>1, <2>2, <2>3
  <1>3. ASSUME NEW q \in Tasks, task'[q].op \in {"write", "overwrite"}
        PROVE  /\ task'[q].key \in owned' /\ task'[q].key # task'[q].old
               /\ task'[q].pc # "row" => task'[q].key = fileKey'
    <2>1. CASE q = t
      <3>1. CASE /\ \E op \in {"write", "overwrite"} : WriteStart(t, op)
                 /\ task'[t].pc = "row" /\ task'[t].key = minted + 1 /\ task'[t].old = fileKey
        BY <1>0, <1>s, <2>1, <3>1
      <3>2. CASE /\ Works(t) /\ Writing(t) /\ task'[t].pc # "row"
                 /\ task'[t].key = task[t].key /\ task'[t].old = task[t].old /\ task[t].key = fileKey'
        <4>1. task[t].key \in owned /\ task[t].key # task[t].old BY <1>0, <3>2 DEF OneKey
        <4>2. task[t].key \in owned' BY <1>c, <1>o, <4>1
        <4> QED BY <2>1, <3>2, <4>1, <4>2
      <3> QED BY <1>3, <2>1, <3>1, <3>2, WorkerOne
    <2>2. CASE q # t
      <3>1. task'[q] = task[q] /\ Writing(q) BY <1>3, <1>q, <2>2 DEF Writing
      <3>2. fileKey' = fileKey /\ ~Carry(t) BY <1>0, <1>r, <1>c, <2>2, <3>1 DEF OneKey
      <3> QED BY <1>0, <1>o, <3>1, <3>2 DEF OneKey
    <2> QED BY <2>1, <2>2
  <1> QED BY <1>1, <1>2, <1>3 DEF OneKey, Writing

\* While shares only come, the reconciliation at the end of a write finds nobody to unwrap.
LEMMA KeptStep ==
  ASSUME Base, Base', GrantInv, GrantMix, NEW t \in Tasks, Opens(t) \/ Hooks(t) \/ Works(t) \/ CreateInsert(t), NEW q \in Tasks
  PROVE  Kept(q)'
  <1>0. Took(t) BY GrantTables
  <1>g. /\ CoveringRows \subseteq CoveringRows' /\ Covered \subseteq Covered'
        /\ \A c \in Copy : Sharees(c.row) \subseteq Sharees(c.row)'
        /\ CoveringRows \subseteq Copy
    BY CoverGrows, RowTypes DEF Copies
  <1>1. CASE q # t
    <2>1. task'[q] = task[q] /\ Kept(q) BY <1>0, <1>1 DEF Took, GrantInv
    <2>2. task[q].todo \subseteq Copy BY Here DEF Copies
    <2> QED BY <1>g, <2>1, <2>2 DEF Kept, Writing
  <1>2. CASE q = t
    <2> SUFFICES ASSUME task'[t].op \in {"write", "overwrite"} PROVE Kept(t)'
      BY <1>2 DEF Kept, Writing
    <2>1. CASE task'[t].pc = "row" /\ task'[t].wrapped = {} BY <2>1 DEF Kept
    <2>2. CASE Works(t) /\ Writing(t)
      <3>0. Kept(t) /\ task[t].todo \subseteq Copy BY Here DEF GrantInv, Copies
      <3>i. Idle.op = "none" BY DEF Idle
      <3>w. task[t].wrapped \subseteq Covered BY <2>2, <3>0 DEF Kept
      <3>1. CASE WriteRow(t)
        <4>1. task'[t].pc \in {"carryList", "covering"} /\ task'[t].wrapped = task[t].wrapped BY <3>1, <3>i, WriteRowOne DEF Became
        <4> QED BY <1>g, <3>w, <4>1 DEF Kept
      <3>2. CASE CarryList(t) \/ Carry(t)
        <4>1. task'[t].pc \in {"carry", "covering"} /\ task'[t].wrapped = task[t].wrapped
          BY <3>2, CarryListOne, CarryOne DEF Became
        <4> QED BY <1>g, <3>w, <4>1 DEF Kept
      <3>3. CASE CoveringRead(t)
        <4>1. task'[t].pc = "expand" /\ task'[t].wrapped = task[t].wrapped /\ task'[t].todo = CoveringRows
          BY <3>3, <3>i, CoveringReadOne DEF Became
        <4> QED BY <1>g, <3>w, <4>1 DEF Kept
      <3>4. CASE Expand(t)
        <4>0. task[t].todo \subseteq CoveringRows
          <5>1. task[t].pc = "expand" BY <3>4, ExpandOne
          <5> QED BY <2>2, <3>0, <5>1 DEF Kept
        <4>1. CASE \E c \in task[t].todo :
                     /\ task'[t].pc = "wrapping" /\ task'[t].wrapped = task[t].wrapped
                     /\ task'[t].todo = task[t].todo \ {c} /\ task'[t].uids = Sharees(c.row)
          <5>1. PICK c \in task[t].todo :
                     /\ task'[t].pc = "wrapping" /\ task'[t].wrapped = task[t].wrapped
                     /\ task'[t].todo = task[t].todo \ {c} /\ task'[t].uids = Sharees(c.row)
            BY <4>1
          <5>2. Sharees(c.row) \subseteq Covered BY <4>0 DEF Covered
          <5> QED BY <1>g, <3>w, <4>0, <5>1, <5>2 DEF Kept
        <4>2. CASE task'[t].pc = "recheck" /\ task'[t].wrapped = task[t].wrapped BY <1>g, <3>w, <4>2 DEF Kept
        <4> QED BY <3>4, <3>i, <4>1, <4>2, ExpandOne DEF Became
      <3>5. CASE WrapOne(t)
        <4>1. task[t].pc = "wrapping" BY <3>5, WrapOneOne
        <4>2. task[t].todo \subseteq CoveringRows /\ task[t].uids \subseteq Covered BY <2>2, <3>0, <4>1 DEF Kept
        <4>3. /\ task'[t].pc \in {"wrapping", "expand"} /\ task'[t].todo = task[t].todo
              /\ task'[t].uids \subseteq task[t].uids /\ task'[t].wrapped \subseteq task[t].wrapped \cup task[t].uids
          BY <3>5, <4>1, WrapOneOne DEF Became
        <4> QED BY <1>g, <3>w, <4>2, <4>3 DEF Kept
      <3>6. CASE Recheck(t)
        <4>1. task'[t].pc = "live" /\ task'[t].wrapped = task[t].wrapped /\ task'[t].todo = CoveringRows
          BY <3>6, RecheckOne DEF Became
        <4>2. \A u \in task[t].wrapped : \E c \in CoveringRows : u \in Sharees(c.row) BY <3>w DEF Covered
        <4>3. \A u \in task[t].wrapped : \E c \in CoveringRows : u \in Sharees(c.row)' BY <1>g, <4>2
        <4>4. \A u \in task'[t].wrapped : \E c \in task'[t].todo : u \in Sharees(c.row)' BY <4>1, <4>3
        <4> QED BY <1>g, <3>w, <4>1, <4>4 DEF Kept
      <3>7. CASE LiveUIDs(t)
        <4>1. /\ task[t].pc = "live" /\ task'[t].pc = "undo"
              /\ task'[t].wrapped = task[t].wrapped \ UNION {Sharees(c.row) : c \in task[t].todo}
          BY <3>7, LiveUIDsOne DEF Became
        <4>2. \A u \in task[t].wrapped : \E c \in task[t].todo : u \in Sharees(c.row) BY <2>2, <3>0, <4>1 DEF Kept
        <4>3. task'[t].wrapped = {} BY <4>1, <4>2
        <4> QED BY <4>1, <4>3 DEF Kept
      <3>8. CASE UndoOne(t)
        <4>1. task[t].pc = "undo" BY <3>8, UndoOneOne
        <4>2. task[t].wrapped = {} BY <2>2, <3>0, <4>1 DEF Kept
        <4> QED BY <3>8, <3>i, <4>2, UndoOneOne
      <3> QED BY <2>2, <3>1, <3>2, <3>3, <3>4, <3>5, <3>6, <3>7, <3>8 DEF Works
    <2> QED BY <2>1, <2>2, WorkerOne
  <1> QED BY <1>1, <1>2

LEMMA LocalStep ==
  ASSUME Base, GrantInv, GrantMix, NEW t \in Tasks, Opens(t) \/ Hooks(t) \/ Works(t) \/ CreateInsert(t), NEW q \in Tasks
  PROVE  Local(task[q])'
  <1>0. Took(t) BY GrantTables
  <1>i. Local(Idle) BY DEF Local, Idle
  <1>1. CASE q # t
    <2>1. task'[q] = task[q] BY <1>0, <1>1 DEF Took
    <2>2. Local(task[q]) BY DEF GrantInv
    <2> QED BY <2>1, <2>2
  <1>2. CASE \E row \in Share : CreateStart(t, "share", row)
    <2>1. PICK row \in Share : CreateStart(t, "share", row) BY <1>2
    <2>2. row.with # "remote" BY <2>1 DEF CreateStart
    <2>3. task'[t].pc = "insert" /\ task'[t].sh = {[id |-> nextId, row |-> row]} BY <2>1, CreateStartOne DEF Became
    <2>4. Local(task'[t]) BY <2>2, <2>3 DEF Local
    <2> QED BY <1>1, <2>4
  <1>3. CASE CreateInsert(t)
    <2>1. task[t].pc = "insert" /\ Mine(t) \in task[t].sh BY <1>3, CreateInsertOne, InHand DEF Single
    <2>2. Mine(t).row.with # "remote" BY <2>1 DEF GrantInv, Local
    <2>3. task'[t].pc = "bell" BY <1>3, <2>2, CreateInsertOne DEF Became
    <2>4. Local(task'[t]) BY <2>3 DEF Local
    <2> QED BY <1>1, <2>4
  <1>4. CASE ~(\E row \in Share : CreateStart(t, "share", row)) /\ ~CreateInsert(t)
    <2> SUFFICES Local(task'[t])
      BY <1>1
    <2>1. Local(Idle) /\ (task'[t].pc \in {"group", "row"} \cup Walk \cup Minted => Local(task'[t]))
      BY <1>i DEF Local, Walk, Minted
    <2>2. CASE Opens(t)
      <3>1. CASE Reconcile(t) BY <3>1, <2>1, ReconcileOne DEF Became, Walk
      <3>2. CASE \E u \in Users : Member(t, "join", u)
        <4>1. PICK u \in Users : Member(t, "join", u) BY <3>2
        <4> QED BY <2>1, <4>1, MemberOne DEF Became
      <3>3. CASE \E op \in {"write", "overwrite"} : WriteStart(t, op) BY <2>1, <3>3, WriteStartOne DEF Became
      <3> QED BY <1>4, <2>2, <3>1, <3>2, <3>3 DEF Opens
    <2>3. CASE Hooks(t)
      <3>1. task'[t] = Idle \/ task'[t].pc \in Walk
        BY <2>3, CreateBellOne, GroupSharesOne, SpreadShareOne, SpreadReadOne, SpreadApplyOne DEF Hooks, Became, Walk
      <3> QED BY <2>1, <3>1
    <2>4. CASE Works(t)
      <3>1. task'[t] = Idle \/ task'[t].pc \in Minted
        BY <2>4, WriteRowOne, CarryListOne, CarryOne, CoveringReadOne, ExpandOne, WrapOneOne, RecheckOne, LiveUIDsOne, UndoOneOne
           DEF Works, Became, Minted
      <3> QED BY <2>1, <3>1
    <2> QED BY <1>4, <2>2, <2>3, <2>4
  <1> QED BY <1>2, <1>3, <1>4

LEMMA TakenStep ==
  ASSUME Base, GrantInv, GrantMix, NEW t \in Tasks, Opens(t) \/ Hooks(t) \/ Works(t) \/ CreateInsert(t), Taken'
  PROVE  Taken \/ Reconcile(t)
  <1> SUFFICES ASSUME ~Reconcile(t), "reconcile" \in traffic, "reconciled" \notin traffic
               PROVE  \E q \in Tasks : task[q].op = "reconcile"
    BY DEF Taken
  <1>0. Took(t) /\ (traffic' = traffic \/ SpreadShare(t)) BY GrantTables
  <1>i. Idle.op = "none" BY DEF Idle
  <1>1. CASE "reconciled" \in traffic'
    <2>1. SpreadShare(t) BY <1>0, <1>1
    <2>2. task[t].op = "reconcile" BY <1>1, <2>1 DEF SpreadShare
    <2> QED BY <2>2
  <1>2. CASE "reconciled" \notin traffic'
    <2>1. "reconcile" \in traffic' BY <1>0 DEF SpreadShare
    <2>2. PICK q \in Tasks : task'[q].op = "reconcile" BY <1>2, <2>1 DEF Taken
    <2>3. CASE q # t
      <3>1. task'[q] = task[q] BY <1>0, <2>3 DEF Took
      <3> QED BY <2>2, <3>1
    <2>4. CASE q = t
      <3>1. ~Opens(t)
        <4>1. ASSUME NEW row \in Share, CreateStart(t, "share", row) PROVE FALSE
          BY <2>2, <2>4, <4>1, CreateStartOne DEF Became
        <4>2. ASSUME NEW u \in Users, Member(t, "join", u) PROVE FALSE
          BY <2>2, <2>4, <4>2, MemberOne DEF Became
        <4>3. ASSUME NEW op \in {"write", "overwrite"}, WriteStart(t, op) PROVE FALSE
          BY <2>2, <2>4, <4>3, WriteStartOne DEF Became
        <4> QED BY <4>1, <4>2, <4>3 DEF Opens
      <3>2. task'[t].op \in {task[t].op, "none"}
        <4>1. CASE Hooks(t)
          BY <1>i, <4>1, CreateBellOne, GroupSharesOne, SpreadShareOne, SpreadReadOne, SpreadApplyOne DEF Hooks, Became
        <4>2. CASE Works(t)
          BY <1>i, <4>2, WriteRowOne, CarryListOne, CarryOne, CoveringReadOne, ExpandOne, WrapOneOne, RecheckOne, LiveUIDsOne, UndoOneOne
             DEF Works, Became
        <4>3. CASE CreateInsert(t) BY <4>3, CreateInsertOne DEF Became
        <4> QED BY <3>1, <4>1, <4>2, <4>3
      <3> QED BY <2>2, <2>4, <3>2
    <2> QED BY <2>3, <2>4
  <1> QED BY <1>1, <1>2

\* Whoever becomes covered has the hook of the grant, or of his joining, before him.
LEMMA CoverGained ==
  ASSUME Base, Base', GrantInv, GrantMix, NEW t \in Tasks, Opens(t) \/ Hooks(t) \/ Works(t) \/ CreateInsert(t),
         NEW u \in Users, u \notin Covered, u \in Covered'
  PROVE  Gives(t, u)'
  <1>1. PICK c \in CoveringRows' : u \in Sharees(c.row)' BY DEF Covered
  <1>2. c \in Rows' /\ c.id \in Ids /\ c.row = shares'[c.id] /\ shares'[c.id] # NoShare /\ c.row.with # "remote"
        /\ c = [id |-> c.id, row |-> c.row]
    BY <1>1 DEF CoveringRows, Rows
  <1>3. c \notin Rows \/ u \notin Sharees(c.row) BY <1>2 DEF Covered, CoveringRows
  <1>4. /\ shares' = shares \/ CreateInsert(t)
        /\ members' = members \/ \E v \in Users : Member(t, "join", v)
    BY GrantTables
  <1>5. CASE CreateInsert(t)
    <2>1. /\ nextId \in Ids /\ shares' = [shares EXCEPT ![nextId] = Mine(t).row] /\ members' = members
          /\ task[t].pc = "insert"
      BY <1>5, CreateInsertOne, InsertsOne
    <2>2. task[t].op = "share" /\ Mine(t) \in task[t].sh BY <2>1, GrantPlaces, InHand DEF Single
    <2>3. Mine(t).row.with # "remote" BY <2>1, <2>2 DEF GrantInv, Local
    <2>4. u \in Sharees(c.row) BY <1>1, <2>1 DEF Sharees
    <2>5. c.id = nextId
      <3>1. c \notin Rows BY <1>3, <2>4
      <3>2. c.id # nextId => shares'[c.id] = shares[c.id] BY <1>2, <2>1 DEF Base, TypeOK
      <3> QED BY <1>2, <3>1, <3>2 DEF Rows
    <2>6. shares'[nextId] = Mine(t).row BY <2>1 DEF Base, TypeOK
    <2>7. task'[t].pc = "bell" /\ task'[t].op = "share" /\ task'[t].sh = {[id |-> nextId, row |-> Mine(t).row]}
      BY <1>5, <2>2, <2>3, CreateInsertOne DEF Became
    <2>8. c \in task'[t].sh BY <1>2, <2>5, <2>6, <2>7
    <2>9. u \in Recipients(t, c.row)' BY <1>1, <2>7 DEF Recipients
    <2> QED BY <2>7, <2>8, <2>9 DEF Gives
  <1>6. CASE \E v \in Users : Member(t, "join", v)
    <2>1. PICK v \in Users : Member(t, "join", v) BY <1>6
    <2>2. /\ task'[t].pc = "group" /\ task'[t].op = "join" /\ task'[t].wrapped = {v}
          /\ shares' = shares /\ members' = members \cup {v}
      BY <2>1, MemberOne DEF Became, Member
    <2>3. c \in Rows BY <1>2, <2>2 DEF Rows
    <2>4. u \notin Sharees(c.row) BY <1>3, <2>3
    <2>5. Sharees(c.row)' = CASE c.row.with = "group"  -> members'
                              [] c.row.with = "remote" -> {}
                              [] OTHER               -> {c.row.with}
      BY DEF Sharees
    <2>6. Sharees(c.row) = CASE c.row.with = "group"  -> members
                             [] c.row.with = "remote" -> {}
                             [] OTHER               -> {c.row.with}
      BY DEF Sharees
    <2>7. c.row.with = "group" BY <1>1, <1>2, <2>4, <2>5, <2>6
    <2>8. u \in members' /\ u \notin members BY <1>1, <2>4, <2>5, <2>6, <2>7
    <2>9. u = v BY <2>2, <2>8
    <2> QED BY <1>2, <2>2, <2>7, <2>9 DEF Gives
  <1>7. CASE shares' = shares /\ members' = members
    <2>1. c \in Rows /\ u \in Sharees(c.row) BY <1>1, <1>2, <1>7 DEF Rows, Sharees
    <2> QED BY <1>3, <2>1
  <1> QED BY <1>4, <1>5, <1>6, <1>7

\* Wraps of the file's key stay.
LEMMA HoldersStay ==
  ASSUME Base, GrantInv, GrantMix, NEW t \in Tasks, Opens(t) \/ Hooks(t) \/ Works(t) \/ CreateInsert(t),
         fileKey' = fileKey, NEW u, <<fileKey, u>> \in wraps
  PROVE  <<fileKey', u>> \in wraps'
  <1>1. CASE Opens(t)
    <2>1. wraps' = wraps BY <1>1 DEF Opens, CreateStart, Reconcile, Member, WriteStart, tables, keyTables
    <2> QED BY <2>1
  <1>2. CASE Hooks(t)
    <2>1. CASE SpreadApply(t)
      <3>1. task[t].pc = "apply" BY <2>1, SpreadApplyOne
      <3>2. task[t].op \in {"share", "join", "reconcile"} BY <3>1, GrantPlaces DEF Walk
      <3> QED BY <2>1, <3>2, SpreadApplyOne
    <2>2. CASE ~SpreadApply(t)
      <3>1. wraps' = wraps
        BY <1>2, <2>2 DEF Hooks, CreateBell, GroupShares, SpreadShare, SpreadRead, tables, keyTables
      <3> QED BY <3>1
    <2> QED BY <2>1, <2>2
  <1>3. CASE Works(t)
    <2>1. CASE Carry(t)
      <3>1. task[t].pc = "carry" BY <2>1, CarryOne
      <3>2. Writing(t) BY <3>1, GrantPlaces DEF Minted
      <3>3. task[t].old # fileKey BY <3>1, <3>2 DEF GrantInv, OneKey
      <3>4. (\E v \in task[t].uids : wraps' = wraps \cup {<<task[t].key, v>>}) \/ wraps' = {p \in wraps : p[1] # task[t].old}
        BY <2>1, CarryOne
      <3> QED BY <3>3, <3>4
    <2>2. CASE WrapOne(t) BY <2>2, WrapOneOne
    <2>3. CASE UndoOne(t)
      <3>1. task[t].pc = "undo" BY <2>3, UndoOneOne
      <3>2. task[t].wrapped = {} BY <3>1, GrantPlaces DEF GrantInv, Kept, Minted
      <3> QED BY <2>3, <3>2, UndoOneOne
    <2>4. CASE ~Carry(t) /\ ~WrapOne(t) /\ ~UndoOne(t)
      <3>1. wraps' = wraps
        BY <1>3, <2>4 DEF Works, WriteRow, CarryList, CoveringRead, Expand, Recheck, LiveUIDs, tables, keyTables
      <3> QED BY <3>1
    <2> QED BY <2>1, <2>2, <2>3, <2>4
  <1>4. CASE CreateInsert(t)
    <2>1. wraps' = wraps BY <1>4 DEF CreateInsert, keyTables
    <2> QED BY <2>1
  <1> QED BY <1>1, <1>2, <1>3, <1>4

LEMMA GiverStays ==
  ASSUME Base, GrantInv, GrantMix, NEW t \in Tasks, Opens(t) \/ Hooks(t) \/ Works(t) \/ CreateInsert(t),
         fileKey' = fileKey, NEW q \in Tasks \ {t}, NEW u, Gives(q, u) \/ WillWrap(q, u)
  PROVE  Gives(q, u)' \/ WillWrap(q, u)'
  <1>1. task'[q] = task[q] BY GrantTables DEF Took
  <1>2. /\ Rows \subseteq Rows' /\ \A c \in Copy : Sharees(c.row) \subseteq Sharees(c.row)' BY CoverGrows
  <1>3. task[q].sh \subseteq Copy /\ task[q].todo \subseteq Copy BY Here DEF Copies
  <1>4. \A c \in Copy : Recipients(q, c.row) \subseteq Recipients(q, c.row)' BY <1>1, <1>2 DEF Recipients
  <1>5. CASE Gives(q, u)
    <2>1. \A c \in task[q].sh \cup task[q].todo : u \in Recipients(q, c.row) => u \in Recipients(q, c.row)' BY <1>3, <1>4
    <2> QED BY <1>1, <1>2, <1>5, <2>1 DEF Gives
  <1>6. CASE WillWrap(q, u)
    <2>1. \A c \in task[q].todo : u \in Sharees(c.row) => u \in Sharees(c.row)' BY <1>2, <1>3
    <2> QED BY <1>1, <1>6, <2>1 DEF WillWrap, Writing
  <1> QED BY <1>5, <1>6

\* A hook goes on until it has given the wrap.
LEMMA GivesOn ==
  ASSUME Base, GrantInv, GrantMix, NEW t \in Tasks, Opens(t) \/ Hooks(t) \/ Works(t) \/ CreateInsert(t),
         fileKey' = fileKey, fileKey # 0, NEW u \in Users, Gives(t, u)
  PROVE  Gives(t, u)' \/ <<fileKey', u>> \in wraps'
  <1>1. task[t].op \in {"share", "join", "reconcile"} /\ task[t].pc \in {"bell", "group", "spread", "read", "apply"}
    BY DEF Gives, Walk
  <1>2. Hooks(t)
    <2>1. ~Opens(t) BY <1>1 DEF Opens, CreateStart, Reconcile, Member, WriteStart, Does
    <2>2. ~Works(t)
      BY <1>1 DEF Works, WriteRow, CarryList, Carry, CoveringRead, Expand, WrapOne, Recheck, LiveUIDs, UndoOne
    <2>3. ~CreateInsert(t) BY <1>1 DEF CreateInsert
    <2> QED BY <2>1, <2>2, <2>3
  <1>3. UNCHANGED <<shares, members>>
    BY <1>2 DEF Hooks, CreateBell, GroupShares, SpreadShare, SpreadRead, SpreadApply, tables
  <1>4. Rows' = Rows BY <1>3 DEF Rows
  <1>5. task[t].sh \subseteq Copy /\ task[t].todo \subseteq Copy /\ Rows \subseteq Copy BY Here, RowTypes DEF Copies
  <1>6. ASSUME task'[t].op = task[t].op, task'[t].wrapped = task[t].wrapped
        PROVE  \A c \in Copy : Recipients(t, c.row)' = Recipients(t, c.row)
    BY <1>3, <1>6 DEF Recipients, Sharees
  <1>7. CASE CreateBell(t)
    <2>1. /\ task[t].pc = "bell" /\ task'[t].pc = "spread" /\ task'[t].op = task[t].op
          /\ task'[t].wrapped = task[t].wrapped /\ task'[t].todo = task[t].sh
      BY <1>7, CreateBellOne DEF Became
    <2>2. PICK c \in task[t].sh : u \in Recipients(t, c.row) BY <2>1 DEF Gives, Walk
    <2>3. u \in Recipients(t, c.row)' BY <1>5, <1>6, <2>1, <2>2
    <2> QED BY <1>1, <2>1, <2>2, <2>3 DEF Gives, Walk
  <1>8. CASE GroupShares(t)
    <2>1. /\ task[t].pc = "group" /\ task'[t].pc = "spread" /\ task'[t].op = task[t].op
          /\ task'[t].wrapped = task[t].wrapped /\ task'[t].todo = {c \in Rows : c.row.with = "group"}
      BY <1>8, GroupSharesOne DEF Became
    <2>2. u \in task[t].wrapped /\ \E c \in Rows : c.row.with = "group" BY <2>1 DEF Gives, Walk
    <2>3. PICK c \in task'[t].todo : c.row.with = "group" BY <2>1, <2>2
    <2>4. task[t].op = "join" BY <2>1, GrantPlaces
    <2>5. u \in Recipients(t, c.row)' BY <2>1, <2>2, <2>4 DEF Recipients
    <2> QED BY <1>1, <2>1, <2>3, <2>5 DEF Gives, Walk
  <1>9. CASE SpreadShare(t)
    <2>1. task[t].pc = "spread" BY <1>9, SpreadShareOne
    <2>2. PICK c \in task[t].todo : u \in Recipients(t, c.row) BY <2>1 DEF Gives
    <2>3. PICK d \in task[t].todo :
            /\ task'[t].pc = "read" /\ task'[t].op = task[t].op /\ task'[t].wrapped = task[t].wrapped
            /\ task'[t].todo = task[t].todo \ {d} /\ task'[t].uids = Recipients(t, d.row)
      BY <1>9, <2>2, SpreadShareOne DEF Became
    <2>4. CASE c = d BY <1>1, <2>2, <2>3, <2>4 DEF Gives
    <2>5. CASE c # d
      <3>1. u \in Recipients(t, c.row)' BY <1>5, <1>6, <2>2, <2>3
      <3>2. c \in task'[t].todo BY <2>2, <2>3, <2>5
      <3> QED BY <1>1, <2>3, <3>1, <3>2 DEF Gives, Walk
    <2> QED BY <2>4, <2>5
  <1>10. CASE SpreadRead(t) /\ u \in task[t].uids
    <2>1. /\ task'[t].pc = "apply" /\ task'[t].op = task[t].op /\ task'[t].uids = task[t].uids /\ task'[t].key = fileKey
      BY <1>10, SpreadReadOne DEF Became
    <2> QED BY <1>1, <1>10, <2>1 DEF Gives
  <1>11. CASE SpreadRead(t) /\ u \notin task[t].uids
    <2>1. /\ task[t].pc = "read" /\ task'[t].pc \in Walk /\ task'[t].op = task[t].op
          /\ task'[t].wrapped = task[t].wrapped /\ task'[t].todo = task[t].todo
      BY <1>11, SpreadReadOne DEF Became, Walk
    <2>2. PICK c \in task[t].todo : u \in Recipients(t, c.row) BY <1>11, <2>1 DEF Gives
    <2>3. u \in Recipients(t, c.row)' BY <1>5, <1>6, <2>1, <2>2
    <2> QED BY <1>1, <2>1, <2>2, <2>3 DEF Gives
  <1>12. CASE SpreadApply(t)
    <2>1. PICK v \in task[t].uids :
            /\ task[t].pc = "apply" /\ task'[t].pc = "read" /\ task'[t].op = task[t].op
            /\ task'[t].wrapped = task[t].wrapped /\ task'[t].todo = task[t].todo /\ task'[t].uids = task[t].uids \ {v}
            /\ wraps' = IF task[t].key \in owned THEN wraps \cup {<<task[t].key, v>>} ELSE wraps
      BY <1>1, <1>12, SpreadApplyOne DEF Became
    <2>2. CASE u \in task[t].uids /\ task[t].key = fileKey
      <3>1. CASE v = u
        <4>1. fileKey \in owned BY DEF GrantInv, OneKey
        <4> QED BY <2>1, <2>2, <3>1, <4>1
      <3>2. CASE v # u BY <1>1, <2>1, <2>2, <3>2 DEF Gives
      <3> QED BY <3>1, <3>2
    <2>3. CASE \E c \in task[t].todo : u \in Recipients(t, c.row)
      <3>1. PICK c \in task[t].todo : u \in Recipients(t, c.row) BY <2>3
      <3>2. u \in Recipients(t, c.row)' BY <1>5, <1>6, <2>1, <3>1
      <3> QED BY <1>1, <2>1, <3>1, <3>2 DEF Gives, Walk
    <2> QED BY <2>1, <2>2, <2>3 DEF Gives
  <1> QED BY <1>2, <1>7, <1>8, <1>9, <1>10, <1>11, <1>12 DEF Hooks

\* A writer goes on until everybody the shares cover has the wrap.
LEMMA WillWrapOn ==
  ASSUME Base, GrantInv, GrantMix, NEW t \in Tasks, Opens(t) \/ Hooks(t) \/ Works(t) \/ CreateInsert(t),
         fileKey' = fileKey, NEW u \in Users, u \in Covered, WillWrap(t, u)
  PROVE  WillWrap(t, u)' \/ <<fileKey', u>> \in wraps'
  <1>1. Writing(t) /\ task[t].pc \in {"carryList", "carry", "covering", "expand", "wrapping"} BY DEF WillWrap
  <1>2. CarryList(t) \/ Carry(t) \/ CoveringRead(t) \/ Expand(t) \/ WrapOne(t)
    <2>1. ~Opens(t) BY <1>1 DEF Opens, CreateStart, Reconcile, Member, WriteStart, Does
    <2>2. ~Hooks(t) BY <1>1 DEF Hooks, CreateBell, GroupShares, SpreadShare, SpreadRead, SpreadApply
    <2>3. ~CreateInsert(t) BY <1>1 DEF CreateInsert
    <2>4. ~WriteRow(t) /\ ~Recheck(t) /\ ~LiveUIDs(t) /\ ~UndoOne(t) BY <1>1 DEF WriteRow, Recheck, LiveUIDs, UndoOne
    <2> QED BY <2>1, <2>2, <2>3, <2>4 DEF Works
  <1>3. CASE CarryList(t)
    <2>1. task'[t].op = task[t].op /\ task'[t].pc = "carry" BY <1>3, CarryListOne DEF Became
    <2> QED BY <1>1, <2>1 DEF WillWrap, Writing
  <1>4. CASE Carry(t)
    <2>1. task'[t].op = task[t].op /\ task'[t].pc \in {"carry", "covering"} BY <1>4, CarryOne DEF Became
    <2> QED BY <1>1, <2>1 DEF WillWrap, Writing
  <1>5. CASE CoveringRead(t)
    <2>1. PICK c \in CoveringRows : u \in Sharees(c.row) BY DEF Covered
    <2>2. task'[t].op = task[t].op /\ task'[t].pc = "expand" /\ task'[t].todo = CoveringRows
      BY <1>5, <2>1, CoveringReadOne DEF Became
    <2>3. u \in Sharees(c.row)'
      <3>1. members' = members BY <1>5 DEF CoveringRead, tables
      <3> QED BY <2>1, <3>1 DEF Sharees
    <2> QED BY <1>1, <2>1, <2>2, <2>3 DEF WillWrap, Writing
  <1>6. CASE Expand(t)
    <2>0. task[t].pc = "expand" /\ members' = members BY <1>6 DEF Expand, tables
    <2>1. PICK c \in task[t].todo : u \in Sharees(c.row) BY <2>0 DEF WillWrap
    <2>2. PICK d \in task[t].todo :
            /\ task'[t].op = task[t].op /\ task'[t].pc = "wrapping"
            /\ task'[t].todo = task[t].todo \ {d} /\ task'[t].uids = Sharees(d.row)
      BY <1>6, <2>1, ExpandOne DEF Became
    <2>3. CASE c = d BY <1>1, <2>1, <2>2, <2>3 DEF WillWrap, Writing
    <2>4. CASE c # d
      <3>1. u \in Sharees(c.row)' BY <2>0, <2>1 DEF Sharees
      <3>2. c \in task'[t].todo BY <2>1, <2>2, <2>4
      <3> QED BY <1>1, <2>2, <3>1, <3>2 DEF WillWrap, Writing
    <2> QED BY <2>3, <2>4
  <1>7. CASE WrapOne(t)
    <2>0. task[t].pc = "wrapping" /\ members' = members BY <1>7 DEF WrapOne
    <2>1. /\ task'[t].op = task[t].op /\ task'[t].todo = task[t].todo /\ task'[t].pc \in {"wrapping", "expand"}
          /\ \/ \E v \in task[t].uids : /\ wraps' = wraps \cup {<<task[t].key, v>>}
                                        /\ task'[t].pc = "wrapping" /\ task'[t].uids = task[t].uids \ {v}
             \/ task[t].uids = {}
      BY <1>7, <2>0, WrapOneOne DEF Became
    <2>2. CASE \E c \in task[t].todo : u \in Sharees(c.row)
      <3>1. PICK c \in task[t].todo : u \in Sharees(c.row) BY <2>2
      <3>2. u \in Sharees(c.row)' BY <2>0, <3>1 DEF Sharees
      <3> QED BY <1>1, <2>1, <3>1, <3>2 DEF WillWrap, Writing
    <2>3. CASE u \in task[t].uids
      <3>1. PICK v \in task[t].uids : /\ wraps' = wraps \cup {<<task[t].key, v>>}
                                      /\ task'[t].pc = "wrapping" /\ task'[t].uids = task[t].uids \ {v}
        BY <2>1, <2>3
      <3>2. task[t].key = fileKey BY <1>1, <2>0 DEF GrantInv, OneKey
      <3>3. CASE v = u BY <3>1, <3>2, <3>3
      <3>4. CASE v # u BY <1>1, <2>1, <2>3, <3>1, <3>4 DEF WillWrap, Writing
      <3> QED BY <3>3, <3>4
    <2> QED BY <2>0, <2>2, <2>3 DEF WillWrap
  <1> QED BY <1>2, <1>3, <1>4, <1>5, <1>6, <1>7

LEMMA ServedStep ==
  ASSUME Base, Base', GrantInv, GrantMix, NEW t \in Tasks, Opens(t) \/ Hooks(t) \/ Works(t) \/ CreateInsert(t),
         Taken', fileKey' # 0, NEW u \in Users, u \in Covered'
  PROVE  Served(u)'
  <1>1. CASE WriteRow(t) /\ fileKey' # fileKey
    <2>1. task'[t].pc \in {"carryList", "covering"} /\ task'[t].op = task[t].op /\ task[t].pc = "row"
      BY <1>1, WriteRowOne DEF Became
    <2>2. Writing(t) BY <2>1, GrantPlaces DEF Minted
    <2>3. WillWrap(t, u)' BY <2>1, <2>2 DEF WillWrap, Writing
    <2> QED BY <2>3 DEF Served
  <1>2. CASE Reconcile(t)
    <2>1. /\ task'[t].pc = "spread" /\ task'[t].op = "reconcile" /\ task'[t].todo = Rows BY <1>2, ReconcileOne DEF Became
    <2>2. Rows' = Rows BY <1>2 DEF Reconcile, tables, Rows
    <2>3. PICK c \in Rows' : u \in Sharees(c.row)' BY DEF Covered, CoveringRows
    <2>4. u \in Recipients(t, c.row)' BY <2>1, <2>3 DEF Recipients
    <2>5. Gives(t, u)' BY <2>1, <2>2, <2>3, <2>4 DEF Gives, Walk
    <2> QED BY <2>5 DEF Served
  <1>3. CASE ~Reconcile(t) /\ fileKey' = fileKey
    <2>1. Taken BY <1>3, TakenStep
    <2>2. CASE u \notin Covered BY <2>2, CoverGained DEF Served
    <2>3. CASE u \in Covered
      <3>1. Served(u) BY <1>3, <2>1, <2>3 DEF GrantInv
      <3>2. <<fileKey', u>> \in wraps' => Served(u)' BY DEF Served, Holders
      <3>3. CASE u \in Holders
        <4>1. <<fileKey, u>> \in wraps BY <3>3 DEF Holders
        <4> QED BY <1>3, <3>2, <4>1, HoldersStay
      <3>4. ASSUME NEW q \in Tasks, Gives(q, u) \/ WillWrap(q, u) PROVE Served(u)'
        <4>1. CASE q # t BY <1>3, <3>4, <4>1, GiverStays DEF Served
        <4>2. CASE q = t
          <5>1. Gives(t, u)' \/ WillWrap(t, u)' \/ <<fileKey', u>> \in wraps'
            BY <1>3, <2>3, <3>4, <4>2, GivesOn, WillWrapOn
          <5> QED BY <3>2, <5>1 DEF Served
        <4> QED BY <4>1, <4>2
      <3> QED BY <3>1, <3>3, <3>4 DEF Served
    <2> QED BY <2>2, <2>3
  <1> QED BY <1>1, <1>2, <1>3, GrantTables

LEMMA GrantStep == Base /\ GrantInv /\ [Next]_vars => GrantInv'
  <1> SUFFICES ASSUME Base, GrantInv, [Next]_vars PROVE GrantInv'
    OBVIOUS
  <1> DEFINE Fine == /\ OneKey /\ \A q \in Tasks : Local(task[q]) /\ Kept(q)
                     /\ Taken /\ fileKey # 0 => \A u \in Covered : Served(u)
  <1>1. Asked' /\ Base' BY AskedStep, BaseStep DEF GrantInv
  <1>2. ASSUME GrantMix' PROVE GrantMix BY <1>2, TrafficGrows DEF GrantMix
  <1>3. ASSUME GrantMix', NEW t \in Tasks, Looks(t) \/ Drops(t) \/ Tells(t) \/ Seals(t) \/ CreateInsert(t)
        PROVE  Fine'
    <2>1. GrantMix BY <1>2, <1>3
    <2>2. Opens(t) \/ Hooks(t) \/ Works(t) \/ CreateInsert(t) BY <1>3, <2>1, GrantSteps
    <2>3. ASSUME Taken', fileKey' # 0, NEW u \in Covered' PROVE Served(u)'
      <3>1. u \in Users
        <4>1. CoveringRows' \subseteq Copy' BY <1>1, RowTypes DEF CoveringRows, Rows, Base, TypeOK, Copy, Ids
        <4>2. PICK c \in CoveringRows' : u \in Sharees(c.row)' BY <2>3 DEF Covered
        <4>3. members' \subseteq Users BY <1>1 DEF Base, TypeOK
        <4>4. c.row.with \in Users \cup {"group", "remote"} BY <4>1, <4>2 DEF Copy, Share
        <4> QED BY <4>2, <4>3, <4>4 DEF Sharees
      <3> QED BY <1>1, <2>1, <2>2, <2>3, <3>1, ServedStep
    <2>4. OneKey' /\ \A q \in Tasks : Local(task[q])' /\ Kept(q)' BY <1>1, <2>1, <2>2, OneKeyStep, LocalStep, KeptStep
    <2> QED BY <2>3, <2>4
  <1>4. ASSUME GrantMix', NEW i \in incoming, Decline(i) PROVE FALSE
    <2>1. "decline" \in traffic BY <1>4 DEF Decline
    <2> QED BY <1>2, <1>4, <2>1 DEF GrantMix
  <1>5. ASSUME GrantMix', Tick \/ UNCHANGED vars PROVE Fine'
    <2>1. UNCHANGED <<shares, members, fileKey, owned, wraps, task, traffic>> BY <1>5 DEF Tick, tables, keyTables, vars
    <2>2. Fine BY <1>2, <1>5 DEF GrantInv
    <2>3. OneKey' BY <2>1, <2>2 DEF OneKey, Writing
    <2>4. Rows' = Rows BY <2>1 DEF Rows
    <2>5. Holders' = Holders /\ Covered' = Covered /\ CoveringRows' = CoveringRows
      BY <2>1, <2>4 DEF Holders, Covered, CoveringRows, Sharees
    <2>6. \A q \in Tasks : Local(task[q])' /\ Kept(q)' BY <2>1, <2>2, <2>5 DEF Local, Kept, Writing, Sharees
    <2>7. \A u : \A q \in Tasks : Gives(q, u)' <=> Gives(q, u)
      BY <2>1, <2>4 DEF Gives, Recipients, Sharees
    <2>8. \A u : \A q \in Tasks : WillWrap(q, u)' <=> WillWrap(q, u)
      BY <2>1 DEF WillWrap, Writing, Sharees
    <2>9. Taken' <=> Taken BY <2>1 DEF Taken
    <2> QED BY <2>1, <2>2, <2>3, <2>5, <2>6, <2>7, <2>8, <2>9 DEF Served
  <1>6. ASSUME GrantMix' PROVE Fine'
    BY <1>3, <1>4, <1>5, <1>6, Splits
  <1> QED BY <1>1, <1>6 DEF GrantInv

LEMMA GrantInit == Init => GrantInv
  <1> SUFFICES ASSUME Init PROVE GrantInv
    OBVIOUS
  <1>1. \A t \in Tasks : task[t] = Idle BY DEF Init
  <1>2. Asked BY <1>1 DEF Asked, Idle
  <1>3. minted \in {0, 1} /\ fileKey = minted /\ owned = 1 .. minted BY DEF Init
  <1>4. OneKey
    <2>1. \A t \in Tasks : ~Writing(t) BY <1>1 DEF Writing, Idle
    <2> QED BY <1>3, <2>1 DEF OneKey
  <1>5. \A t \in Tasks : Local(task[t]) /\ Kept(t) BY <1>1 DEF Local, Kept, Writing, Idle
  <1>6. ASSUME GrantMix, Taken PROVE Covered = {}
    <2>1. "reconciled" \notin traffic BY SharesAssumption DEF Init
    <2>2. "reconcile" \notin traffic BY <1>1, <1>6, <2>1 DEF Taken, Idle
    <2>3. PICK n \in 0 .. MaxShares - 1 :
            /\ \A i \in Ids : shares[i] # NoShare <=> i <= n
            /\ n > 0 => traffic \cap {"unshare", "update", "view", "job", "leave", "reconcile"} # {}
      BY DEF Init
    <2>4. n = 0 BY <1>6, <2>2, <2>3 DEF GrantMix
    <2>5. \A i \in Ids : shares[i] = NoShare BY <2>3, <2>4 DEF Ids
    <2> QED BY <2>5 DEF Covered, CoveringRows, Rows
  <1> QED BY <1>2, <1>4, <1>5, <1>6 DEF GrantInv

\* New shares, joining members, writes of any kind and the reconciliation of imported
\* shares: once all are done everybody covered holds the key the file has now
\* (WrapForWrite after the row, Create and AddGroupMember before the file is read).
THEOREM EveryoneGetsTheKey == Spec => []CoveredHaveKey
  <1>1. Base /\ GrantInv => CoveredHaveKey
    <2> SUFFICES ASSUME Base, GrantInv, Quiet, fileKey # 0, GrantMix,
                        "reconcile" \in traffic => "reconciled" \in traffic,
                        NEW u \in Covered
                 PROVE  u \in Holders
      BY DEF CoveredHaveKey, GrantMix
    <2>1. \A t \in Tasks : task[t].pc = "idle" /\ task[t].op = "none" BY GrantPlaces DEF Quiet
    <2>2. \A t \in Tasks : ~Gives(t, u) /\ ~WillWrap(t, u) BY <2>1 DEF Gives, WillWrap, Writing
    <2>3. Taken BY DEF Taken
    <2> QED BY <2>2, <2>3 DEF GrantInv, Served
  <1> QED BY <1>1, BaseHolds, GrantInit, GrantStep, PTL DEF Spec
=============================================================================
