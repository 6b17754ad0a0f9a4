-------------------------------- MODULE Mail --------------------------------
(***************************************************************************)
(* internal/mail: one user's mail account, the local copy of its mailboxes *)
(* and messages, and the IMAP and SMTP servers it talks to.                *)
(*                                                                         *)
(* A request or job in flight is a task; its steps are the IMAP commands   *)
(* and SQL statements of sync.go, ops.go, send.go and service.go, and what *)
(* it has read stays in its record and may be stale.  The server is        *)
(* external: other clients deliver, expunge and flag messages, remove      *)
(* mailboxes, and the server may renumber one (a new UIDVALIDITY).  A      *)
(* session whose mailbox was removed or renumbered has its commands        *)
(* refused.                                                                *)
(***************************************************************************)
EXTENDS Integers, Sequences, FiniteSets, FiniteSetsExt

CONSTANTS
  Scenes,         \* situations by name: which requests, server events and faults occur
  Tasks,          \* requests and jobs in flight at the same time
  Mails,          \* message contents, numbered
  MaxUid,         \* bound: uids of a mailbox
  MaxValidity,    \* bound: UIDVALIDITY values
  Batch,          \* syncFetchBatch (and the chunks of InsertMessages)
  FlagWindow,     \* syncFlagWindow
  PreviewWindow   \* syncPreviewWindow

Ops == {"sync", "flag", "read", "delete", "move", "send", "create", "update", "drop"}
Events == {"deliver", "expunge", "flag", "remove", "make", "renumber"}

ASSUME MailAssumption ==
  /\ \A n \in DOMAIN Scenes : LET s == Scenes[n] IN
                        /\ s.ops \subseteq Ops /\ s.events \subseteq Events
                        /\ {s.faults, s.requests, s.changes, s.width, s.maxNew} \subseteq Nat
  /\ Mails \subseteq Nat \ {0}
  /\ {MaxUid, MaxValidity, Batch, FlagWindow, PreviewWindow} \subseteq Nat \ {0}

VARIABLES
  server,     \* the IMAP server: per mailbox name its UIDVALIDITY and messages
  account,    \* mail_accounts: the user's row
  boxes,      \* mail_mailboxes
  rows,       \* mail_messages
  task,       \* requests and jobs in flight
  arrivals,   \* how often each content was in a mail.message.arrived event
  delivered,  \* contents the SMTP server has accepted
  kept,       \* contents put on the server that nobody asked to destroy
  verified,   \* connections whose LOGIN succeeded before they were stored
  left,       \* requests, server events and faults left
  scene       \* the name of the situation of this behaviour; it never changes

vars == <<server, account, boxes, rows, task, arrivals, delivered, kept, verified, left, scene>>

Names == {"INBOX", "Other"}
Scene == Scenes[scene]
MaxNew == Scene.maxNew    \* syncMaxNewPerRun
Flags == {"Seen", "Deleted"}
Uids == 1 .. MaxUid
NoMail == 0
Absent == [validity |-> 0, born |-> 0, next |-> 1, msgs |-> {}]
Message == [uid : Uids, mail : Mails, flags : SUBSET Flags]
Row == [id : Nat, box : Nat, uid : Uids, mail : Mails, flags : SUBSET Flags,
        preview : Mails \cup {NoMail}]
Mailbox == [id : Nat, acct : Nat, name : Names, validity : 0 .. MaxValidity, last : 0 .. MaxUid]
Ident == {"a", "b"}      \* IMAP host and user
Secret == {"p", "q"}     \* password
Port == {1, 2}
Account == [id : Nat, ident : Ident, port : Port, secret : Secret, seal : Ident]
NoAccount == [id |-> 0, ident |-> "a", port |-> 1, secret |-> "p", seal |-> "a"]
NoBox == [id |-> 0, acct |-> 0, name |-> "INBOX", validity |-> 0, last |-> 0]
NoRow == [id |-> 0, box |-> 0, uid |-> 1, mail |-> NoMail, flags |-> {}, preview |-> NoMail]

\* A task: its program counter; `calm' while nobody else has taken a step;
\* the account id; mailbox names still to upsert, the mailbox ids listed, the
\* rows to sync; the session; uids seen; batch fetched; rows inserted; the
\* message, destination, flags and account row of a request.
Idle == [op |-> "none", pc |-> "idle", calm |-> FALSE, acct |-> 0, names |-> <<>>, local |-> {},
         queue |-> <<>>, broken |-> FALSE, val |-> 0, uids |-> {}, fresh |-> {}, got |-> {},
         new |-> {}, wiped |-> FALSE, row |-> NoRow, dest |-> "nowhere", add |-> {}, remove |-> {},
         acc |-> NoAccount, rekey |-> FALSE]
PC == {"idle", "list", "local", "update", "insert", "reread", "drop", "examine", "wipe", "search",
       "uids", "vanish", "fetch", "store", "cursor", "recent", "flags", "setflags", "preview", "setpreview", "done",
       "select", "body", "add", "remove", "setrow", "copy", "mark", "expunge", "delrow",
       "smtp", "sentbox", "append", "verify", "write"}

OnServer(n) == server[n].validity # 0
UidsOf(b) == {r.uid : r \in {r \in rows : r.box = b}}

\* Ids are AUTOINCREMENT: what matters is that a new one is in nobody's hands.
Fresh(used) == CHOOSE i \in 1 .. Cardinality(used) + 1 : i \notin used
InHand == {task[t].row.id : t \in Tasks}
BoxIds == {b.id : b \in boxes} \cup {r.box : r \in rows}
          \cup UNION {{task[t].queue[i].id : i \in DOMAIN task[t].queue} \cup {b.id : b \in task[t].local}
                      \cup {task[t].row.box} : t \in Tasks}

TypeOK ==
  /\ \A n \in Names : server[n].validity \in 0 .. MaxValidity /\ server[n].msgs \subseteq Message
  /\ account \in Account /\ boxes \subseteq Mailbox /\ rows \subseteq Row
  /\ \A b, c \in boxes : b = c \/ (b.id # c.id /\ <<b.acct, b.name>> # <<c.acct, c.name>>)
  /\ \A r, q \in rows : r = q \/ (r.id # q.id /\ <<r.box, r.uid>> # <<q.box, q.uid>>)
  /\ \A t \in Tasks : task[t].pc \in PC
  /\ arrivals \in [Mails -> 0 .. 2] /\ delivered \subseteq Mails /\ kept \subseteq Mails

Init ==
  /\ scene \in DOMAIN Scenes
  /\ server = [n \in Names |->
       IF n \in Scene.present
       THEN [validity |-> 1, born |-> 1, next |-> 1 + Cardinality(Scene.mails[n]),
             msgs |-> {[uid |-> 1 + Cardinality({k \in Scene.mails[n] : k < m}), mail |-> m, flags |-> {}] : m \in Scene.mails[n]}]
       ELSE Absent]
  /\ account = IF "create" \in Scene.ops THEN NoAccount ELSE [NoAccount EXCEPT !.id = 1]
  /\ boxes = {} /\ rows = {}
  /\ task = [t \in Tasks |-> Idle]
  /\ arrivals = [m \in Mails |-> 0]
  /\ delivered = {} /\ kept = UNION {Scene.mails[n] : n \in Scene.present}
  /\ verified = {<<"a", 1, "p">>}
  /\ left = [requests |-> Scene.requests, events |-> Scene.changes, faults |-> Scene.faults]

-----------------------------------------------------------------------------
(* Steps shared by the operations.                                         *)

At(t, pc) == task[t].pc = pc
\* Task t goes on with record r, and nobody else is alone any more.
Step(t, r) == task' = [u \in Tasks |-> IF u = t THEN r ELSE [task[u] EXCEPT !.calm = FALSE]]
Goto(t, pc) == Step(t, [task[t] EXCEPT !.pc = pc])
Ends(t) == Step(t, Idle)
Start(t, op, r) ==
  /\ At(t, "idle") /\ op \in Scene.ops /\ left.requests > 0
  /\ Cardinality({u \in Tasks : ~At(u, "idle")}) < Scene.width
  /\ Step(t, [r EXCEPT !.op = op, !.calm = TRUE])
  /\ left' = [left EXCEPT !.requests = @ - 1]

Local == <<account, boxes, rows>>
History == <<arrivals, delivered, kept, verified>>
Steady == <<left, scene>>

\* The mailbox task t is working on, as its row was read by UpsertMailbox.
Box(t) == Head(task[t].queue)
\* The session is still valid: commands reach the mailbox that was opened.
Open(t, n) == server[n].validity = task[t].val /\ ~task[t].broken
\* syncMailbox returns and SyncAccount goes on to the next mailbox; a failed
\* IMAP command leaves the client broken.
NextBox(t, broken) ==
  [task[t] EXCEPT !.queue = Tail(@), !.pc = IF Len(task[t].queue) = 1 THEN "done" ELSE "examine",
                  !.broken = @ \/ broken, !.val = 0, !.uids = {}, !.fresh = {}, !.got = {},
                  !.new = {}, !.wiped = FALSE]
SkipBox(t, broken) == Step(t, [NextBox(t, broken) EXCEPT !.calm = FALSE])

-----------------------------------------------------------------------------
(* SyncAccount.                                                            *)

SyncStart(t) ==
  /\ account.id # 0
  /\ Start(t, "sync", [Idle EXCEPT !.pc = "list", !.acct = account.id])
  /\ UNCHANGED <<server, Local, History, scene>>

List(t) ==
  /\ At(t, "list")
  /\ Step(t, [task[t] EXCEPT !.pc = "local", !.names = SelectSeq(Scene.order, OnServer)])
  /\ UNCHANGED <<server, Local, History, Steady>>

ListMailboxes(t) ==
  /\ At(t, "local")
  /\ Step(t, [task[t] EXCEPT !.pc = IF task[t].names = <<>> THEN "drop" ELSE "update",
                             !.local = {b \in boxes : b.acct = task[t].acct}])
  /\ UNCHANGED <<server, Local, History, Steady>>

StoredBox(t) == {b \in boxes : b.acct = task[t].acct /\ b.name = Head(task[t].names)}

\* UpsertMailbox: UPDATE of the LIST-derived columns, INSERT when no row was
\* changed (a concurrent insert makes it fail), re-read.
UpsertUpdate(t) ==
  /\ At(t, "update")
  /\ Goto(t, IF StoredBox(t) = {} THEN "insert" ELSE "reread")
  /\ UNCHANGED <<server, Local, History, Steady>>

UpsertInsert(t) ==
  /\ At(t, "insert")
  /\ IF StoredBox(t) # {} THEN Ends(t) /\ UNCHANGED boxes
     ELSE /\ Goto(t, "reread")
          /\ boxes' = boxes \cup {[NoBox EXCEPT !.id = Fresh(BoxIds \cup {0}), !.acct = task[t].acct,
                                                !.name = Head(task[t].names)]}
  /\ UNCHANGED <<server, account, rows, History, Steady>>

UpsertRead(t) ==
  /\ At(t, "reread")
  /\ IF StoredBox(t) = {} THEN Ends(t)
     ELSE Step(t, [task[t] EXCEPT !.names = Tail(@), !.queue = Append(@, CHOOSE b \in StoredBox(t) : TRUE),
                                  !.pc = IF Len(task[t].names) = 1 THEN "drop" ELSE "update"])
  /\ UNCHANGED <<server, Local, History, Steady>>

\* Mailboxes listed locally that the server did not report.
DeleteMailboxes(t) ==
  LET listed == {task[t].queue[i].name : i \in DOMAIN task[t].queue}
      gone == {b.id : b \in {b \in task[t].local : b.name \notin listed}} IN
  /\ At(t, "drop")
  /\ Step(t, [task[t] EXCEPT !.local = {}, !.pc = IF task[t].queue = <<>> THEN "done" ELSE "examine"])
  /\ boxes' = {b \in boxes : b.id \notin gone}
  /\ rows' = {r \in rows : r.box \notin gone}
  /\ UNCHANGED <<server, account, History, Steady>>

-----------------------------------------------------------------------------
(* syncMailbox.                                                            *)

\* EXAMINE: a refusal breaks the client for the mailboxes that follow.
Examine(t) ==
  /\ At(t, "examine")
  /\ IF task[t].broken \/ ~OnServer(Box(t).name) \/ Box(t).name \in Scene.refused
     THEN SkipBox(t, TRUE)
     ELSE LET v == server[Box(t).name].validity IN
          Step(t, [task[t] EXCEPT !.val = v, !.wiped = v # Box(t).validity,
                                  !.pc = IF v # Box(t).validity THEN "wipe" ELSE "search"])
  /\ UNCHANGED <<server, Local, History, Steady>>

DeleteAllMessages(t) ==
  /\ At(t, "wipe")
  /\ rows' = {r \in rows : r.box # Box(t).id}
  /\ Step(t, [task[t] EXCEPT !.pc = "search", !.queue[1].last = 0])
  /\ UNCHANGED <<server, account, boxes, History, Steady>>

UIDSearchAll(t) ==
  /\ At(t, "search")
  /\ IF Open(t, Box(t).name)
     THEN Step(t, [task[t] EXCEPT !.pc = "uids", !.uids = {m.uid : m \in server[Box(t).name].msgs}])
     ELSE SkipBox(t, TRUE)
  /\ UNCHANGED <<server, Local, History, Steady>>

\* The smallest n members of a set of uids, and the largest n.
Lowest(S, n) == {u \in S : Cardinality({v \in S : v < u}) < n}
Highest(S, n) == {u \in S : Cardinality({v \in S : v > u}) < n}

\* ListMessageUIDs and diffUIDs: what vanished, and what is new, oldest first
\* and capped.
DiffUIDs(t) ==
  /\ At(t, "uids")
  /\ Step(t, [task[t] EXCEPT !.pc = "vanish", !.uids = UidsOf(Box(t).id) \ @,
                             !.fresh = Lowest(task[t].uids \ UidsOf(Box(t).id), MaxNew)])
  /\ UNCHANGED <<server, Local, History, Steady>>

DeleteMessagesByUID(t) ==
  /\ At(t, "vanish")
  /\ rows' = {r \in rows : r.box # Box(t).id \/ r.uid \notin task[t].uids}
  /\ Step(t, [task[t] EXCEPT !.uids = {}, !.pc = IF task[t].fresh = {} THEN "cursor" ELSE "fetch"])
  /\ UNCHANGED <<server, account, boxes, History, Steady>>

\* One batch of summaries; a message that is gone by now is not in the answer.
UIDFetchSummaries(t) ==
  LET batch == Lowest(task[t].fresh, Batch) IN
  /\ At(t, "fetch")
  /\ IF Open(t, Box(t).name)
     THEN Step(t, [task[t] EXCEPT !.pc = "store", !.fresh = @ \ batch,
                                  !.got = {m \in server[Box(t).name].msgs : m.uid \in batch}])
     ELSE SkipBox(t, TRUE)
  /\ UNCHANGED <<server, Local, History, Steady>>

\* The batch as rows with new ids.
NewRows(t) ==
  LET used == {r.id : r \in rows} \cup InHand
      free == Lowest((1 .. MaxUid * Cardinality(Names) * 2 + Cardinality(Tasks)) \ used, Cardinality(task[t].got))
      nth(m) == CHOOSE i \in free : Cardinality({j \in free : j < i}) = Cardinality({k \in task[t].got : k.uid < m.uid}) IN
  {[id |-> nth(m), box |-> Box(t).id, uid |-> m.uid, mail |-> m.mail, flags |-> m.flags, preview |-> NoMail] : m \in task[t].got}

\* InsertMessages: the unique (mailbox, uid) fails the statement when another
\* sync was faster.
InsertMessages(t) ==
  /\ At(t, "store")
  /\ IF {m.uid : m \in task[t].got} \cap UidsOf(Box(t).id) # {}
     THEN SkipBox(t, FALSE) /\ UNCHANGED rows
     ELSE /\ rows' = rows \cup NewRows(t)
          /\ Step(t, [task[t] EXCEPT !.new = @ \cup task[t].got, !.got = {},
                                     !.pc = IF task[t].fresh = {} THEN "cursor" ELSE "fetch"])
  /\ UNCHANGED <<server, account, boxes, History, Steady>>

Announce(t) == [m \in Mails |-> IF \E g \in task[t].new : g.mail = m
                                THEN IF arrivals[m] = 2 THEN 2 ELSE arrivals[m] + 1 ELSE arrivals[m]]
CursorRow(t) ==
  [Box(t) EXCEPT !.validity = task[t].val,
                 !.last = Max({task[t].queue[1].last} \cup {m.uid : m \in task[t].new})]

\* UpdateMailboxSyncState (an error when the row is gone), then the arrival
\* event: never for a mailbox that was just wiped or never synced before.
UpdateSyncState(t) ==
  /\ At(t, "cursor")
  /\ IF ~\E b \in boxes : b.id = Box(t).id
     THEN SkipBox(t, FALSE) /\ UNCHANGED <<boxes, arrivals>>
     ELSE /\ boxes' = {b \in boxes : b.id # Box(t).id} \cup {CursorRow(t)}
          /\ arrivals' = IF Box(t).last > 0 /\ ~task[t].wiped /\ Box(t).name = "INBOX"
                         THEN Announce(t) ELSE arrivals
          /\ Goto(t, "recent")
  /\ UNCHANGED <<server, account, rows, delivered, kept, verified, Steady>>

\* refreshFlags: the most recent local uids, their flags on the server, one
\* UPDATE per uid.
RecentMessageUIDs(t) ==
  LET recent == Highest(UidsOf(Box(t).id), FlagWindow) IN
  /\ At(t, "recent")
  /\ Step(t, [task[t] EXCEPT !.uids = recent, !.pc = IF recent = {} THEN "preview" ELSE "flags"])
  /\ UNCHANGED <<server, Local, History, Steady>>

UIDFetchFlags(t) ==
  LET found == {m \in server[Box(t).name].msgs : m.uid \in task[t].uids} IN
  /\ At(t, "flags")
  /\ IF Open(t, Box(t).name)
     THEN Step(t, [task[t] EXCEPT !.got = found, !.uids = {},
                                  !.pc = IF found = {} THEN "preview" ELSE "setflags"])
     ELSE SkipBox(t, TRUE)
  /\ UNCHANGED <<server, Local, History, Steady>>

WithFlags(b, u, f) == {IF r.box = b /\ r.uid = u THEN [r EXCEPT !.flags = f] ELSE r : r \in rows}

SetMessageFlags(t, m) ==
  /\ At(t, "setflags") /\ m \in task[t].got
  /\ rows' = WithFlags(Box(t).id, m.uid, m.flags)
  /\ Step(t, [task[t] EXCEPT !.got = @ \ {m}, !.pc = IF task[t].got = {m} THEN "preview" ELSE "setflags"])
  /\ UNCHANGED <<server, account, boxes, History, Steady>>

\* fetchPreviews: the body of each of the newest inserted messages, newest
\* first, then the UPDATE of its row; a failed fetch breaks the client and the
\* others fail with it.  With none left the mailbox is done.
FetchPreview(t) ==
  LET todo == Highest({m.uid : m \in task[t].new}, PreviewWindow) \ task[t].uids
      body == {m \in server[Box(t).name].msgs : m.uid = Max(todo)} IN
  /\ At(t, "preview")
  /\ IF todo = {} THEN Step(t, NextBox(t, FALSE))
     ELSE IF ~Open(t, Box(t).name) THEN SkipBox(t, TRUE)
     ELSE Step(t, [task[t] EXCEPT !.uids = @ \cup {Max(todo)}, !.got = body,
                                  !.pc = IF body = {} THEN "preview" ELSE "setpreview"])
  /\ UNCHANGED <<server, Local, History, Steady>>

SetMessagePreview(t) ==
  LET m == CHOOSE m \in task[t].got : TRUE IN
  /\ At(t, "setpreview")
  /\ rows' = {IF r.box = Box(t).id /\ r.uid = m.uid THEN [r EXCEPT !.preview = m.mail] ELSE r : r \in rows}
  /\ Step(t, [task[t] EXCEPT !.got = {}, !.pc = "preview"])
  /\ UNCHANGED <<server, account, boxes, History, Steady>>

SyncReturns(t) ==
  /\ At(t, "done") /\ task[t].op = "sync"
  /\ Ends(t)
  /\ UNCHANGED <<server, Local, History, Steady>>

-----------------------------------------------------------------------------
(* Live operations on one message (handler_messages.go, ops.go).           *)

\* resolveScope and the destination: the trash mailbox of a deletion, the
\* chosen mailbox of a move.  A deletion without another mailbox for the trash
\* destroys the message.
OpStart(t, op, r, dest, add, remove) ==
  /\ r \in rows
  /\ \E b \in boxes :
       /\ b.id = r.box /\ b.acct = account.id /\ account.id # 0
       /\ op = "move" => \E c \in boxes : c.acct = account.id /\ c.name = dest /\ c.id # b.id
       /\ LET trash == {c \in boxes : c.acct = account.id /\ c.name = Scene.trash /\ c.id # b.id}
              to == IF op = "move" THEN dest ELSE IF op = "delete" /\ trash # {} THEN Scene.trash ELSE "nowhere" IN
          /\ Start(t, op, [Idle EXCEPT !.pc = "select", !.acct = account.id, !.row = r, !.queue = <<b>>,
                                       !.dest = to, !.add = add, !.remove = remove])
          /\ kept' = IF (op = "delete" /\ to = "nowhere") \/ "Deleted" \in add THEN kept \ {r.mail} ELSE kept
  /\ UNCHANGED <<server, Local, arrivals, delivered, verified, scene>>

\* openSession: dial, LOGIN, SELECT.  The UIDVALIDITY of the answer is not
\* compared with that of the row.
Select(t) ==
  LET n == Box(t).name IN
  /\ At(t, "select")
  /\ IF ~OnServer(n) \/ n \in Scene.refused THEN Ends(t)
     ELSE Step(t, [task[t] EXCEPT !.val = server[n].validity,
                     !.pc = IF task[t].op = "read" THEN "body" ELSE IF task[t].op = "flag" THEN "add"
                            ELSE IF task[t].dest = "nowhere" THEN "mark" ELSE "copy"])
  /\ UNCHANGED <<server, Local, History, Steady>>

\* Detail: the body, then \Seen.
FetchRaw(t) ==
  /\ At(t, "body")
  /\ IF Open(t, Box(t).name) /\ \E m \in server[Box(t).name].msgs : m.uid = task[t].row.uid
     THEN IF task[t].add = {} THEN Ends(t) ELSE Goto(t, "add")
     ELSE Ends(t)
  /\ UNCHANGED <<server, Local, History, Steady>>

\* The server's mailbox with the flags of one uid changed; no such uid, no
\* effect and still OK.
Flagged(n, u, add, remove) ==
  [server EXCEPT ![n].msgs = {IF m.uid = u THEN [m EXCEPT !.flags = (@ \cup add) \ remove] ELSE m : m \in @}]

\* UID STORE +FLAGS, then UID STORE -FLAGS; an empty side is skipped.
UIDStore(t) ==
  LET n == Box(t).name
      pc == task[t].pc
      last == pc = "remove" \/ task[t].remove = {} IN
  /\ pc \in {"add", "remove"}
  /\ IF Open(t, n)
     THEN /\ server' = IF pc = "add" THEN Flagged(n, task[t].row.uid, task[t].add, {})
                       ELSE Flagged(n, task[t].row.uid, {}, task[t].remove)
          /\ Goto(t, IF last THEN "setrow" ELSE "remove")
     ELSE Ends(t) /\ UNCHANGED server
  /\ UNCHANGED <<Local, History, Steady>>

\* applyFlagDelta on the flags read at the start.
StoreRowFlags(t) ==
  /\ At(t, "setrow")
  /\ rows' = WithFlags(Box(t).id, task[t].row.uid, (task[t].row.flags \cup task[t].add) \ task[t].remove)
  /\ Ends(t)
  /\ UNCHANGED <<server, account, boxes, History, Steady>>

\* A message added to a mailbox of the server gets the next uid.
Put(n, mail, flags) ==
  [server EXCEPT ![n].next = @ + 1,
                 ![n].msgs = @ \cup {[uid |-> server[n].next, mail |-> mail, flags |-> flags]}]

\* Mutant: a refused COPY does not stop the removal.
UIDCopyUnchecked(t) ==
  LET found == {m \in server[Box(t).name].msgs : m.uid = task[t].row.uid} IN
  /\ At(t, "copy") /\ Open(t, Box(t).name)
  /\ server' = IF found = {} \/ ~OnServer(task[t].dest) THEN server
               ELSE LET m == CHOOSE m \in found : TRUE IN Put(task[t].dest, m.mail, m.flags)
  /\ Goto(t, "mark")
  /\ UNCHANGED <<Local, History, Steady>>

\* RemoveMessage: UID COPY is refused when the destination is gone, and copies
\* nothing when the message is.
UIDCopy(t) ==
  LET found == {m \in server[Box(t).name].msgs : m.uid = task[t].row.uid} IN
  /\ At(t, "copy")
  /\ IF ~Open(t, Box(t).name) \/ ~OnServer(task[t].dest)
     THEN Ends(t) /\ UNCHANGED server
     ELSE /\ found # {} => server[task[t].dest].next <= MaxUid
          /\ server' = IF found = {} THEN server
                       ELSE LET m == CHOOSE m \in found : TRUE IN Put(task[t].dest, m.mail, m.flags)
          /\ Goto(t, "mark")
  /\ UNCHANGED <<Local, History, Steady>>

MarkDeleted(t) ==
  /\ At(t, "mark")
  /\ IF Open(t, Box(t).name)
     THEN server' = Flagged(Box(t).name, task[t].row.uid, {"Deleted"}, {}) /\ Goto(t, "expunge")
     ELSE Ends(t) /\ UNCHANGED server
  /\ UNCHANGED <<Local, History, Steady>>

\* EXPUNGE removes whatever is marked \Deleted, whoever marked it.
Expunge(t) ==
  /\ At(t, "expunge")
  /\ IF Open(t, Box(t).name)
     THEN /\ server' = [server EXCEPT ![Box(t).name].msgs = {m \in @ : "Deleted" \notin m.flags}]
          /\ Goto(t, "delrow")
     ELSE Ends(t) /\ UNCHANGED server
  /\ UNCHANGED <<Local, History, Steady>>

DeleteMessage(t) ==
  /\ At(t, "delrow")
  /\ rows' = {r \in rows : r.id # task[t].row.id}
  /\ Ends(t)
  /\ UNCHANGED <<server, account, boxes, History, Steady>>

-----------------------------------------------------------------------------
(* Send.                                                                   *)

SendStart(t, m) ==
  /\ account.id # 0 /\ m \notin delivered /\ \A u \in Tasks : task[u].op = "send" => task[u].row.mail # m
  /\ Start(t, "send", [Idle EXCEPT !.pc = "smtp", !.acct = account.id, !.row.mail = m])
  /\ UNCHANGED <<server, Local, History, scene>>

\* sendSMTP: refused before or at RCPT, accepted, or accepted with the answer
\* to DATA lost, which is reported as a failure.
SendSMTP(t, accepted, answered) ==
  /\ At(t, "smtp")
  /\ delivered' = IF accepted THEN delivered \cup {task[t].row.mail} ELSE delivered
  /\ IF accepted /\ answered THEN Goto(t, "sentbox") ELSE Ends(t)
  /\ left' = IF answered THEN left ELSE [left EXCEPT !.faults = @ - 1]
  /\ answered \/ (accepted /\ left.faults > 0)
  /\ UNCHANGED <<server, Local, arrivals, kept, verified, scene>>

\* saveToSent: the synced mailbox with special use "sent", if there is one.
SentMailbox(t) ==
  /\ At(t, "sentbox")
  /\ IF \E b \in boxes : b.acct = task[t].acct /\ b.name = Scene.sent
     THEN Goto(t, "append") ELSE Ends(t)
  /\ UNCHANGED <<server, Local, History, Steady>>

AppendSent(t) ==
  /\ At(t, "append")
  /\ IF OnServer(Scene.sent)
     THEN /\ server[Scene.sent].next <= MaxUid
          /\ server' = Put(Scene.sent, task[t].row.mail, {"Seen"})
          /\ kept' = kept \cup {task[t].row.mail}
     ELSE UNCHANGED <<server, kept>>
  /\ Ends(t)
  /\ UNCHANGED <<Local, arrivals, delivered, verified, Steady>>

-----------------------------------------------------------------------------
(* Accounts (service.go).                                                  *)

Login(a) == <<a.ident, a.port, a.secret>>

\* Service.Update reads the row and applies the patch; identity, port or a
\* password make it verify, identity or a password make it seal again.  A
\* patch that says nothing leaves the account's field.
UpdateStart(t, patch) ==
  LET a == [account EXCEPT !.ident = IF patch.ident = {} THEN @ ELSE CHOOSE x \in patch.ident : TRUE,
                           !.port = IF patch.port = {} THEN @ ELSE CHOOSE x \in patch.port : TRUE,
                           !.secret = IF patch.secret = {} THEN @ ELSE CHOOSE x \in patch.secret : TRUE]
      rekey == patch.secret # {} \/ a.ident # account.ident
      verify == rekey \/ a.port # account.port
      opens == account.seal = account.ident IN
  /\ account.id # 0 /\ (verify => opens)
  /\ Start(t, "update", [Idle EXCEPT !.acct = account.id, !.rekey = rekey, !.acc = a,
                                     !.pc = IF verify THEN "verify" ELSE "write"])
  /\ UNCHANGED <<server, Local, History, scene>>

\* One account at a time; its id is one nobody has in hand.
CreateStart(t, a) ==
  /\ account.id = 0 /\ \A u \in Tasks : task[u].op # "create"
  /\ Start(t, "create", [Idle EXCEPT !.pc = "verify", !.rekey = TRUE,
       !.acc = [a EXCEPT !.id = Fresh({0} \cup {b.acct : b \in boxes} \cup {task[u].acct : u \in Tasks})]])
  /\ UNCHANGED <<server, Local, History, scene>>

\* Verify: LOGIN with the effective values, or an error and nothing stored.
Verify(t, works) ==
  /\ At(t, "verify")
  /\ verified' = IF works THEN verified \cup {Login(task[t].acc)} ELSE verified
  /\ IF works THEN Goto(t, "write") ELSE Ends(t)
  /\ UNCHANGED <<server, Local, arrivals, delivered, kept, Steady>>

\* The row a request is about to store, sealed under its identity when the
\* identity or a password has changed.
Sealed(t) == IF task[t].rekey THEN [task[t].acc EXCEPT !.seal = task[t].acc.ident] ELSE task[t].acc

\* INSERT, or UPDATE of every mutable column of the row that was read; the
\* row may be gone.
StoreAccount(t) ==
  /\ At(t, "write")
  /\ account' = IF task[t].op = "create" \/ account.id = task[t].acct THEN Sealed(t) ELSE account
  /\ Ends(t)
  /\ UNCHANGED <<server, boxes, rows, History, Steady>>

\* deleteAccountCascade, one transaction.
DeleteAccount ==
  LET gone == {b.id : b \in {b \in boxes : b.acct = account.id}} IN
  /\ account.id # 0 /\ "drop" \in Scene.ops /\ left.requests > 0
  /\ rows' = {r \in rows : r.box \notin gone}
  /\ boxes' = {b \in boxes : b.id \notin gone}
  /\ account' = NoAccount
  /\ left' = [left EXCEPT !.requests = @ - 1]
  /\ task' = [u \in Tasks |-> [task[u] EXCEPT !.calm = FALSE]]
  /\ UNCHANGED <<server, History, scene>>

-----------------------------------------------------------------------------
(* The server's other clients, and faults.                                 *)

Event(e) ==
  /\ e \in Scene.events /\ left.events > 0
  /\ left' = [left EXCEPT !.events = @ - 1]
  /\ task' = [u \in Tasks |-> [task[u] EXCEPT !.calm = FALSE]]
  /\ UNCHANGED <<Local, arrivals, delivered, verified, scene>>

Contents(n) == {m.mail : m \in server[n].msgs}
Unused == {m \in Mails \ Scene.outgoing : /\ \A n \in Names : m \notin Contents(n)
                                          /\ \A r \in rows : r.mail # m}

Deliver(m) ==
  /\ Event("deliver") /\ m \in Unused /\ server["INBOX"].next <= MaxUid
  /\ server' = Put("INBOX", m, {})
  /\ kept' = kept \cup {m}

OtherExpunges(n, m) ==
  /\ Event("expunge") /\ m \in server[n].msgs
  /\ server' = [server EXCEPT ![n].msgs = @ \ {m}]
  /\ kept' = kept \ {m.mail}

OtherFlags(n, m) ==
  /\ Event("flag") /\ m \in server[n].msgs /\ "Seen" \notin m.flags
  /\ server' = Flagged(n, m.uid, {"Seen"}, {})
  /\ UNCHANGED kept

RemoveBox ==
  /\ Event("remove") /\ OnServer("Other")
  /\ kept' = kept \ Contents("Other")
  /\ server' = [server EXCEPT !["Other"].validity = 0, !["Other"].next = 1, !["Other"].msgs = {}]

MakeBox ==
  /\ Event("make") /\ ~OnServer("Other") /\ server["Other"].born < MaxValidity
  /\ server' = [server EXCEPT !["Other"].validity = server["Other"].born + 1, !["Other"].born = @ + 1]
  /\ UNCHANGED kept

\* The mailbox gets a new UIDVALIDITY and its messages new uids from 1.
Renumber(n) ==
  LET msgs == server[n].msgs
      rank(m) == 1 + Cardinality({k \in msgs : k.uid < m.uid}) IN
  /\ Event("renumber") /\ OnServer(n) /\ server[n].born < MaxValidity
  /\ server' = [server EXCEPT ![n] = [validity |-> server[n].born + 1, born |-> server[n].born + 1,
                                      next |-> 1 + Cardinality(msgs),
                                      msgs |-> {[m EXCEPT !.uid = rank(m)] : m \in msgs}]]
  /\ UNCHANGED kept

\* A store or IMAP call fails, or the deadline of the job or request passes.
\* Inside syncMailbox only this mailbox is given up; an IMAP failure breaks
\* the client as well.
Fails(t, broken) ==
  /\ left.faults > 0 /\ task[t].pc \notin {"idle", "done"}
  /\ IF task[t].op = "sync" /\ task[t].pc \notin {"list", "local", "update", "insert", "reread", "drop"}
     THEN SkipBox(t, broken) ELSE ~broken /\ Ends(t)
  /\ left' = [left EXCEPT !.faults = @ - 1]
  /\ UNCHANGED <<server, Local, History, scene>>

Patches == [ident : {{}, {"a"}, {"b"}}, port : {{}, {1}, {2}}, secret : {{}, {"p"}, {"q"}}]

Sync(t) ==
  \/ SyncStart(t) \/ List(t) \/ ListMailboxes(t) \/ UpsertUpdate(t) \/ UpsertInsert(t) \/ UpsertRead(t)
  \/ DeleteMailboxes(t) \/ Examine(t) \/ DeleteAllMessages(t) \/ UIDSearchAll(t) \/ DiffUIDs(t)
  \/ DeleteMessagesByUID(t) \/ UIDFetchSummaries(t) \/ InsertMessages(t) \/ UpdateSyncState(t)
  \/ RecentMessageUIDs(t) \/ UIDFetchFlags(t) \/ FetchPreview(t) \/ SetMessagePreview(t) \/ SyncReturns(t)
  \/ \E m \in task[t].got : SetMessageFlags(t, m)

Operate(t) ==
  \/ \E r \in rows : \/ OpStart(t, "delete", r, "nowhere", {}, {})
                     \/ \E n \in Names : OpStart(t, "move", r, n, {}, {})
                     \/ \E seen \in SUBSET {"Seen"} : OpStart(t, "read", r, "nowhere", seen, {})
                     \/ \E f \in Flags : \/ OpStart(t, "flag", r, "nowhere", {f}, Flags \ {f})
                                         \/ OpStart(t, "flag", r, "nowhere", {}, {f})
  \/ Select(t) \/ FetchRaw(t) \/ UIDStore(t) \/ StoreRowFlags(t) \/ UIDCopy(t) \/ MarkDeleted(t)
  \/ Expunge(t) \/ DeleteMessage(t)

Next ==
  \/ \E t \in Tasks :
       \/ Sync(t) \/ Operate(t)
       \/ \E m \in Scene.outgoing : SendStart(t, m)
       \/ \E yes, answered \in BOOLEAN : SendSMTP(t, yes, answered)
       \/ SentMailbox(t) \/ AppendSent(t)
       \/ "update" \in Scene.ops /\ At(t, "idle") /\ \E p \in Patches : UpdateStart(t, p)
       \/ \E a \in {[NoAccount EXCEPT !.ident = i] : i \in Ident} : CreateStart(t, a)
       \/ \E works \in BOOLEAN : Verify(t, works)
       \/ StoreAccount(t)
       \/ \E broken \in BOOLEAN : Fails(t, broken)
  \/ DeleteAccount
  \/ \E m \in Unused : Deliver(m)
  \/ \E n \in Names : \/ \E m \in server[n].msgs : OtherExpunges(n, m) \/ OtherFlags(n, m)
                      \/ Renumber(n)
  \/ RemoveBox \/ MakeBox

Spec == Init /\ [][Next]_vars

-----------------------------------------------------------------------------
(* Properties.                                                             *)

\* The local copy of mailbox n is what the server has: the same uid space,
\* only messages that exist, with their contents and, for the most recent
\* ones, their flags, and all of them up to the cap of one run.
Mirrored(n) ==
  LET mine == {b \in boxes : b.acct = account.id /\ b.name = n} IN
  IF ~OnServer(n) THEN mine = {}
  ELSE \E b \in mine :
    LET copy == {r \in rows : r.box = b.id} IN
    /\ b.validity = server[n].validity
    /\ \A r \in copy : \E m \in server[n].msgs :
         /\ r.uid = m.uid /\ r.mail = m.mail /\ r.preview \in {NoMail, m.mail}
         /\ r.uid \in Highest(UidsOf(b.id), FlagWindow) => r.flags = m.flags
    /\ Cardinality(copy) < MaxNew => {m.uid : m \in server[n].msgs} = UidsOf(b.id)

Renumbers == {"make", "renumber"} \cap Scene.events # {}

\* A sync that ran alone leaves an exact copy, whatever overlapping syncs,
\* live operations, failures and account changes left before it.  Stated for
\* servers that do not start a new uid space while syncs overlap.
Repaired ==
  (Scene.refused = {} /\ (Renumbers => Scene.width = 1)) =>
    \A t \in Tasks : At(t, "done") /\ task[t].calm => \A n \in Names : Mirrored(n)

\* A message is announced once, also when the server renumbers its mailbox:
\* the wipe suppresses the event.  Stated for mailboxes that fit into one run
\* and syncs that do not overlap.
AnnouncedOnce ==
  (Scene.width = 1 /\ MaxUid <= MaxNew /\ "move" \notin Scene.ops) => \A m \in Mails : arrivals[m] <= 1

\* A content nobody asked to destroy is on the server: delete and move copy
\* before they expunge and stop when the copy is refused, whoever else moves,
\* flags or syncs the message meanwhile.
NoMailLost ==
  (Scene.ops \cap {"flag", "delete", "move"} # {} => ~Renumbers) => kept \subseteq UNION {Contents(n) : n \in Names}

\* The Sent mailbox holds only messages the SMTP server accepted.
SavedWasSent == \A n \in Names : Contents(n) \cap Scene.outgoing \subseteq delivered

\* The stored account can be used: its credentials open under its identity,
\* and LOGIN succeeded with exactly this identity, port and password, though
\* updates overlap.
AccountUsable == account.id # 0 => account.seal = account.ident /\ Login(account) \in verified

\* The mail account is sound: the variables have their types, syncs repair
\* the copy and announce once, no mail is lost, only sent mail is saved as
\* sent, and the stored credentials work.
MailSound == TypeOK /\ Repaired /\ AnnouncedOnce /\ NoMailLost /\ SavedWasSent /\ AccountUsable
=============================================================================
