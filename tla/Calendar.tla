------------------------------ MODULE Calendar ------------------------------
(***************************************************************************)
(* internal/calendar and internal/contacts: the default calendars and      *)
(* address books of three users, the share of one user's collection with   *)
(* another, the delivery of invitations, replies and cancellations between *)
(* local users, change tags, and free-busy answers.                        *)
(*                                                                         *)
(* A request is a sequence of SQL statements without a transaction; what   *)
(* it has read stays in its record and may be stale when it writes.        *)
(*                                                                         *)
(* "org" organizes the event and owns the shared collections, "att" and    *)
(* "guest" are invited; "guest" is also the one org shares with.  All      *)
(* objects of the model have one UID, which is also the name "e.ics".      *)
(***************************************************************************)
EXTENDS Integers, Sequences, FiniteSets, SequencesExt

CONSTANTS
  Stages,        \* situations by name: which requests occur
  Reqs,          \* slots, numbered, for requests in flight at the same time
  NoReq,         \* nothing stored, nothing read
  Diaries,       \* calendars asked for busy time: sets of events
  MaxOccur       \* maxFreeBusyOccurrences (1000 in the code)

People == {"org", "att", "guest"}
Invited == {"att", "guest"}
Kinds == {"cal", "book"}
Hrefs == {"e.ics", "f.ics"}
Target == People \X Kinds \X {"own", "shared"} \X Hrefs

ASSUME CalendarAssumption ==
  /\ MaxOccur \in Nat \ {0} /\ Reqs \subseteq Nat
  /\ \A n \in DOMAIN Stages : LET s == Stages[n] IN
                       /\ s.puts \cup s.deletes \subseteq Target
                       /\ s.reader \in Kinds \X People
                       /\ {s.requests, s.width, s.faults, s.reads} \subseteq Nat

VARIABLES
  stage,      \* the name of the situation of this behaviour; it never changes
  cols,       \* the default collection of each user, by kind
  extra,      \* users that have another collection of the kind too
  share,      \* guest's access to org's collection, by kind
  req,        \* requests in flight
  reader,     \* a client that keeps a copy of a collection by its change tag
  given,      \* kinds in which guest ever had write access
  stamp,      \* source of versions, row ids and collection ids
  spoilt,     \* what happened that weakens a promise
  budget,     \* requests, reads and failures left
  diary       \* the events a free-busy query looks at

calVars == <<stage, cols, extra, share, req, reader, given, stamp, spoilt, budget, diary>>
steady == <<stage, diary>>
Stage == Stages[stage]

\* An object: the version of the event, each invitee's answer, who put it
\* there, and its row id.
NoAnswer == [p \in Invited |-> "open"]
Content == [ver : Nat, answers : [Invited -> {"open", "accepted"}], by : People, born : Nat]
Collection == [id : Nat, tag : Nat, objs : [Hrefs -> Content \cup {NoReq}]]
NewCollection(id) == [id |-> id, tag |-> 1, objs |-> [h \in Hrefs |-> NoReq]]

\* A request: `at' and `href' are where it writes now, `todo' whose copies
\* are still to follow, `alone' while no other request has been in flight.
Quiet0 == [op |-> "none", kind |-> "cal", who |-> "org", own |-> TRUE, at |-> "org", href |-> "e.ics",
           data |-> NoReq, read |-> NoReq, id |-> 0, pc |-> "idle", todo |-> <<>>, alone |-> TRUE]

Exists(k, p) == cols[k][p] # NoReq
GetObject(k, p, h) == IF Exists(k, p) THEN cols[k][p].objs[h] ELSE NoReq

(* The first row with the UID, in the order of insertion.                   *)
GetByUID(k, p) ==
  LET found == {h \in Hrefs : GetObject(k, p, h) # NoReq}
  IN IF found = {} THEN NoReq
     ELSE CHOOSE h \in found : \A g \in found : cols[k][p].objs[h].born <= cols[k][p].objs[g].born
ByUID(k, p) == LET h == GetByUID(k, p) IN IF h = NoReq THEN NoReq ELSE cols[k][p].objs[h]

Active == {r \in Reqs : req[r].op # "none"}
Becomes(r, f) == req' = [req EXCEPT ![r] = f]
Goes(r, pc) == Becomes(r, [req[r] EXCEPT !.pc = pc])
Disturbed == [r \in Reqs |-> IF r \in Active THEN [req[r] EXCEPT !.alone = FALSE] ELSE req[r]]
Enters(r, f) ==
  /\ req[r].op = "none" /\ r <= Stage.width /\ \A q \in Reqs : q < r => q \in Active
  /\ req' = [Disturbed EXCEPT ![r] = [f EXCEPT !.alone = Active = {}]]
  /\ spoilt' = [spoilt EXCEPT !.broken = @ \/ (f.kind = "cal" /\ Active # {})]
Spend(what) == budget[what] > 0 /\ budget' = [budget EXCEPT ![what] = @ - 1]
SetObj(k, p, h, o) == cols' = [cols EXCEPT ![k][p].objs[h] = o]
Breaks(b) == spoilt' = [spoilt EXCEPT !.broken = @ \/ b]

(* The request ends. Whatever it wrote stays.                               *)
Finish(r) == Becomes(r, Quiet0)

-----------------------------------------------------------------------------
(* Requests begin.                                                         *)

(* An invitee's answer in a copy of the event.                              *)
UpdatePartstat(data, p, answer) == [data EXCEPT !.answers[p] = answer]

(* Whose copies follow a write to one's own calendar: the invitees' after   *)
(* the organizer's, the organizer's after an invitee's.                     *)
ScheduleWrite(p) == IF p = "org" THEN <<"att", "guest">> ELSE <<"org">>

(* PUT with If-Match, or with If-None-Match for a new object: the condition *)
(* is evaluated against a Stat, before Write begins. The organizer changes  *)
(* the event; an invitee answers in its own copy, or imports the event from *)
(* the invitation with its answer.                                          *)
WriteCond(r, p, k, whose, h) ==
  LET own == whose = "own"
      at == IF own THEN p ELSE "org"
      cur == GetObject(k, at, h)
      answer == k = "cal" /\ own /\ p # "org"
      base == IF cur = NoReq /\ answer THEN ByUID("cal", "org") ELSE cur
  IN /\ Spend("requests")
     /\ answer => base # NoReq
     /\ Enters(r, [Quiet0 EXCEPT !.op = "put", !.kind = k, !.who = p, !.own = own, !.at = at, !.href = h,
          !.pc = "resolve",
          !.todo = IF k = "cal" /\ own THEN ScheduleWrite(p) ELSE <<>>,
          !.data = IF answer THEN [UpdatePartstat(base, p, "accepted") EXCEPT !.by = p]
                   ELSE [ver |-> stamp + 1, by |-> p, born |-> 0,
                         answers |-> IF cur = NoReq THEN NoAnswer ELSE cur.answers]])
     /\ stamp' = stamp + 1
     /\ UNCHANGED <<cols, extra, share, reader, given, steady>>

PutEvent(r) == \E t \in Stage.puts : t[2] = "cal" /\ t[3] = "own" /\ WriteCond(r, t[1], "cal", "own", t[4])
PutCard(r) == \E t \in Stage.puts : t[2] = "book" /\ t[3] = "own" /\ WriteCond(r, t[1], "book", "own", t[4])
PutShared(r) == \E t \in Stage.puts : t[3] = "shared" /\ WriteCond(r, "guest", t[2], "shared", t[4])

RemoveObj(r, k) ==
  \E t \in Stage.deletes :
    /\ t[2] = k /\ Spend("requests")
    /\ Enters(r, [Quiet0 EXCEPT !.op = "delete", !.who = t[1], !.kind = t[2], !.own = t[3] = "own", !.href = t[4],
                                 !.at = IF t[3] = "own" THEN t[1] ELSE "org", !.pc = "resolve",
                                 !.todo = IF t[2] = "cal" /\ t[3] = "own" /\ t[1] = "org" THEN <<"att", "guest">> ELSE <<>>])
    /\ UNCHANGED <<cols, extra, share, reader, given, stamp, steady>>
RemoveEvent(r) == RemoveObj(r, "cal")
RemoveCard(r) == RemoveObj(r, "book")

(* EnsureHome: a user without any collection gets the default one. Here the *)
(* listing and the insertion are one step; two at once collide on the       *)
(* unique URI and one of the requests fails.                                *)
EnsureHome(k, p) ==
  IF Exists(k, p) \/ <<k, p>> \in extra THEN UNCHANGED <<cols, stamp>>
  ELSE cols' = [cols EXCEPT ![k][p] = NewCollection(stamp + 1)] /\ stamp' = stamp + 1
EnsureBook(p) == EnsureHome("book", p)

AnyAccess(r) == req[r].own \/ share[req[r].kind] # "none"

(* A shared collection is writable with read-write access only.             *)
MayWrite(r) == req[r].own \/ share[req[r].kind] = "rw"

(* resolveUser and resolveCalendar, with the access check of Write and      *)
(* Remove.                                                                  *)
Resolve(r, k) ==
  /\ req[r].pc = "resolve" /\ req[r].kind = k
  /\ IF req[r].kind = "cal" THEN EnsureHome("cal", req[r].who) ELSE EnsureBook(req[r].who)
  /\ IF MayWrite(r) THEN Goes(r, IF req[r].op = "put" THEN "check" ELSE "cancel") ELSE Finish(r)
  /\ UNCHANGED <<extra, share, reader, given, spoilt, budget, steady>>
ResolveCalendar(r) == Resolve(r, "cal")
ResolveBook(r) == Resolve(r, "book")

-----------------------------------------------------------------------------
(* PutObject.                                                              *)

NoUidCheck(r) == FALSE

(* The UID is stored under another name in the collection.                  *)
UidTaken(r) ==
  LET h == GetByUID(req[r].kind, req[r].at) IN h # NoReq /\ h # req[r].href

(* Another PUT into the collection is between its reads and its row.        *)
Crossing(r) ==
  \E q \in Active \ {r} : req[q].pc = "row" /\ req[q].kind = req[r].kind /\ req[q].at = req[r].at

(* The reads of PutObject: the collection, the UID, the current row.        *)
PutReads(r, k) ==
  LET q == req[r]
      refused == ~Exists(k, q.at) \/ UidTaken(r)
  IN /\ q.pc = "check" /\ q.kind = k
     /\ IF refused THEN Finish(r)
        ELSE Becomes(r, [q EXCEPT !.pc = "row", !.read = cols[k][q.at].objs[q.href], !.id = cols[k][q.at].id])
     /\ spoilt' = [spoilt EXCEPT !.crossed = @ \/ Crossing(r),
                                 !.broken = @ \/ (q.at # q.who /\ ~Exists(k, q.at))]
     /\ UNCHANGED <<cols, extra, share, reader, given, stamp, budget, steady>>

(* The collection the request read is still there, and so is the row.       *)
SameCollection(r) == Exists(req[r].kind, req[r].at) /\ cols[req[r].kind][req[r].at].id = req[r].id
SameRow(r) ==
  LET cur == GetObject(req[r].kind, req[r].at, req[r].href) IN cur # NoReq /\ cur.born = req[r].read.born

(* INSERT, refused when the name is taken or the collection gone, or UPDATE *)
(* by row id, which changes nothing when the row is gone.                   *)
PutRow(r, k) ==
  LET q == req[r]
      fits == SameCollection(r) /\ (IF q.read = NoReq THEN GetObject(k, q.at, q.href) = NoReq ELSE SameRow(r))
      born == IF q.read = NoReq THEN stamp + 1 ELSE q.read.born
  IN /\ q.pc = "row" /\ q.kind = k
     /\ IF fits THEN SetObj(k, q.at, q.href, [q.data EXCEPT !.born = born]) ELSE UNCHANGED cols
     /\ IF fits \/ q.read # NoReq THEN Goes(r, "bump") ELSE Finish(r)
     /\ stamp' = IF q.read = NoReq THEN stamp + 1 ELSE stamp
     /\ Breaks(k = "cal" /\ ~q.own)
     /\ UNCHANGED <<extra, share, reader, given, budget, steady>>

Bump(k, p, id) ==
  cols' = IF Exists(k, p) /\ cols[k][p].id = id THEN [cols EXCEPT ![k][p].tag = @ + 1] ELSE cols

BumpNew(r, k) ==
  LET q == req[r] IN
  /\ q.pc = "bump" /\ q.kind = k
  /\ IF q.read = NoReq THEN Bump(k, q.at, q.id) ELSE UNCHANGED cols
  /\ Goes(r, "next") /\ spoilt' = [spoilt EXCEPT !.untold = @ \ {q.id}]
  /\ UNCHANGED <<extra, share, reader, given, stamp, budget, steady>>

(* bumpCTag and the read back of the object, which fails when the object    *)
(* has been deleted meanwhile.                                              *)
BumpCTag(r, k) ==
  LET q == req[r] IN
  /\ q.pc = "bump" /\ q.kind = k
  /\ Bump(k, q.at, q.id)
  /\ IF GetObject(k, q.at, q.href) = NoReq
     THEN Finish(r) ELSE Goes(r, "next")
  /\ spoilt' = [spoilt EXCEPT !.untold = @ \ {q.id}]
  /\ UNCHANGED <<extra, share, reader, given, stamp, budget, steady>>

PutObject(r) == PutReads(r, "cal") \/ PutRow(r, "cal") \/ BumpCTag(r, "cal")
PutCardObject(r) == PutReads(r, "book") \/ PutRow(r, "book") \/ BumpCTag(r, "book")

-----------------------------------------------------------------------------
(* Scheduling, for writes to one's own calendar.                           *)

InviteAnew(p) == "e.ics"

(* The name a copy goes under: the one the event has there, or the UID's.   *)
InviteUnder(p) == LET h == GetByUID("cal", p) IN IF h = NoReq THEN "e.ics" ELSE h

(* deliverInvites, for the next invitee: its home is ensured, and the copy  *)
(* is put into its default calendar; without one the organizer's request    *)
(* fails, and the invitees after it get nothing.                            *)
DeliverInvites(r) ==
  LET q == req[r] p == Head(q.todo) IN
  /\ q.pc = "next" /\ q.todo # <<>> /\ q.who = "org"
  /\ EnsureHome("cal", p)
  /\ Becomes(r, [q EXCEPT !.at = p, !.href = InviteUnder(p), !.pc = "check", !.todo = Tail(@)])
  /\ UNCHANGED <<extra, share, reader, given, spoilt, budget, steady>>

(* applyReply: the answer is written into the organizer's copy as read now. *)
(* Without such a copy, or with the answer already there, nothing happens.  *)
ApplyReply(r) ==
  LET q == req[r]
      old == ByUID("cal", "org")
      answer == q.data.answers[q.who]
  IN /\ q.pc = "next" /\ q.todo # <<>> /\ q.who # "org"
     /\ IF old = NoReq THEN Finish(r)
        ELSE IF old.answers[q.who] = answer THEN Finish(r)
        ELSE Becomes(r, [q EXCEPT !.at = "org", !.href = GetByUID("cal", "org"), !.pc = "check", !.todo = <<>>,
                                  !.data = UpdatePartstat(old, q.who, answer)])
     /\ UNCHANGED <<cols, extra, share, reader, given, stamp, spoilt, budget, steady>>

(* The end of a PUT. One of the organizer's that met nobody else has put    *)
(* right whatever went wrong before.                                        *)
PutDone(r) ==
  LET q == req[r] IN
  /\ q.pc = "next" /\ q.todo = <<>>
  /\ Finish(r)
  /\ spoilt' = [spoilt EXCEPT !.broken = @ /\ ~(q.kind = "cal" /\ q.own /\ q.who = "org" /\ q.alone)]
  /\ UNCHANGED <<cols, extra, share, reader, given, stamp, budget, steady>>

(* scheduleCancel: without an object there is nothing to cancel, and the    *)
(* deletion reports it; else the copies of the invitees go, one after the   *)
(* other, before the organizer's. A copy that is not there is passed over.  *)
ScheduleCancel(r) ==
  LET q == req[r] IN
  /\ q.pc = "cancel"
  /\ IF q.todo # <<>> /\ GetObject("cal", "org", q.href) # NoReq
     THEN Goes(r, "invitee") ELSE Becomes(r, [q EXCEPT !.pc = "delrow", !.todo = <<>>])
  /\ UNCHANGED <<cols, extra, share, reader, given, stamp, spoilt, budget, steady>>

\* The deletion of the object h of p, for a request that goes on at pc, and
\* its change tag.
Deletes(r, p, h, pc) ==
  LET q == req[r] IN
  /\ cols' = [cols EXCEPT ![q.kind][p].objs[h] = NoReq]
  /\ Becomes(r, [q EXCEPT !.at = p, !.id = cols[q.kind][p].id, !.pc = pc])

SkipAll(r) == Becomes(r, [req[r] EXCEPT !.pc = "delrow", !.todo = <<>>])

(* cancelInvites, for the next invitee.                                     *)
CancelInvite(r) ==
  LET q == req[r] p == Head(q.todo) h == GetByUID("cal", p) IN
  /\ q.pc = "invitee"
  /\ IF q.todo = <<>> THEN Goes(r, "delrow") /\ UNCHANGED cols
     ELSE IF h = NoReq THEN Becomes(r, [q EXCEPT !.todo = Tail(@)]) /\ UNCHANGED cols
     ELSE Deletes(r, p, h, "delbump")
  /\ UNCHANGED <<extra, share, reader, given, stamp, spoilt, budget, steady>>

(* The DELETE of DeleteObject; a missing object ends the request.           *)
DeleteRow(r, k) ==
  LET q == req[r]
      p == IF q.own THEN q.who ELSE "org"
  IN /\ q.pc = "delrow" /\ q.kind = k
     /\ IF GetObject(k, p, q.href) = NoReq THEN Finish(r) /\ UNCHANGED cols
        ELSE Deletes(r, p, q.href, "lastbump")
     /\ Breaks(k = "cal" /\ ~q.own)
     /\ UNCHANGED <<extra, share, reader, given, stamp, budget, steady>>

DeleteBump(r, k) ==
  LET q == req[r] IN
  /\ q.pc \in {"delbump", "lastbump"} /\ q.kind = k
  /\ Bump(k, q.at, q.id)
  /\ spoilt' = [spoilt EXCEPT !.untold = @ \ {q.id}]
  /\ IF q.pc = "lastbump" THEN Finish(r) ELSE Becomes(r, [q EXCEPT !.pc = "invitee", !.todo = Tail(@)])
  /\ UNCHANGED <<extra, share, reader, given, stamp, budget, steady>>

DeleteObject(r) == DeleteRow(r, "cal") \/ DeleteBump(r, "cal")
DeleteCardObject(r) == DeleteRow(r, "book") \/ DeleteBump(r, "book")

(* A statement fails, and with it the request.                              *)
StatementFails(r) ==
  LET q == req[r] IN
  /\ r \in Active /\ Spend("faults")
  /\ Finish(r)
  /\ spoilt' = [spoilt EXCEPT !.broken = @ \/ q.kind = "cal",
                              !.untold = IF q.pc \in {"bump", "delbump", "lastbump"} THEN @ \cup {q.id} ELSE @]
  /\ UNCHANGED <<cols, extra, share, reader, given, stamp, steady>>

-----------------------------------------------------------------------------
(* Collections and shares.                                                 *)

(* MKCALENDAR or MKCOL of a collection beside the default one.              *)
MkCollection(k, p) ==
  /\ "make" \in Stage.ops /\ Spend("requests") /\ <<k, p>> \notin extra
  /\ extra' = extra \cup {<<k, p>>}
  /\ UNCHANGED <<cols, share, req, reader, given, stamp, spoilt, steady>>
MkCalendar == \E p \in People : MkCollection("cal", p)
MkBook == \E p \in People : MkCollection("book", p)

(* DELETE of one's own default collection takes its objects and shares      *)
(* along; nobody is told about the events.                                  *)
DropCollection(k, p) ==
  /\ "drop" \in Stage.ops /\ Exists(k, p) /\ Spend("requests")
  /\ cols' = [cols EXCEPT ![k][p] = NoReq]
  /\ share' = [share EXCEPT ![k] = IF p = "org" THEN "none" ELSE @]
  /\ Breaks(k = "cal" /\ (p = "org" \/ Active # {}))
  /\ req' = Disturbed
  /\ UNCHANGED <<extra, reader, given, stamp, steady>>
DeleteCalendar == \E p \in People : DropCollection("cal", p)
DeleteBook == \E p \in People : DropCollection("book", p)

(* cs:share on org's own collection: UPDATE or INSERT of guest's row, or    *)
(* its DELETE.                                                              *)
SetShare(k, access) ==
  /\ "share" \in Stage.ops /\ Exists(k, "org") /\ Spend("requests") /\ share[k] # access
  /\ share' = [share EXCEPT ![k] = access]
  /\ given' = IF access = "rw" THEN given \cup {k} ELSE given
  /\ UNCHANGED <<cols, extra, req, reader, stamp, spoilt, steady>>
UpsertUnchecked == \E a \in {"read", "rw", "all"} : SetShare("cal", a)
UpsertCalendarShare == \E a \in {"read", "rw"} : SetShare("cal", a)
DeleteCalendarShare == SetShare("cal", "none")
UpsertBookShare == \E a \in {"read", "rw"} : SetShare("book", a)
DeleteBookShare == SetShare("book", "none")
ShareCalendar == UpsertCalendarShare \/ DeleteCalendarShare
ShareBook == UpsertBookShare \/ DeleteBookShare

-----------------------------------------------------------------------------
(* A client that keeps a copy of a collection: PROPFIND of the change tag,  *)
(* then either a query for all objects, or a listing of their names and a   *)
(* multiget of those.                                                       *)

Watched == cols[Stage.reader[1]][Stage.reader[2]]
Data(o) == IF o = NoReq THEN NoReq ELSE <<o.ver, o.answers>>
Listing(c, hrefs) == [h \in Hrefs |-> IF h \in hrefs THEN Data(c.objs[h]) ELSE NoReq]
ReaderAt(k, pc) == Stage.reader[1] = k /\ reader.pc = pc
Reads == UNCHANGED <<cols, extra, share, req, given, stamp, spoilt, steady>>

StatCTag(k) ==
  /\ ReaderAt(k, "none") \/ ReaderAt(k, "synced")
  /\ Watched # NoReq /\ Spend("reads")
  /\ reader' = [reader EXCEPT !.pc = "list", !.id = Watched.id, !.tag = Watched.tag]
  /\ Reads

(* A collection that is gone makes the client give up.                      *)
Learns(f) == reader' = IF Watched = NoReq THEN [reader EXCEPT !.pc = "none"] ELSE f

ListObjects(k) ==
  /\ ReaderAt(k, "list")
  /\ Learns([reader EXCEPT !.pc = "fetch", !.hrefs = {h \in Hrefs : Watched.objs[h] # NoReq}])
  /\ Reads /\ UNCHANGED budget

Multiget(k) ==
  /\ ReaderAt(k, "fetch")
  /\ Learns([reader EXCEPT !.pc = "synced", !.copy = Listing(Watched, reader.hrefs), !.hrefs = {}])
  /\ Reads /\ UNCHANGED budget

Query(k) ==
  /\ ReaderAt(k, "list")
  /\ Learns([reader EXCEPT !.pc = "synced", !.copy = Listing(Watched, Hrefs)])
  /\ Reads /\ UNCHANGED budget

StatBook == StatCTag("book")
ListBook == ListObjects("book")
MultigetCards == Multiget("book")
QueryCards == Query("book")

-----------------------------------------------------------------------------
(* Free-busy queries, over [WinStart, WinEnd).                              *)

WinStart == 3
WinEnd == 6
Forever == 99    \* RecurUntilMS

(* The RRULE of an event: step 0 is no rule, count 0 and until 0 no limit.  *)
ParseRRule(e) == [step |-> e.step, count |-> e.count, until |-> e.until]

(* parseICS: an event's first and last occurrence, its duration and rule.   *)
ParsedEvent(e) ==
  [first |-> e.start, last |-> IF e.step > 0 THEN Forever ELSE e.end, dur |-> e.end - e.start,
   rule |-> ParseRRule(e), transparent |-> e.transparent]

StepFreq(t, rule, i) == t + i * rule.step

(* ObjectsInRange: the rows whose first and last occurrence meet the window *)
ObjectsInRange(evs) == {e \in evs : ParsedEvent(e).first < WinEnd /\ ParsedEvent(e).last >= WinStart}

ClipStart(s, e) == s < WinEnd /\ s >= WinStart

(* The occurrence [s, e) meets the window.                                  *)
Clip(s, e) == s < WinEnd /\ e > WinStart

(* expandBusy: the occurrences from the i-th on, one loop iteration each.   *)
ExpandBusy(ev) ==
  LET dur == IF ev.dur < 0 THEN 0 ELSE ev.dur
      r == ev.rule
      iv(s) == IF Clip(s, s + dur) THEN <<<<s, s + dur>>>> ELSE <<>>
      from[i \in 0 .. MaxOccur] ==
        LET t == StepFreq(ev.first, r, i) IN
        IF i = MaxOccur \/ (r.count > 0 /\ i >= r.count) \/ (r.until # 0 /\ t > r.until) \/ t >= WinEnd
        THEN <<>> ELSE iv(t) \o from[i + 1]
  IN IF r.step = 0 THEN iv(ev.first) ELSE from[0]

(* mergeBusy: sorted by start, overlapping or adjacent intervals joined.    *)
MergeBusy(ivs) ==
  LET join(out, iv) ==
        LET last == out[Len(out)] IN
        IF out # <<>> /\ iv[1] <= last[2]
        THEN [out EXCEPT ![Len(out)] = <<last[1], IF iv[2] > last[2] THEN iv[2] ELSE last[2]>>]
        ELSE Append(out, iv)
  IN FoldLeft(join, <<>>, SortSeq(ivs, LAMBDA a, b : a[1] < b[1]))

(* FreeBusy of one calendar: the opaque events in range, expanded, merged.  *)
FreeBusy(evs) ==
  LET opaque == {e \in ObjectsInRange(evs) : ~e.transparent}
  IN MergeBusy(FlattenSeq([i \in 1 .. Cardinality(opaque) |-> ExpandBusy(ParsedEvent(SetToSeq(opaque)[i]))]))

-----------------------------------------------------------------------------
CalInit ==
  /\ stage \in DOMAIN Stages
  /\ cols = [k \in Kinds |-> [p \in People |-> NoReq]]
  /\ extra = {} /\ share = [k \in Kinds |-> "none"] /\ given = {}
  /\ req = [r \in Reqs |-> Quiet0]
  /\ reader = [pc |-> "none", id |-> 0, tag |-> 0, hrefs |-> {}, copy |-> [h \in Hrefs |-> NoReq]]
  /\ stamp = 0
  /\ spoilt = [broken |-> FALSE, crossed |-> FALSE, untold |-> {}]
  /\ budget = [requests |-> Stage.requests, faults |-> Stage.faults, reads |-> Stage.reads]
  /\ diary \in IF Stage.asking THEN Diaries ELSE {{}}

CalRequest(r) ==
  \/ PutEvent(r) \/ PutCard(r) \/ PutShared(r) \/ RemoveEvent(r) \/ RemoveCard(r) \/ ResolveCalendar(r) \/ ResolveBook(r)
  \/ PutObject(r) \/ PutCardObject(r) \/ DeliverInvites(r) \/ ApplyReply(r) \/ PutDone(r)
  \/ ScheduleCancel(r) \/ CancelInvite(r) \/ DeleteObject(r) \/ DeleteCardObject(r) \/ StatementFails(r)

CalNext ==
  \/ \E r \in Reqs : CalRequest(r)
  \/ MkCalendar \/ MkBook \/ DeleteCalendar \/ DeleteBook
  \/ ShareCalendar \/ ShareBook
  \/ StatCTag("cal") \/ ListObjects("cal") \/ Multiget("cal") \/ Query("cal")
  \/ StatBook \/ ListBook \/ MultigetCards \/ QueryCards

CalSpec == CalInit /\ [][CalNext]_calVars

-----------------------------------------------------------------------------
(* Properties.                                                             *)

(* The variables have their types.                                          *)
CalTypeOK ==
  /\ stage \in DOMAIN Stages /\ cols \in [Kinds -> [People -> Collection \cup {NoReq}]]
  /\ extra \subseteq Kinds \X People /\ share \in [Kinds -> {"none", "read", "rw"}] /\ given \subseteq Kinds
  /\ \A r \in Reqs : req[r].op \in {"none", "put", "delete"} /\ (req[r].data \in Content \/ req[r].data = NoReq)

(* A UID is stored once in a collection (RFC 4791, 4.1; the conflict check  *)
(* of PutObject), unless two PUTs were between check and insert at once:    *)
(* the tables have no unique key on it.                                     *)
UidOnce ==
  spoilt.crossed \/ \A k \in Kinds, p \in People :
    GetObject(k, p, "e.ics") = NoReq \/ GetObject(k, p, "f.ics") = NoReq

(* A client whose change tag is the collection's has the collection's       *)
(* objects, except between a write and its tag, and after a write whose tag *)
(* failed until the next one.                                               *)
SyncComplete ==
  (/\ reader.pc = "synced" /\ Watched # NoReq /\ Watched.id \notin spoilt.untold
   /\ reader.id = Watched.id /\ reader.tag = Watched.tag
   /\ \A r \in Active : req[r].pc \notin {"bump", "delbump", "lastbump"})
    => reader.copy = Listing(Watched, Hrefs)

(* With no request in flight, an invitee that has the event has the         *)
(* version the organizer has, and the organizer has its answer; a cancelled *)
(* event is gone everywhere.  Excepted is what the code does not keep up:   *)
(* overlapping changes of the event, a failed statement, an invitee without *)
(* a default calendar, a change by a sharee, a calendar deleted as a whole. *)
(* The organizer's next undisturbed change repairs all of these.            *)
CopiesAgree ==
  (Active = {} /\ ~spoilt.broken) =>
    \A p \in Invited : LET c == ByUID("cal", p) o == ByUID("cal", "org") IN
      c # NoReq => o # NoReq /\ o.ver = c.ver /\ o.answers[p] = c.answers[p]

(* What guest wrote into a collection of org it wrote with read-write       *)
(* access to a collection of that kind.                                     *)
WriterAllowed ==
  \A k \in Kinds, h \in Hrefs : LET o == GetObject(k, "org", h) IN
    o # NoReq => o.by = "org" \/ (o.by = "guest" /\ k \in given)

(* The free-busy answer covers exactly the time of the opaque events that   *)
(* meet the window (the first MaxOccur occurrences of each rule), in order  *)
(* and with gaps between the intervals.                                     *)
BusyExact ==
  LET answer == FreeBusy(diary)
      covered == UNION {answer[i][1] .. answer[i][2] - 1 : i \in 1 .. Len(answer)}
      occurs(e) == {e.start + i * e.step : i \in {j \in 0 .. MaxOccur - 1 :
                      /\ e.step = 0 => j = 0
                      /\ e.step > 0 /\ e.count > 0 => j < e.count
                      /\ e.step > 0 /\ e.until > 0 => e.start + j * e.step <= e.until}}
      busy(e) == UNION {s .. s + (e.end - e.start) - 1 : s \in {t \in occurs(e) : t < WinEnd /\ t + e.end - e.start > WinStart}}
  IN /\ covered = UNION {busy(e) : e \in {d \in diary : ~d.transparent}}
     /\ \A i \in 1 .. Len(answer) - 1 : answer[i][2] < answer[i + 1][1]

(* Calendars are sound: the variables have their types, UIDs are unique,    *)
(* clients see every change, copies of a meeting agree, only those allowed  *)
(* wrote, and free-busy answers are exact.                                  *)
CalendarSound == CalTypeOK /\ UidOnce /\ SyncComplete /\ CopiesAgree /\ WriterAllowed /\ BusyExact
=============================================================================
