------------------------------ MODULE Provision ------------------------------
(* The import of a PHP Nextcloud instance (cmd/ncgo-cli/importnc*.go) into a  *)
(* server that is in use.  One command at a time walks the rows of the        *)
(* source in their order; each row is looked up in the target, decided on and *)
(* written in a step of its own, so administrators and clients act between    *)
(* the look and the write.  A command may be a dry run, may be killed, may    *)
(* stop at a failed lookup, and is then repeated.                             *)
(*                                                                            *)
(* A row is a record of the source with its "kind".  Objects follow their     *)
(* calendar or address book as the code reads them; files follow their        *)
(* directory as WalkDir visits them.  Text is abstract: passwords are "argon" *)
(* or not, quotas a number and a unit, content a value with the size and      *)
(* mtime as its "stamp".                                                      *)
EXTENDS Integers, Sequences, FiniteSets, TLC
LOCAL INSTANCE SequencesExt

CONSTANTS
  Errands,     \* the situations: [rows, start, calls, local, budget, crashes, faults]
  ValidUids,   \* the uids of the source that ncgo accepts
  QuotaTop     \* 2^63 of the code: one more than the largest int64

ASSUME ProvisionAssumption == QuotaTop \in Nat \ {0}

VARIABLES
  errand,      \* the name of the situation; it never changes
  tgt,         \* the target's tables and tree: see Target
  imp,         \* the running command, or NoRun
  last,        \* the command that ended last, as long as nothing happened since
  boot,        \* a server's first start: "down", "created" or "up"
  left         \* what may still happen: calls made, local steps, kills, failures

impVars == <<errand, tgt, imp, last, boot, left>>

NoRun == [cmd |-> "none"]
NoReport == [cmd |-> "none", dry |-> FALSE, clean |-> FALSE, told |-> <<>>]
Plan == Errands[errand]

(* The target.  Rows of a user go with the user (ON DELETE CASCADE).          *)
Empty == [users |-> <<>>, groups |-> {}, members |-> {}, files |-> <<>>, versions |-> {}, shares |-> {},
          cols |-> <<>>, objs |-> <<>>, grants |-> <<>>, tokens |-> <<>>, next |-> 1]

Only(f, S) == [k \in DOMAIN f \cap S |-> f[k]]
Without(f, S) == [k \in DOMAIN f \ S |-> f[k]]
With(f, k, v) == (k :> v) @@ f
ColAt(kind, owner, uri) == {c \in DOMAIN tgt.cols : tgt.cols[c].kind = kind /\ tgt.cols[c].owner = owner /\ tgt.cols[c].uri = uri}
Id(S) == CHOOSE c \in S : TRUE

-----------------------------------------------------------------------------
(* The report and the walk over the rows.                                    *)

ImportCounts == [created |-> 0, updated |-> 0, skipped |-> 0, failed |-> 0]
Entities == {"user", "group", "member", "home", "dir", "file", "usershare", "groupshare", "linkshare", "remote",
             "cal", "calobj", "book", "card", "calgrant", "bookgrant", "token"}

NewRun(c) ==
  [cmd |-> c.cmd, dry |-> c.dry, i |-> 1, pending |-> "no", tally |-> [e \in {} |-> ImportCounts],
   planned |-> {}, members |-> <<>>, resolved |-> <<>>, existing |-> <<>>,
   mode |-> "open", into |-> <<"none", "none", "none", 0>>, cut |-> <<>>,
   disturbed |-> FALSE, raced |-> FALSE, wrote |-> FALSE,
   told |-> IF last.cmd = c.cmd /\ last.dry /\ last.clean /\ ~c.dry THEN last.tally ELSE <<>>,
   again |-> last.cmd = c.cmd /\ ~last.dry /\ last.clean]

Rows == Plan.rows[imp.cmd]
Row == Rows[imp.i]
Running == imp.cmd # "none"
Looking == Running /\ imp.pending = "no" /\ imp.i <= Len(Rows)
Writing(kind) == Running /\ imp.pending # "no" /\ Row.kind = kind

Onward(p) == [p EXCEPT !.i = @ + 1, !.pending = "no", !.raced = FALSE]
Counter(p, e) == IF e \in DOMAIN p.tally THEN p.tally[e] ELSE ImportCounts
\* importReport: one counter of one entity goes up, and the next row is read.
Settle(p, e, what) == [Onward(p) EXCEPT !.tally = With(@, e, [Counter(p, e) EXCEPT ![what] = @ + 1])]
\* What a real run writes next, a dry run only counts.
Decide(p, e, what) == IF p.dry THEN Settle(p, e, what) ELSE [p EXCEPT !.pending = what]

Leave == UNCHANGED <<errand, tgt, last, boot, left>>
\* A write: the target becomes t and the row is counted.
Write(t, p) == tgt' = t /\ imp' = [p EXCEPT !.wrote = @ \/ t # tgt] /\ UNCHANGED <<errand, last, boot, left>>

-----------------------------------------------------------------------------
(* Users, groups and memberships (importnc.go).                              *)

\* A uid may not be empty or hold blanks, control characters and slashes; a user gets the uid, or else its lower-case form; "" when neither will do.
ValidNCImportUID(u) == u \in ValidUids
TargetUID(r) == IF ValidNCImportUID(r.uid) THEN r.uid ELSE IF ValidNCImportUID(r.lower) THEN r.lower ELSE ""
\* The source-uid to target-uid mapping, complete before memberships and tokens are read.
UIDMap(rows, u) == LET S == {i \in DOMAIN rows : rows[i].uid = u} IN IF S = {} THEN "" ELSE TargetUID(rows[Id(S)])

Unlimited == -1   \* "none", "default", nothing, or not understood
Unit(u) == CASE u = "" -> 1 [] u = "k" -> 2 [] u = "m" -> 4 [] u = "g" -> 8
\* The float is compared with MaxInt64, which rounds up to 2^63, and converted: 2^63 itself wraps.
ParseNCQuota(q) ==
  IF q.unit = "none" THEN Unlimited
  ELSE LET b == q.num * Unit(q.unit)
       IN  IF b < 0 \/ b > QuotaTop THEN Unlimited ELSE IF b = QuotaTop THEN -QuotaTop ELSE b
\* settings/primary_email, else settings/email, else the accounts table unless its JSON is broken.
NCUserExtras(r) == IF r.primary # "" THEN r.primary ELSE IF r.email # "" THEN r.email ELSE IF r.account = "broken" THEN "" ELSE r.account
PasswordFor(r) == IF r.argon THEN "source" ELSE "sentinel"
NewAccount(r) == [by |-> "import", hash |-> PasswordFor(r), email |-> NCUserExtras(r), quota |-> ParseNCQuota(r.quota)]

ImportUser ==
  /\ Looking /\ Row.kind = "user" /\ Leave
  /\ imp' = IF TargetUID(Row) = "" \/ TargetUID(Row) \in DOMAIN tgt.users THEN Settle(imp, "user", "skipped")
            ELSE Decide([imp EXCEPT !.planned = IF imp.dry THEN @ \cup {<<"user", TargetUID(Row)>>} ELSE @], "user", "created")
\* users.SQLStore.Create: the unique key refuses a uid that has appeared meanwhile.
CreateUser ==
  /\ Writing("user")
  /\ IF TargetUID(Row) \in DOMAIN tgt.users THEN Write(tgt, Settle(imp, "user", "skipped"))
     ELSE Write([tgt EXCEPT !.users = With(@, TargetUID(Row), NewAccount(Row))], Settle(imp, "user", "created"))

ImportGroup ==
  /\ Looking /\ Row.kind = "group" /\ Leave
  /\ imp' = IF Row.gid = "" \/ Row.gid \in tgt.groups THEN Settle(imp, "group", "skipped")
            ELSE Decide([imp EXCEPT !.planned = IF imp.dry THEN @ \cup {<<"group", Row.gid>>} ELSE @], "group", "created")
CreateGroup ==
  /\ Writing("group")
  /\ Write([tgt EXCEPT !.groups = @ \cup {Row.gid}], Settle(imp, "group", IF Row.gid \in tgt.groups THEN "skipped" ELSE "created"))

MemberUID == UIDMap(SelectSeq(Rows, LAMBDA r : r.kind = "user"), Row.uid)
\* Mutant of GroupKnown: a dry run does not count the groups it would create.
GroupInTarget(g) == g \in tgt.groups
GroupKnown(g) == <<"group", g>> \in imp.planned \/ g \in tgt.groups
UserKnown(u) == <<"user", u>> \in imp.planned \/ u \in DOMAIN tgt.users
\* GroupMembers, read once for each group and kept up to date by the run.
MembersOf(g) == IF g \in DOMAIN imp.members THEN imp.members[g]
                ELSE IF <<"group", g>> \in imp.planned THEN {} ELSE {m[2] : m \in {n \in tgt.members : n[1] = g}}
Noted(p, g, S) == [p EXCEPT !.members = With(@, g, S)]
ImportMember ==
  /\ Looking /\ Row.kind = "member" /\ Leave
  /\ LET g == Row.gid  u == MemberUID
     IN  imp' = IF u = "" \/ ~GroupKnown(g) \/ ~UserKnown(u) THEN Settle(imp, "member", "skipped")
                ELSE IF u \in MembersOf(g) THEN Settle(Noted(imp, g, MembersOf(g)), "member", "skipped")
                ELSE Decide(Noted(imp, g, MembersOf(g) \cup IF imp.dry THEN {u} ELSE {}), "member", "created")
\* AddGroupMember looks both up again and inserts; a membership that is there is no error.
AddMember ==
  /\ Writing("member")
  /\ LET g == Row.gid  u == MemberUID
     IN  IF g \in tgt.groups /\ u \in DOMAIN tgt.users
         THEN Write([tgt EXCEPT !.members = @ \cup {<<g, u>>}], Settle(Noted(imp, g, MembersOf(g) \cup {u}), "member", "created"))
         ELSE Write(tgt, Settle(imp, "member", "failed"))

-----------------------------------------------------------------------------
(* Files (importnc_files.go).  The cut is the subtree that is passed over.    *)

Home(u) == <<u, <<>>>>
Below(key, cut) == cut # <<>> /\ key[1] = cut[1] /\ IsPrefix(cut[2], key[2])
Key(r) == <<r.user, r.path>>
InTree == Row.kind \in {"dir", "file", "link"}
PassedOver == InTree /\ Below(Key(Row), imp.cut)
\* SkipDir, or a user who is skipped: the rows below are not visited.
PassOver == Looking /\ PassedOver /\ imp' = Onward(imp) /\ Leave

\* A directory of the data directory counts as a user when it has files/ in it.
HomeThere(r) == r.there
ImportHome ==
  /\ Looking /\ Row.kind = "home" /\ Leave
  /\ imp' = IF ~ValidNCImportUID(Row.user) \/ Row.user \notin DOMAIN tgt.users \/ Row.sealed \/ ~HomeThere(Row)
            THEN Settle([imp EXCEPT !.cut = Home(Row.user)], "home", "skipped")
            ELSE Settle([imp EXCEPT !.cut = <<>>], "home", "created")

At_(key) == tgt.files[key]
Stored(key) == key \in DOMAIN tgt.files
ParentThere(key) == Len(key[2]) = 1 \/ (Stored(<<key[1], Front(key[2])>>) /\ At_(<<key[1], Front(key[2])>>).dir)

\* A directory that cannot be made takes everything below it out of the walk.
DirFailed(p) == Settle([p EXCEPT !.cut = Key(Row)], "dir", "failed")
ImportDir ==
  /\ Looking /\ Row.kind = "dir" /\ ~PassedOver /\ Leave
  /\ imp' = IF ~Stored(Key(Row)) THEN Decide(imp, "dir", "created")
            ELSE IF At_(Key(Row)).dir THEN Settle(imp, "dir", "skipped") ELSE DirFailed(imp)
ImportMkdir ==
  /\ Writing("dir")
  /\ IF Row.user \notin DOMAIN tgt.users \/ ~ParentThere(Key(Row)) THEN Write(tgt, DirFailed(imp))
     ELSE IF Stored(Key(Row)) THEN Write(tgt, Settle(imp, "dir", "created"))
     ELSE Write([tgt EXCEPT !.files = With(@, Key(Row), [dir |-> TRUE, data |-> "", stamp |-> ""])], Settle(imp, "dir", "created"))

ImportLink == Looking /\ Row.kind = "link" /\ ~PassedOver /\ Leave /\ imp' = Settle(imp, "file", "skipped")
\* The same size and mtime in seconds count as the same file.
ImportFile ==
  /\ Looking /\ Row.kind = "file" /\ ~PassedOver /\ Leave
  /\ imp' = IF ~Stored(Key(Row)) THEN Decide(imp, "file", "created")
            ELSE IF At_(Key(Row)).dir THEN Settle(imp, "file", "failed")
            ELSE IF At_(Key(Row)).stamp = Row.stamp THEN Settle(imp, "file", "skipped")
            ELSE Decide(imp, "file", "updated")
Unwritable(k) == k[1] \notin DOMAIN tgt.users \/ ~ParentThere(k) \/ (Stored(k) /\ At_(k).dir)
\* Mutant of WriteFile: what is replaced is not kept.
WriteOver ==
  /\ Writing("file")
  /\ IF Unwritable(Key(Row)) THEN Write(tgt, Settle(imp, "file", "failed"))
     ELSE Write([tgt EXCEPT !.files = With(@, Key(Row), [dir |-> FALSE, data |-> Row.data, stamp |-> Row.stamp])], Settle(imp, "file", imp.pending))
\* DAV.Write: a file that is there becomes a version; "created" is what the write found.
WriteFile ==
  /\ Writing("file")
  /\ IF Unwritable(Key(Row)) THEN Write(tgt, Settle(imp, "file", "failed"))
     ELSE Write([tgt EXCEPT !.files = With(@, Key(Row), [dir |-> FALSE, data |-> Row.data, stamp |-> Row.stamp]),
                            !.versions = @ \cup IF Stored(Key(Row)) THEN {<<Key(Row), At_(Key(Row)).data>>} ELSE {}],
                Settle(imp, "file", IF Stored(Key(Row)) THEN "updated" ELSE "created"))

-----------------------------------------------------------------------------
(* Shares (importnc_shares.go).                                              *)

ShareEntity(r) == CASE r.type = "user" -> "usershare" [] r.type = "group" -> "groupshare" [] r.type = "link" -> "linkshare" [] OTHER -> "remote"
NCHomePath(r) == r.store = "home"   \* a filecache row, on a home storage, under files/
RecipientOK(r) ==
  CASE r.type = "link" -> TRUE
    [] r.type = "user" -> r.with \in DOMAIN tgt.users
    [] r.type = "group" -> r.with \in tgt.groups
NCExpiration(r) == r.expires # "unparseable"
LinkOK(r) == r.type = "link" => r.token # "" /\ r.password # "other"
ShareOf(r) == [owner |-> r.owner, path |-> r.path, type |-> r.type, with |-> r.with, token |-> r.token]
\* Mutant of EquivalentShare: shares are told apart by token, which the source has for links only.
SameToken(s, w) == s.token = w.token
EquivalentShare(s, w) == s.owner = w.owner /\ s.path = w.path /\ s.type = w.type /\ s.with = w.with
\* Links are matched by their token, whoever uses it; the others by owner, path, type and recipient.
AlreadyShared(w) ==
  IF w.type = "link" THEN \E s \in tgt.shares : s.token = w.token
  ELSE \E s \in tgt.shares : EquivalentShare(s, w)

Importable(r) ==
  /\ r.type \in {"user", "group", "link"} /\ r.owner \in DOMAIN tgt.users /\ NCHomePath(r) /\ RecipientOK(r)
  /\ Stored(<<r.owner, r.path>>) /\ NCExpiration(r) /\ LinkOK(r)
ImportShare ==
  /\ Looking /\ Row.kind = "share" /\ Leave
  /\ imp' = IF ~Importable(Row) \/ AlreadyShared(ShareOf(Row)) THEN Settle(imp, ShareEntity(Row), "skipped")
            ELSE Decide(imp, ShareEntity(Row), "created")
\* The token is unique and the owner a foreign key; other shares get a fresh token.
InsertShare ==
  /\ Writing("share")
  /\ LET w == ShareOf(Row)
     IN  IF w.owner \notin DOMAIN tgt.users \/ (w.type = "link" /\ \E s \in tgt.shares : s.token = w.token)
         THEN Write(tgt, Settle(imp, ShareEntity(Row), "failed"))
         ELSE Write([tgt EXCEPT !.shares = @ \cup {IF w.type = "link" THEN w ELSE [w EXCEPT !.token = ToString(tgt.next)]}, !.next = @ + 1],
                    Settle(imp, ShareEntity(Row), "created"))

-----------------------------------------------------------------------------
(* Calendars, address books and who they are shared with (importnc_dav.go).   *)
(* The mode says what becomes of the objects that follow a collection: they   *)
(* go "into" it ("open"), are counted as skipped ("skip"), are counted as     *)
(* created by a dry run ("count"), or are not counted at all ("drop").        *)

ObjEntity(kind) == IF kind = "cal" THEN "calobj" ELSE "card"
GrantEntity(kind) == IF kind = "book" THEN "bookgrant" ELSE "calgrant"
InCollection(p, mode, r) == [p EXCEPT !.mode = mode, !.into = <<r.kind, r.owner, r.uri, 0>>]
Resolve(p, r, c) == [p EXCEPT !.into[4] = c, !.resolved = With(@, r.id, [owner |-> r.owner, col |-> c])]

\* The store's defaults: the uri for a missing name, the default colour (calendars only).
Defaulted(r) == [name |-> IF r.name = "" THEN r.uri ELSE r.name,
                 color |-> IF r.kind = "book" THEN "" ELSE IF r.color = "" THEN "default" ELSE r.color]
Equivalent(c, r) == tgt.cols[c].props = Defaulted(r)

SkipWithObjects(r) == Settle(InCollection(imp, "skip", r), r.kind, "skipped")
LookAt(kind) ==
  /\ Looking /\ Row.kind = kind /\ Leave
  /\ LET r == Row  at == ColAt(kind, r.owner, r.uri)
     IN  imp' = IF r.owner \notin DOMAIN tgt.users THEN SkipWithObjects(r)
                ELSE IF at # {} THEN IF Equivalent(Id(at), r)
                                     THEN Settle(Resolve(InCollection(imp, "open", r), r, Id(at)), kind, "skipped")
                                     ELSE SkipWithObjects(r)
                ELSE IF imp.dry THEN Settle(Resolve(InCollection(imp, "count", r), r, 0), kind, "created")
                ELSE [imp EXCEPT !.pending = "created"]
\* The owner is a foreign key, owner and uri are unique.
Create(kind) ==
  /\ Writing(kind)
  /\ LET r == Row
     IN  IF r.owner \notin DOMAIN tgt.users THEN Write(tgt, Settle(InCollection(imp, "drop", r), kind, "failed"))
         ELSE IF ColAt(kind, r.owner, r.uri) # {} THEN Write(tgt, Settle(InCollection(imp, "drop", r), kind, "skipped"))
         ELSE Write([tgt EXCEPT !.cols = With(@, tgt.next, [kind |-> kind, owner |-> r.owner, uri |-> r.uri, props |-> Defaulted(r), by |-> r.id]),
                                !.next = @ + 1],
                    Settle(Resolve(InCollection(imp, "open", r), r, tgt.next), kind, "created"))
ImportCalendar == LookAt("cal")
ImportAddressbook == LookAt("book")
CreateCalendar == Create("cal")
CreateBook == Create("book")

Into == ColAt(imp.into[1], imp.into[2], imp.into[3])
Held(c, uri) == <<c, uri>> \in DOMAIN tgt.objs
\* Objects of a collection that is skipped, or that a dry run would create, are counted from the source alone.
SkipObject(e) == Settle(imp, e, "skipped")
CountObject(e) == Settle(imp, e, IF Row.data = "" THEN "skipped" ELSE "created")
LookUpObject(kind) ==
  /\ Looking /\ Row.kind = "obj" /\ imp.into[1] = kind /\ Leave
  /\ LET e == ObjEntity(kind)
     IN  imp' = CASE imp.mode = "drop" -> Onward(imp)
                  [] imp.mode = "skip" -> SkipObject(e)
                  [] imp.mode = "count" -> CountObject(e)
                  [] imp.mode = "open" -> IF Row.data = "" \/ \E c \in Into : Held(c, Row.uri) THEN Settle(imp, e, "skipped")
                                          ELSE Decide(imp, e, "created")
ImportCalendarObject == LookUpObject("cal")
ImportCard == LookUpObject("book")
\* PutObject finds the collection by owner and uri, refuses bad data and a UID that is taken, and replaces;
\* a collection put in the place of the one that was resolved takes the object too ("strayed").
PutObjectInto(kind) ==
  /\ Writing("obj") /\ imp.into[1] = kind
  /\ LET e == ObjEntity(kind)
     IN  IF Row.data = "bad" THEN Write(tgt, Settle(imp, e, "skipped"))
         ELSE IF Into = {} THEN Write(tgt, Settle(imp, e, "failed"))
         ELSE LET c == Id(Into)
              IN  IF \E k \in DOMAIN tgt.objs : k[1] = c /\ k[2] # Row.uri /\ tgt.objs[k].uid = Row.uid
                  THEN Write(tgt, Settle(imp, e, "skipped"))
                  ELSE Write([tgt EXCEPT !.objs = With(@, <<c, Row.uri>>, [data |-> Row.data, uid |-> Row.uid, by |-> IF c = imp.into[4] THEN "import" ELSE "strayed"])],
                             Settle(imp, e, "created"))

PutCalendarObject == PutObjectInto("cal")
PutCardInto == PutObjectInto("book")

IdsOf(kind) == {Rows[i].id : i \in {j \in DOMAIN Rows : Rows[j].kind = kind}}
NCCalendarRefs == IdsOf("cal")
NCAddressbookRefs == IdsOf("book")
\* The shares of one sharee, listed once and kept up to date by the run.
GrantsOf(kind, u) ==
  IF <<kind, u>> \in DOMAIN imp.existing THEN imp.existing[<<kind, u>>]
  ELSE [c \in {k[1] : k \in {g \in DOMAIN tgt.grants : g[2] = u /\ tgt.cols[g[1]].kind = kind}} |-> tgt.grants[<<c, u>>].access]
Recalled(p, kind, u, f) == [p EXCEPT !.existing = With(@, <<kind, u>>, f)]
AccessOf(r) == CASE r.access = 2 -> "read-write" [] r.access = 3 -> "read" [] OTHER -> ""
\* The sharee is a user of the target, the collection one of the source that this run resolved to one of
\* the target, not the sharee's own, and the access one of two.
Grantable(r, refs) ==
  /\ r.sharee \in DOMAIN tgt.users /\ r.id \in refs
  /\ r.id \in DOMAIN imp.resolved /\ imp.resolved[r.id].owner # r.sharee /\ AccessOf(r) # ""
LookUpGrant(kind, refs) ==
  /\ Looking /\ Row.kind = "grant" /\ Row.of = kind /\ Leave
  /\ LET r == Row  e == GrantEntity(kind)
     IN  imp' = IF ~Grantable(r, refs) THEN Settle(imp, e, "skipped")
                ELSE LET c == imp.resolved[r.id].col  had == GrantsOf(kind, r.sharee)  noted == Recalled(imp, kind, r.sharee, had)
                     IN  IF c = 0 THEN Settle(imp, e, "created")
                         ELSE IF c \in DOMAIN had /\ had[c] = AccessOf(r) THEN Settle(noted, e, "skipped")
                         ELSE Decide(IF imp.dry THEN Recalled(imp, kind, r.sharee, With(had, c, AccessOf(r))) ELSE noted,
                                     e, IF c \in DOMAIN had THEN "updated" ELSE "created")
ImportCalendarShare == LookUpGrant("cal", NCCalendarRefs)
ImportAddressbookShare == LookUpGrant("book", NCAddressbookRefs)
\* A row of another type than calendar and addressbook.
SkipDAVShare == Looking /\ Row.kind = "grant" /\ Row.of \notin {"cal", "book"} /\ Leave /\ imp' = Settle(imp, "calgrant", "skipped")
GrantTo(r) == imp.resolved[r.id].col
\* UpsertCalendarShare, UpsertAddressbookShare: collection and sharee are foreign keys.
UpsertGrant ==
  /\ Writing("grant")
  /\ LET r == Row  e == GrantEntity(r.of)  c == GrantTo(r)
     IN  IF c \notin DOMAIN tgt.cols \/ r.sharee \notin DOMAIN tgt.users THEN Write(tgt, Settle(imp, e, "failed"))
         ELSE Write([tgt EXCEPT !.grants = With(@, <<c, r.sharee>>, [access |-> AccessOf(r), by |-> r.id])],
                    Settle(Recalled(imp, r.of, r.sharee, With(GrantsOf(r.of, r.sharee), c, AccessOf(r))), e, imp.pending))

-----------------------------------------------------------------------------
(* App passwords (importnc_tokens.go).                                       *)

TokenUID == UIDMap(SelectSeq(Plan.rows["users"], LAMBDA r : r.kind = "user"), Row.uid)
ImportToken ==
  /\ Looking /\ Row.kind = "token" /\ Leave
  /\ imp' = IF Row.hash = "" \/ TokenUID = "" \/ TokenUID \notin DOMAIN tgt.users \/ Row.hash \in DOMAIN tgt.tokens
            THEN Settle(imp, "token", "skipped") ELSE Decide(imp, "token", "created")
\* INSERT ... SELECT FROM users: no row and no error when the user is gone.
InsertFor(u) == u \in DOMAIN tgt.users
InsertAuthToken ==
  /\ Writing("token")
  /\ Write(IF InsertFor(TokenUID) THEN [tgt EXCEPT !.tokens = With(@, Row.hash, TokenUID)] ELSE tgt, Settle(imp, "token", "created"))

-----------------------------------------------------------------------------
(* The command as a whole.                                                   *)

StartImport ==
  /\ ~Running /\ left.call <= Len(Plan.calls)
  /\ imp' = NewRun(Plan.calls[left.call]) /\ last' = NoReport
  /\ UNCHANGED <<errand, tgt, boot, left>>
\* The report is printed.
PrintReport ==
  /\ Running /\ imp.i > Len(Rows)
  /\ last' = [cmd |-> imp.cmd, dry |-> imp.dry, tally |-> imp.tally, told |-> imp.told, disturbed |-> imp.disturbed,
              clean |-> ~imp.disturbed /\ \A e \in DOMAIN imp.tally : imp.tally[e].failed = 0]
  /\ imp' = NoRun /\ left' = [left EXCEPT !.call = @ + 1]
  /\ UNCHANGED <<errand, tgt, boot>>
\* The process is killed; the operator repeats the command.
KillImport ==
  /\ Running /\ left.crashes > 0
  /\ imp' = NoRun /\ last' = NoReport /\ left' = [left EXCEPT !.crashes = @ - 1]
  /\ UNCHANGED <<errand, tgt, boot>>

Failed(p) ==
  CASE Row.kind = "dir" -> DirFailed(p)
    [] Row.kind \in {"cal", "book"} -> Settle(InCollection(p, "drop", Row), Row.kind, "failed")
    [] Row.kind = "obj" -> Settle(p, ObjEntity(p.into[1]), "failed")
    [] Row.kind = "grant" -> Settle(p, GrantEntity(Row.of), "failed")
    [] Row.kind = "share" -> Settle(p, ShareEntity(Row), "failed")
    [] OTHER -> Settle(p, Row.kind, "failed")
\* A lookup of an account, a group or a token that fails ends the command; any other is counted.
LookupFails ==
  /\ Looking /\ left.faults > 0 /\ ~PassedOver /\ Row.kind # "link" /\ (Row.kind = "obj" => imp.mode = "open")
  /\ imp' = IF Row.kind \in {"user", "group", "member", "home", "token"} THEN NoRun ELSE Failed(imp)
  /\ left' = [left EXCEPT !.faults = @ - 1] /\ last' = NoReport
  /\ UNCHANGED <<errand, tgt, boot>>
WriteFails ==
  /\ Running /\ imp.pending # "no" /\ left.faults > 0
  /\ imp' = Failed(imp) /\ left' = [left EXCEPT !.faults = @ - 1]
  /\ UNCHANGED <<errand, tgt, last, boot>>

-----------------------------------------------------------------------------
(* Meanwhile: the server's first start, the administrator and the clients.   *)

\* A step of somebody else: the running command is disturbed, what ended before is no longer comparable.
Elsewhere(t) ==
  /\ left.local > 0 /\ tgt' = t /\ t # tgt
  /\ left' = [left EXCEPT !.local = @ - 1] /\ last' = NoReport
  /\ imp' = IF Running THEN [imp EXCEPT !.disturbed = TRUE, !.raced = @ \/ imp.pending # "no"] ELSE imp
  /\ UNCHANGED errand
Allowed(op) == op \in Plan.local

Bootstrap == "root"
Here(u) == [by |-> "here", hash |-> "here", email |-> "", quota |-> Unlimited]
\* EnsureBootstrapAdmin: only a server that finds no account at all creates one.
EnsureBootstrapAdmin ==
  /\ Allowed("boot") /\ boot = "down" /\ DOMAIN tgt.users = {}
  /\ Elsewhere([tgt EXCEPT !.users = With(@, Bootstrap, Here(Bootstrap))]) /\ boot' = "created"
EnsureAdminMembership ==
  /\ boot = "created" /\ Bootstrap \in DOMAIN tgt.users
  /\ Elsewhere([tgt EXCEPT !.groups = @ \cup {"admin"}, !.members = @ \cup {<<"admin", Bootstrap>>}]) /\ boot' = "up"

UserAdd(u) == Allowed("user add") /\ u \notin DOMAIN tgt.users /\ Elsewhere([tgt EXCEPT !.users = With(@, u, Here(u))]) /\ UNCHANGED boot
\* The user row goes, and by their foreign keys all rows of the user.
DropCols(t, S) == [t EXCEPT !.cols = Without(@, S), !.objs = Only(@, {k \in DOMAIN t.objs : k[1] \notin S}),
                            !.grants = Only(@, {k \in DOMAIN t.grants : k[1] \notin S})]
UserDelete(u) ==
  /\ Allowed("user delete") /\ u \in DOMAIN tgt.users /\ UNCHANGED boot
  /\ LET t == DropCols(tgt, {c \in DOMAIN tgt.cols : tgt.cols[c].owner = u})
     IN  Elsewhere([t EXCEPT !.users = Without(@, {u}), !.members = {m \in @ : m[2] # u}, !.shares = {s \in @ : s.owner # u},
                             !.files = Only(@, {k \in DOMAIN @ : k[1] # u}), !.versions = {v \in @ : v[1][1] # u},
                             !.grants = Only(@, {k \in DOMAIN @ : k[2] # u}), !.tokens = Only(@, {h \in DOMAIN @ : @[h] # u})])
GroupAdd(g) == Allowed("group add") /\ Elsewhere([tgt EXCEPT !.groups = @ \cup {g}]) /\ UNCHANGED boot
DeleteGroup(g) == [tgt EXCEPT !.groups = @ \ {g}, !.members = {m \in @ : m[1] # g}]
GroupDelete(g) == Allowed("group delete") /\ Elsewhere(DeleteGroup(g)) /\ UNCHANGED boot
GroupAddUser(g, u) ==
  /\ Allowed("adduser") /\ g \in tgt.groups /\ u \in DOMAIN tgt.users /\ UNCHANGED boot
  /\ Elsewhere([tgt EXCEPT !.members = @ \cup {<<g, u>>}])
RemoveGroupMember(g, u) == [tgt EXCEPT !.members = @ \ {<<g, u>>}]
GroupRemoveUser(g, u) == Allowed("removeuser") /\ Elsewhere(RemoveGroupMember(g, u)) /\ UNCHANGED boot

\* A client changes or removes a file, removes a share, makes, recolours or removes a collection, changes an object.
ClientWrites(k) ==
  /\ Allowed("edit") /\ k[1] \in DOMAIN tgt.users /\ UNCHANGED boot /\ Len(k[2]) = 1 /\ (Stored(k) => ~At_(k).dir)
  /\ Elsewhere([tgt EXCEPT !.files = With(@, k, [dir |-> FALSE, data |-> "here", stamp |-> "here"]),
                           !.versions = @ \cup IF Stored(k) THEN {<<k, At_(k).data>>} ELSE {}])
ClientUnshares == Allowed("unshare") /\ UNCHANGED boot /\ \E s \in tgt.shares : Elsewhere([tgt EXCEPT !.shares = @ \ {s}])
ClientMakes(kind, u, uri) ==
  /\ Allowed("make") /\ u \in DOMAIN tgt.users /\ ColAt(kind, u, uri) = {} /\ UNCHANGED boot
  /\ Elsewhere([tgt EXCEPT !.cols = With(@, tgt.next, [kind |-> kind, owner |-> u, uri |-> uri, props |-> [name |-> "here", color |-> ""], by |-> 0]),
                           !.next = @ + 1])
ClientDrops == Allowed("drop") /\ UNCHANGED boot /\ \E c \in DOMAIN tgt.cols : Elsewhere(DropCols(tgt, {c}))
ClientPuts ==
  /\ Allowed("put") /\ UNCHANGED boot
  /\ \E c \in DOMAIN tgt.cols, i \in DOMAIN Plan.rows["dav"] :
       /\ Plan.rows["dav"][i].kind = "obj"
       /\ Elsewhere([tgt EXCEPT !.objs = With(@, <<c, Plan.rows["dav"][i].uri>>, [data |-> "here", uid |-> Plan.rows["dav"][i].uid, by |-> "here"])])

-----------------------------------------------------------------------------
Names == {TargetUID(Plan.rows["users"][i]) : i \in {j \in DOMAIN Plan.rows["users"] : Plan.rows["users"][j].kind = "user"}} \ {""}
Groups == {Plan.rows["users"][i].gid : i \in {j \in DOMAIN Plan.rows["users"] : Plan.rows["users"][j].kind = "group"}} \ {""}
Spots == {Key(Plan.rows["files"][i]) : i \in {j \in DOMAIN Plan.rows["files"] : Plan.rows["files"][j].kind # "home"}}
ColSpots == {<<Plan.rows["dav"][i].kind, Plan.rows["dav"][i].owner, Plan.rows["dav"][i].uri>> :
               i \in {j \in DOMAIN Plan.rows["dav"] : Plan.rows["dav"][j].kind \in {"cal", "book"}}}

ImpInit ==
  /\ errand \in DOMAIN Errands
  /\ tgt = Plan.start /\ imp = NoRun /\ last = NoReport /\ boot = "down"
  /\ left = [call |-> 1, local |-> Plan.budget, crashes |-> Plan.crashes, faults |-> Plan.faults]

ImpNext ==
  \/ StartImport \/ PrintReport \/ KillImport \/ LookupFails \/ WriteFails
  \/ ImportUser \/ CreateUser \/ ImportGroup \/ CreateGroup \/ ImportMember \/ AddMember
  \/ PassOver \/ ImportHome \/ ImportDir \/ ImportMkdir \/ ImportLink \/ ImportFile \/ WriteFile
  \/ ImportShare \/ InsertShare
  \/ ImportCalendar \/ CreateCalendar \/ ImportCalendarObject \/ PutCalendarObject
  \/ ImportAddressbook \/ CreateBook \/ ImportCard \/ PutCardInto
  \/ ImportCalendarShare \/ ImportAddressbookShare \/ SkipDAVShare \/ UpsertGrant
  \/ ImportToken \/ InsertAuthToken
  \/ EnsureBootstrapAdmin \/ EnsureAdminMembership
  \/ \E u \in Names : UserAdd(u) \/ UserDelete(u)
  \/ \E g \in Groups : GroupAdd(g) \/ GroupDelete(g) \/ \E u \in Names : GroupAddUser(g, u) \/ GroupRemoveUser(g, u)
  \/ \E k \in Spots : ClientWrites(k)
  \/ \E c \in ColSpots : ClientMakes(c[1], c[2], c[3])
  \/ ClientUnshares \/ ClientDrops \/ ClientPuts

ImpSpec == ImpInit /\ [][ImpNext]_impVars

-----------------------------------------------------------------------------
(* What the import promises.                                                 *)

\* Every row of the target belongs to rows that are there, and the command is in one of its states.
ImpTypeOK ==
  /\ \A m \in tgt.members : m[1] \in tgt.groups /\ m[2] \in DOMAIN tgt.users
  /\ \A k \in DOMAIN tgt.files : k[1] \in DOMAIN tgt.users
  /\ \A s \in tgt.shares : s.owner \in DOMAIN tgt.users
  /\ \A c \in DOMAIN tgt.cols : tgt.cols[c].owner \in DOMAIN tgt.users /\ c < tgt.next
  /\ \A k \in DOMAIN tgt.objs : k[1] \in DOMAIN tgt.cols
  /\ \A k \in DOMAIN tgt.grants : k[1] \in DOMAIN tgt.cols /\ k[2] \in DOMAIN tgt.users
  /\ \A h \in DOMAIN tgt.tokens : tgt.tokens[h] \in DOMAIN tgt.users
  /\ Running => /\ imp.pending \in {"no", "created", "updated"} /\ DOMAIN imp.tally \subseteq Entities
                /\ imp.mode \in {"open", "skip", "count", "drop"} /\ (imp.dry => imp.pending = "no")
  /\ boot \in {"down", "created", "up"}

\* What a source row stands for in the target.
AccountLanded(r) ==
  TargetUID(r) # "" =>
    /\ TargetUID(r) \in DOMAIN tgt.users
    /\ LET a == tgt.users[TargetUID(r)]  q == r.quota
       IN  a.by = "import" => /\ a.hash \in {"here", IF r.argon THEN "source" ELSE "sentinel"}
                              /\ (q.unit # "none" => (q.num * Unit(q.unit) \in 0..(QuotaTop - 1) => a.quota = q.num * Unit(q.unit)))
FileLanded(rows, r) ==
  (\E i \in DOMAIN rows : rows[i].kind = "home" /\ rows[i].user = r.user /\ rows[i].user \in ValidUids \cap DOMAIN tgt.users /\ rows[i].there /\ ~rows[i].sealed)
    => Stored(Key(r)) /\ At_(Key(r)).dir = (r.kind = "dir") /\ (r.kind = "file" => At_(Key(r)).stamp = r.stamp)
ColOf(r) == {c \in DOMAIN tgt.cols : tgt.cols[c].kind = r.kind /\ tgt.cols[c].owner = r.owner /\ tgt.cols[c].uri = r.uri /\ tgt.cols[c].props = Defaulted(r)}
SourceCol(rows, id) == UNION {ColOf(rows[i]) : i \in {j \in DOMAIN rows : rows[j].kind \in {"cal", "book"} /\ rows[j].id = id}}
ObjectLanded(rows, r) ==
  r.data \notin {"", "bad"} => \A c \in SourceCol(rows, r.of) : \E k \in DOMAIN tgt.objs : k[1] = c /\ (k[2] = r.uri \/ tgt.objs[k].uid = r.uid)
GrantLanded(rows, r) ==
  r.sharee \in DOMAIN tgt.users /\ r.access \in {2, 3} =>
    \A c \in SourceCol(rows, r.id) : tgt.cols[c].owner # r.sharee /\ tgt.cols[c].kind = r.of =>
      <<c, r.sharee>> \in DOMAIN tgt.grants
Landed(rows, r) ==
  CASE r.kind = "user" -> AccountLanded(r)
    [] r.kind = "group" -> r.gid # "" => r.gid \in tgt.groups
    [] r.kind = "member" -> LET u == UIDMap(SelectSeq(rows, LAMBDA x : x.kind = "user"), r.uid)
                            IN  u # "" /\ r.gid \in tgt.groups => <<r.gid, u>> \in tgt.members
    [] r.kind \in {"dir", "file"} -> FileLanded(rows, r)
    [] r.kind = "share" -> Importable(r) => \E s \in tgt.shares : IF r.type = "link" THEN s.token = r.token ELSE s.owner = r.owner /\ s.path = r.path /\ s.with = r.with
    [] r.kind \in {"cal", "book"} -> r.owner \in DOMAIN tgt.users => ColAt(r.kind, r.owner, r.uri) # {}
    [] r.kind = "obj" -> ObjectLanded(rows, r)
    [] r.kind = "grant" -> GrantLanded(rows, r)
    [] r.kind = "token" -> LET u == UIDMap(SelectSeq(Plan.rows["users"], LAMBDA x : x.kind = "user"), r.uid)
                           IN  r.hash # "" /\ u \in DOMAIN tgt.users => r.hash \in DOMAIN tgt.tokens
    [] OTHER -> TRUE

\* A command that was not disturbed and reports no failure has brought over every row it can, however
\* many runs were killed, failed or changed under it before ("idempotent and resumable", importnc.go).
ImportComplete ==
  last.cmd # "none" /\ ~last.dry /\ last.clean =>
    \A i \in DOMAIN Plan.rows[last.cmd] : Landed(Plan.rows[last.cmd], Plan.rows[last.cmd][i])

\* Two rows give the same sharee different access to the same collection: each run applies both in turn.
Contradicts(rows) ==
  \E i, j \in DOMAIN rows : /\ rows[i].kind = "grant" /\ rows[j].kind = "grant" /\ rows[i].id = rows[j].id
                            /\ rows[i].sharee = rows[j].sharee /\ AccessOf(rows[i]) # AccessOf(rows[j])
\* Repeating a command that ran cleanly, with nothing in between, writes nothing (importnc_shares.go,
\* importnc_dav.go, importnc_tokens.go: the lookups that make a repeated run a no-op).
ImportRepeatable == Running => (imp.again /\ ~imp.disturbed /\ ~Contradicts(Rows) => ~imp.wrote)

\* A dry run foretells the real one that follows: it accounts for the same rows of every entity, promises
\* no fewer creations and skips no more (importnc.go: planned users and groups, countNCObjects).
DryRunForetells ==
  last.cmd # "none" /\ last.told # <<>> /\ last.clean =>
    /\ DOMAIN last.told = DOMAIN last.tally
    /\ \A e \in DOMAIN last.tally :
         LET d == last.told[e]  r == last.tally[e]
         IN  /\ d.created + d.updated + d.skipped = r.created + r.updated + r.skipped
             /\ d.created >= r.created /\ d.skipped <= r.skipped

\* An imported object or share is never in a calendar or address book that is not its own or just like
\* it: a collection that merely has the uri is left alone (importNCCalendar, ncResolvedCalendar).
DavRows == Plan.rows["dav"]
NothingForeign ==
  /\ \A k \in DOMAIN tgt.objs : tgt.objs[k].by = "import" =>
       \E i \in DOMAIN DavRows : DavRows[i].kind \in {"cal", "book"} /\ k[1] \in ColOf(DavRows[i])
  /\ \A k \in DOMAIN tgt.grants : k[1] \in SourceCol(DavRows, tgt.grants[k].by)

Kept(f, g) == \A k \in DOMAIN f : k \in DOMAIN g /\ g[k] = f[k]
\* A step of the import only adds: accounts, groups, memberships, shares, tokens and collections stay as
\* they are, a file that is replaced stays as a version, and an object is replaced only when it was put
\* between the look and the write (importNCUserRows, importNCCalendarObjects, DAV.Write).
ImportAddsOnly ==
  [][tgt' # tgt /\ left' = left =>
       /\ Kept(tgt.users, tgt'.users) /\ Kept(tgt.cols, tgt'.cols) /\ Kept(tgt.tokens, tgt'.tokens)
       /\ tgt.groups \subseteq tgt'.groups /\ tgt.members \subseteq tgt'.members /\ tgt.shares \subseteq tgt'.shares
       /\ DOMAIN tgt.grants \subseteq DOMAIN tgt'.grants /\ tgt.versions \subseteq tgt'.versions
       /\ (imp.raced \/ Kept(tgt.objs, tgt'.objs))
       /\ \A k \in DOMAIN tgt.files : /\ k \in DOMAIN tgt'.files
                                      /\ tgt'.files[k] = tgt.files[k] \/ (~tgt.files[k].dir /\ <<k, tgt.files[k].data>> \in tgt'.versions)]_impVars

\* The import keeps its word: rows refer to rows that exist, clean runs are complete, repeated ones
\* write nothing, dry runs foretell real ones, and nothing lands in a foreign collection.
ImportSound == ImpTypeOK /\ ImportComplete /\ ImportRepeatable /\ DryRunForetells /\ NothingForeign
=============================================================================
