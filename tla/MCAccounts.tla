----------------------------- MODULE MCAccounts -----------------------------
(* Small instances of Access and of Provision.  The two share no state: a    *)
(* behaviour is one of either, with the other switched off.                  *)
EXTENDS Access, Provision

(* Access: one situation at a time.                                          *)
Base == [ops |-> {}, apps |-> {}, enrolled |-> TRUE, faults |-> TRUE, admin |-> FALSE, maxTime |-> 0, size |-> 3]
\* A client polls while the user opens the link and grants, once or twice.
FlowScene == [Base EXCEPT !.ops = {"poll", "begin", "grant"}, !.size = 4, !.faults = FALSE]
\* The same with an app password at the grant, and the flow running out.
FlowAppScene == [Base EXCEPT !.ops = {"poll", "begin", "grantApp"}, !.apps = {1}, !.maxTime = 2, !.faults = FALSE, !.size = 4]
\* Browser sessions and logout; an app password issued from one, the account deleted.
SessionScene == [Base EXCEPT !.ops = {"login", "logout", "visit"}, !.maxTime = 1, !.size = 4]
DeleteScene == [Base EXCEPT !.ops = {"login", "visit", "issue", "app", "deleteUser"}, !.admin = TRUE, !.faults = FALSE, !.size = 4]
\* A bearer token on two nodes, revoked; the account disabled.
BearerScene == [Base EXCEPT !.ops = {"bearer", "revoke"}, !.apps = {1}, !.maxTime = 3, !.faults = FALSE]
DisabledScene == [Base EXCEPT !.ops = {"bearer"}, !.apps = {1}, !.admin = TRUE, !.maxTime = 1]
\* Office tokens.
WopiScene == [Base EXCEPT !.ops = {"mint", "callback", "gc"}, !.admin = TRUE, !.maxTime = 2]
OffScene == [Base EXCEPT !.faults = FALSE, !.size = 0]
AllScenes == {FlowScene, FlowAppScene, SessionScene, DeleteScene, BearerScene, DisabledScene, WopiScene, OffScene}

(* Provision: the source of an import, and what happens around it.           *)
Person(uid, argon, num, unit) == [kind |-> "user", uid |-> uid, lower |-> uid, argon |-> argon, primary |-> "", email |-> "", account |-> "broken",
                                  quota |-> [num |-> num, unit |-> unit]]
GroupOf(g) == [kind |-> "group", gid |-> g]
MemberOf(g, u) == [kind |-> "member", gid |-> g, uid |-> u]
People == <<[Person("A N", TRUE, 0, "none") EXCEPT !.lower = "ann"], [Person("bob", FALSE, 1, "g") EXCEPT !.primary = "b@x", !.email = "c@x"],
            [Person("c/d", TRUE, 0, "none") EXCEPT !.email = "e@x"],
            GroupOf(""), GroupOf("staff"), MemberOf("gone", "bob"), MemberOf("staff", "A N"), MemberOf("staff", "bob"), MemberOf("staff", "c/d")>>
Tree == <<[kind |-> "home", user |-> "ann", sealed |-> FALSE, there |-> TRUE],
          [kind |-> "dir", user |-> "ann", path |-> <<"a">>], [kind |-> "file", user |-> "ann", path |-> <<"a", "f">>, data |-> "1", stamp |-> "s1"],
          [kind |-> "dir", user |-> "ann", path |-> <<"d">>], [kind |-> "file", user |-> "ann", path |-> <<"d", "x">>, data |-> "2", stamp |-> "s1"],
          [kind |-> "file", user |-> "ann", path |-> <<"g">>, data |-> "3", stamp |-> "s2"], [kind |-> "link", user |-> "ann", path |-> <<"l">>],
          [kind |-> "home", user |-> "bob", sealed |-> TRUE, there |-> TRUE], [kind |-> "file", user |-> "bob", path |-> <<"g">>, data |-> "4", stamp |-> "s1"]>>
Share(type, owner, path, with, token) == [kind |-> "share", type |-> type, owner |-> owner, path |-> path, with |-> with, token |-> token,
                                          store |-> "home", expires |-> "", password |-> ""]
ShareRows == <<Share("user", "ann", <<"g">>, "bob", ""), Share("group", "ann", <<"g">>, "staff", ""), Share("link", "ann", <<"g">>, "", "t1"),
               [Share("link", "ann", <<"g">>, "", "t2") EXCEPT !.expires = "unparseable"], [Share("link", "ann", <<"g">>, "", "t3") EXCEPT !.password = "other"],
               Share("user", "ann", <<"g">>, "bob", ""), Share("remote", "ann", <<"g">>, "bob@far", ""), Share("link", "bob", <<"g">>, "", "t1")>>
Col(kind, id, owner, uri, name) == [kind |-> kind, id |-> id, owner |-> owner, uri |-> uri, name |-> name, color |-> ""]
Obj(of, uri, data, uid) == [kind |-> "obj", of |-> of, uri |-> uri, data |-> data, uid |-> uid]
GrantRow(of, id, sharee, access) == [kind |-> "grant", of |-> of, id |-> id, sharee |-> sharee, access |-> access]
DavSource == <<Col("cal", 11, "ann", "work", ""), Obj(11, "e1", "x", "u1"), Obj(11, "e2", "bad", "u2"), Obj(11, "e3", "y", "u1"),
               Col("cal", 12, "bob", "own", "mine"), Obj(12, "e1", "z", "u1"),
               Col("book", 13, "ann", "book", "people"), Obj(13, "c1", "", "u1"), Obj(13, "c2", "w", "u2"),
               GrantRow("cal", 11, "bob", 3), GrantRow("cal", 12, "ann", 2), GrantRow("book", 13, "bob", 2), GrantRow("cal", 11, "bob", 3), GrantRow("cal", 11, "bob", 1), GrantRow("circle", 11, "bob", 2)>>
TokenRow(id, u, h) == [kind |-> "token", id |-> id, uid |-> u, hash |-> h]
TokenRows == <<TokenRow(1, "A N", "h1"), TokenRow(2, "bob", "h2"), TokenRow(3, "c/d", "h3"), TokenRow(4, "bob", ""), TokenRow(5, "bob", "h2")>>

Source == [users |-> People, files |-> Tree, shares |-> ShareRows, dav |-> DavSource, tokens |-> TokenRows]
Call(c, d) == [cmd |-> c, dry |-> d]
Thrice(c) == <<Call(c, TRUE), Call(c, FALSE), Call(c, FALSE)>>

Settled == [Empty EXCEPT !.users = [u \in {"ann", "bob"} |-> Here(u)], !.groups = {"staff"}]
WithFiles == [Settled EXCEPT !.files = <<"ann", <<"g">>>> :> [dir |-> FALSE, data |-> "0", stamp |-> "s0"] @@ <<"ann", <<"d">>>> :> [dir |-> FALSE, data |-> "5", stamp |-> "s0"]]
\* bob's own calendar is another one; ann has an address book just like the source's.
WithCols == [Settled EXCEPT !.cols = 1 :> [kind |-> "cal", owner |-> "bob", uri |-> "own", props |-> [name |-> "other", color |-> "default"], by |-> 0]
                                  @@ 2 :> [kind |-> "book", owner |-> "ann", uri |-> "book", props |-> [name |-> "people", color |-> ""], by |-> 0], !.next = 3]
Calm == [rows |-> Source, start |-> Empty, calls |-> <<>>, local |-> {}, budget |-> 1, crashes |-> 1, faults |-> 1]
Single(c) == <<Call(c, FALSE)>>
ErrandTable ==
  [off |-> [Calm EXCEPT !.crashes = 0, !.faults = 0],
   people |-> [Calm EXCEPT !.calls = Thrice("users"), !.local = {"removeuser"}],
   hectic |-> [Calm EXCEPT !.calls = Single("users"), !.local = {"boot", "user add", "user delete", "group add", "group delete", "adduser", "removeuser"}, !.budget = 2, !.faults = 0],
   files |-> [Calm EXCEPT !.start = WithFiles, !.calls = <<Call("files", TRUE), Call("files", FALSE)>>, !.local = {"edit", "user delete"}],
   free |-> [Calm EXCEPT !.start = Settled, !.calls = Thrice("files"), !.local = {"edit"}, !.faults = 0],
   shares |-> [Calm EXCEPT !.start = WithFiles, !.calls = Thrice("shares"), !.local = {"unshare", "user delete"}],
   dav |-> [Calm EXCEPT !.start = Settled, !.calls = Thrice("dav")],
   swap |-> [Calm EXCEPT !.start = Settled, !.calls = Single("dav"), !.local = {"make", "drop", "put"}, !.budget = 2, !.faults = 0],
   taken |-> [Calm EXCEPT !.start = WithCols, !.calls = Thrice("dav")],
   flip |-> [Calm EXCEPT !.start = Settled, !.calls = Thrice("dav"), !.rows.dav = Append(DavSource, GrantRow("cal", 11, "bob", 2)), !.faults = 0, !.crashes = 0],
   tokens |-> [Calm EXCEPT !.start = Settled, !.calls = Thrice("tokens"), !.local = {"user delete", "user add"}]]
AllErrands == ErrandTable

AccountsInit == Init /\ ImpInit /\ (errand # "off" => scene = OffScene)
AccountsNext == (errand = "off" /\ Next /\ UNCHANGED impVars) \/ (errand # "off" /\ ImpNext /\ UNCHANGED vars)
Accounts == AccountsInit /\ [][AccountsNext]_<<vars, impVars>>
=============================================================================
