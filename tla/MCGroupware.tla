----------------------------- MODULE MCGroupware -----------------------------
(* Small instances of Mail and of Calendar.  The two share no state: a       *)
(* behaviour is one of either, with the other switched off.                  *)
EXTENDS Mail, Calendar, TLC

(* A scene of Mail says which requests, how many, how many at a time, what   *)
(* happens on the server, and how many calls fail.                           *)
Quiet == [ops |-> {"sync"}, requests |-> 2, width |-> 1, events |-> {}, changes |-> 0, faults |-> 0, maxNew |-> 2,
          present |-> Names, mails |-> [n \in Names |-> IF n = "INBOX" THEN {1, 2} ELSE {}],
          order |-> <<"INBOX", "Other">>, refused |-> {}, trash |-> "Other", sent |-> "nowhere", outgoing |-> {}]

\* Two syncs and a third, messages coming and going.
Overlap == [Quiet EXCEPT !.requests = 3, !.width = 2, !.events = {"deliver", "expunge"}, !.changes = 1, !.present = {"INBOX"}]
\* Mailboxes vanish under two syncs.
Vanish == [Quiet EXCEPT !.requests = 3, !.width = 2, !.events = {"remove"}, !.changes = 1,
                        !.mails = [n \in Names |-> IF n = "INBOX" THEN {} ELSE {1}]]
\* One sync at a time, uid spaces reborn, one call fails.
Reborn == [Quiet EXCEPT !.requests = 3, !.events = {"deliver", "expunge", "renumber", "remove", "make"}, !.changes = 2, !.faults = 1, !.maxNew = 3]
\* Deletions and moves beside a sync or each other, then flags.
Live == [Quiet EXCEPT !.ops = {"sync", "delete", "move"}, !.requests = 3, !.width = 2, !.events = {"remove"},
                      !.changes = 1, !.mails = [n \in Names |-> IF n = "INBOX" THEN {1} ELSE {}]]
Marking == [Live EXCEPT !.ops = {"sync", "flag"}, !.changes = 0]
\* One request at a time, one of them cut off, and another client's flags.
CutOff == [Live EXCEPT !.ops = @ \cup {"flag", "read"}, !.requests = 4, !.width = 1, !.events = {"flag"}, !.faults = 1]
\* Sending beside a sync.
Sending == [Quiet EXCEPT !.ops = {"sync", "send"}, !.requests = 3, !.width = 2, !.faults = 1, !.sent = "Other", !.outgoing = {3},
                         !.mails = [n \in Names |-> {}], !.events = {"remove"}, !.changes = 1]
\* Account changes beside each other and a sync.
Accounts == [Quiet EXCEPT !.ops = {"sync", "create", "update", "drop"}, !.requests = 3, !.width = 2,
                          !.present = {"INBOX"}, !.mails = [n \in Names |-> {1}]]

\* A mailbox the server refuses to open, listed first.
Refusing == [Quiet EXCEPT !.order = <<"Other", "INBOX">>, !.refused = {"Other"}]

NoMailScene == [Quiet EXCEPT !.ops = {}, !.requests = 0]


AllScenes == [overlap |-> Overlap, vanish |-> Vanish, reborn |-> Reborn, live |-> Live, marking |-> Marking, cutoff |-> CutOff,
              sending |-> Sending, accounts |-> Accounts, refusing |-> Refusing, off |-> NoMailScene]

(* A stage of Calendar says which objects are put and deleted, which other   *)
(* requests there are, how many, and how many statements fail.               *)
Closed == [puts |-> {}, deletes |-> {}, ops |-> {}, requests |-> 0, width |-> 2, faults |-> 0, reads |-> 0,
           reader |-> <<"cal", "org">>, asking |-> FALSE]

\* The event is changed, answered and cancelled by two at a time.
Meeting == [Closed EXCEPT !.puts = {<<"org", "cal", "own", "e.ics">>, <<"att", "cal", "own", "e.ics">>},
                          !.deletes = {<<"org", "cal", "own", "e.ics">>}, !.requests = 3]
\* One at a time: answered by two, imported under another name, and a statement fails.
Upset == [Meeting EXCEPT !.puts = @ \cup {<<"att", "cal", "own", "f.ics">>, <<"guest", "cal", "own", "e.ics">>},
                         !.deletes = @ \cup {<<"att", "cal", "own", "e.ics">>}, !.requests = 4, !.width = 1, !.faults = 1]
\* Calendars come and go meanwhile.
Moving == [Upset EXCEPT !.puts = {<<"org", "cal", "own", "e.ics">>}, !.ops = {"drop", "make"}]
\* A client watches a calendar.
Watching == [Closed EXCEPT !.puts = {<<"org", "cal", "own", "e.ics">>}, !.requests = 1, !.reads = 1]
\* A client watches an address book that is written under two names.
Contacts == [Closed EXCEPT !.puts = {<<"org", "book", "own", h>> : h \in Hrefs},
                           !.deletes = {<<"org", "book", "own", "e.ics">>}, !.requests = 3, !.reads = 1, !.reader = <<"book", "org">>]
\* The same, shared and dropped, and a statement fails.
Books == [Contacts EXCEPT !.puts = {<<"org", "book", "own", "e.ics">>, <<"guest", "book", "shared", "e.ics">>}, !.deletes = {},
                          !.ops = {"drop", "make", "share"}, !.faults = 1, !.width = 1]
\* A sharee writes into the organizer's calendar.
Shared == [Closed EXCEPT !.puts = {<<"org", "cal", "own", "e.ics">>, <<"guest", "cal", "shared", "e.ics">>},
                         !.deletes = {<<"guest", "cal", "shared", "e.ics">>}, !.ops = {"share"}, !.requests = 3]

Rules == {<<0, 0, 0>>, <<1, 2, 0>>, <<2, 0, 5>>, <<3, 0, 0>>}
Occasions == {[start |-> s, end |-> s + d, step |-> r[1], count |-> r[2], until |-> r[3], transparent |-> t] :
                s \in {0, 2, 3, 4}, d \in {-1, 0, 1, 2, 4}, r \in Rules, t \in {FALSE, TRUE}}
Opaque == {e \in Occasions : ~e.transparent}
\* Calendars of two or three events are asked for busy time.
Asking == [Closed EXCEPT !.asking = TRUE]
TwoEvents == {{d, e} : d, e \in Occasions}

AllStages == [meeting |-> Meeting, upset |-> Upset, moving |-> Moving, contacts |-> Contacts, books |-> Books, shared |-> Shared, watching |-> Watching,
              asking |-> Asking, off |-> Closed]

GroupwareInit == CalInit /\ Init /\ (stage # "off" => scene = "off")
GroupwareNext == (scene # "off" /\ Next /\ UNCHANGED calVars) \/ (stage # "off" /\ CalNext /\ UNCHANGED vars)
Groupware == GroupwareInit /\ [][GroupwareNext]_<<vars, calVars>>

Alike == Permutations(Tasks)
=============================================================================
