------------------------------ MODULE Uploads ------------------------------
(***************************************************************************)
(* Chunked uploads (internal/files/uploads.go): one transfer of one user,  *)
(* from the MKCOL of its folder over the PUTs of its chunks to the MOVE of *)
(* .file that assembles them, with retries of requests that still run,     *)
(* deletions, broken connections and crashes of the server.                *)
(*                                                                         *)
(* A session is a row of `uploads`; its chunks are files of a staging      *)
(* folder.  A client that starts over under the same transfer id gets a    *)
(* new row, and a chunk remembers for which it was sent, and whether all   *)
(* of it arrived.  The write of the destination is one step here; its own  *)
(* steps are those of DavWrite.  Whether the folder itself exists makes no *)
(* difference: MkdirMeta tolerates one, Create makes it, List tolerates    *)
(* its absence.  Chunk names are plain numbers of one width, so that the   *)
(* order of names, in which folders list, is that of indices.              *)
(***************************************************************************)
EXTENDS Integers, Sequences, FiniteSets, SequencesExt

CONSTANTS
  MaxWidth,    \* bound: requests that are under way at a time
  UplScenes,   \* what the client does: see UplSceneOK
  ChunkCount   \* chunks the client cuts its file into

UplOps == {"put", "drop", "move", "delete"}

UplSlots == 1 .. MaxWidth

\* width: requests the client has under way at a time (of at most MaxWidth);
\* declared: the client sends OC-Total-Length; summed: it sends OC-Checksum;
\* overwrite: the MOVE may replace a file; ops, sends: the requests it makes;
\* sessions: how often it makes the folder; breaks, crashes: bounds on faults.
UplSceneOK(s) ==
  /\ {s.declared, s.summed, s.overwrite} \subseteq BOOLEAN
  /\ s.ops \subseteq UplOps
  /\ {s.sends, s.sessions, s.breaks, s.crashes} \subseteq Nat /\ s.width <= MaxWidth

ASSUME UploadsAssumption ==
  /\ ChunkCount \in Nat \ {0} /\ MaxWidth \in Nat
  /\ \A s \in UplScenes : UplSceneOK(s)

VARIABLES
  plan,      \* the scene of this behaviour; it never changes
  session,   \* the row: the folder's generation, or 0
  staged,    \* the chunk files: index -> generation and wholeness, or NoChunk
  temps,     \* requests whose temporary file is in the folder
  slot,      \* the requests under way
  file,      \* the destination: a sequence of chunks, <<>> when there is none
  older,     \* versions of the destination, newest last
  client,    \* the client's view: generation, chunks acknowledged, requests sent
  fault,     \* faults so far
  past       \* what has happened that the properties make an exception of

uplVars == <<plan, session, staged, temps, slot, file, older, client, fault, past>>

Indices == 1 .. ChunkCount
Generations == 1 .. plan.sessions
NoChunk == [gen |-> 0, whole |-> FALSE]
Chunks == [gen : Generations, whole : BOOLEAN]
Initially == <<[gen |-> 0, whole |-> TRUE]>>   \* the file that exists beforehand
Complete(g) == [i \in Indices |-> [gen |-> g, whole |-> TRUE]]

Idle == [op |-> "none", pc |-> "done", gen |-> 0, index |-> 0, listed |-> {}, opened |-> <<>>,
         total |-> 0, size |-> 0]
Listing == {i \in Indices : staged[i] # NoChunk}
Busy(q) == slot[q].op # "none"
\* Requests that are removing the folder, from their listing on.
Removing(q) == slot[q].pc \in {"erase", "row"}

PCs == {"done", "session", "create", "copy", "stat", "erase1", "dest", "list", "open",
        "write", "sum", "again", "erase", "row"}

\* A chunk file, or a chunk of an assembled one, and a request under way.
Piece == [gen : Nat, whole : BOOLEAN]
Request == [op : UplOps \cup {"none"}, pc : PCs, gen : Nat, index : Indices \cup {0}, listed : SUBSET Indices,
            opened : Seq(Piece), total : Nat, size : Nat]
Exceptions == {"late", "crossed", "broken"}

UplTypeOK ==
  /\ plan \in UplScenes
  /\ session \in Nat
  /\ staged \in [Indices -> Piece]
  /\ temps \subseteq UplSlots
  /\ slot \in [UplSlots -> Request]
  /\ file \in Seq(Piece) /\ older \in Seq(Seq(Piece))
  /\ client \in [gen : Nat, acked : SUBSET Indices, sent : Nat]
  /\ fault \in [breaks : Nat, crashes : Nat]
  /\ past \subseteq Exceptions

-----------------------------------------------------------------------------
(* Starting and ending requests.                                           *)

Send(q, op, i) ==
  /\ ~Busy(q) /\ q <= plan.width /\ \A r \in 1 .. (q - 1) : Busy(r)   \* the first that is free
  /\ client.sent < plan.sends /\ op \in plan.ops
  /\ slot' = [slot EXCEPT ![q] = [Idle EXCEPT !.op = op, !.pc = "session", !.gen = client.gen, !.index = i]]
  /\ UNCHANGED <<plan, session, staged, temps, file, older, fault>>

\* What the client knows after sending: the chunks it still counts on.
Sent(acked) == [gen |-> client.gen, acked |-> acked, sent |-> client.sent + 1]

Goto(q, pc) == slot' = [slot EXCEPT ![q].pc = pc]
End(q) == slot' = [slot EXCEPT ![q] = Idle]
Unseen == UNCHANGED <<plan, client, fault>>

\* The client sends a chunk of the folder it has made, or sends it again until
\* it is acknowledged; the former request for it may still be running, and so
\* may a deletion of the folder, when it starts over without waiting for it.
SendPut(q, i) ==
  /\ client.gen # 0 /\ i \notin client.acked
  /\ Send(q, "put", i)
  /\ client' = Sent(client.acked)
  /\ past' = IF \E r \in UplSlots : slot[r].op = "delete" THEN past \cup {"crossed"} ELSE past

\* It takes a chunk back; it no longer counts on it.  It may do so in a folder
\* whose removal a crash has cut short.
SendDrop(q, i) ==
  /\ i \in client.acked /\ \A r \in UplSlots : Busy(r) => slot[r].op \notin {"put", "move"}
  /\ Send(q, "drop", i)
  /\ client' = Sent(client.acked \ {i})
  /\ past' = IF client.acked \subseteq Listing THEN past ELSE past \cup {"crossed"}

\* It asks for the assembly once every chunk is acknowledged, and again when
\* it has lost the answer or was told of a failure.
SendMove(q) ==
  /\ client.acked = Indices /\ \A r \in UplSlots : slot[r].op # "drop"
  /\ Send(q, "move", 0)
  /\ client' = Sent(client.acked)
  /\ UNCHANGED past

\* It gives the transfer up.
SendDelete(q) ==
  /\ client.gen # 0
  /\ Send(q, "delete", 0)
  /\ client' = Sent({})
  /\ UNCHANGED past

\* MkdirMeta: the row is unique; a client that gets ErrExists has no new folder.
MkdirMeta ==
  /\ session = 0 /\ client.gen < plan.sessions
  /\ session' = client.gen + 1
  /\ client' = [gen |-> client.gen + 1, acked |-> {}, sent |-> client.sent]
  /\ past' = IF \E q \in UplSlots : slot[q].op \in {"move", "delete"} THEN past \cup {"crossed"} ELSE past
  /\ UNCHANGED <<plan, staged, temps, slot, file, older, fault>>

-----------------------------------------------------------------------------
(* Sessions.Get at the head of every request: none means 404.              *)

FirstStep(op) == CASE op = "put" -> "create" [] op = "drop" -> "erase1" [] op = "move" -> "dest" [] OTHER -> "erase"

SessionGet(q) ==
  /\ slot[q].pc = "session"
  /\ slot' = [slot EXCEPT ![q] = IF session = 0 THEN Idle
                                 ELSE [@ EXCEPT !.pc = FirstStep(slot[q].op), !.total = IF plan.declared THEN ChunkCount ELSE 0,
                                                !.listed = IF slot[q].op = "delete" THEN Listing ELSE {}]]
  /\ temps' = IF session # 0 /\ slot[q].op = "delete" THEN {} ELSE temps
  /\ Unseen /\ UNCHANGED <<session, staged, file, older, past>>

-----------------------------------------------------------------------------
(* Uploads.Write: a temporary file in the folder, which Close renames.     *)

WriteCreate(q) ==
  /\ slot[q].pc = "create"
  /\ temps' = temps \cup {q} /\ Goto(q, "copy")
  /\ Unseen /\ UNCHANGED <<session, staged, file, older, past>>

\* A part that request q publishes goes unnoticed: an assembly that has seen the
\* sizes opens chunks, or no declared total reveals it and the chunk had arrived
\* or a request is about to report its arrival.
Unnoticed(q) ==
  \/ \E r \in UplSlots : slot[r].pc = "open"
  \/ /\ ~plan.declared
     /\ \/ staged[slot[q].index].whole
        \/ \E r \in UplSlots : slot[r].pc = "stat" /\ slot[r].index = slot[q].index

\* Exceptions a publication makes: of a folder that is being removed or is
\* gone, and of a part that goes unnoticed.
Published(q, whole) ==
  (IF session # slot[q].gen \/ \E r \in UplSlots : Removing(r) THEN {"late"} ELSE {})
  \cup (IF ~whole /\ Unnoticed(q) THEN {"broken"} ELSE {})

\* A removal that lists the folder deletes the temporary file too, and then
\* the rename fails; a copy that breaks off is closed, and published, as well.
WriteClose(q, whole) ==
  /\ slot[q].pc = "copy" /\ (whole \/ fault.breaks < plan.breaks)
  /\ IF q \in temps
     THEN /\ staged' = [staged EXCEPT ![slot[q].index] = [gen |-> slot[q].gen, whole |-> whole]]
          /\ past' = past \cup Published(q, whole)
     ELSE UNCHANGED <<staged, past>>
  /\ temps' = temps \ {q}
  /\ IF whole /\ q \in temps THEN Goto(q, "stat") ELSE End(q)
  /\ fault' = IF whole THEN fault ELSE [fault EXCEPT !.breaks = @ + 1]
  /\ UNCHANGED <<plan, session, file, older, client>>

\* Write answers with the Stat of what it stored; a chunk removed meanwhile
\* is not acknowledged.
Stat(q) ==
  /\ slot[q].pc = "stat"
  /\ client' = IF session # 0 /\ staged[slot[q].index] # NoChunk /\ slot[q].gen = client.gen
                  /\ \A r \in UplSlots : slot[r].op \notin {"drop", "delete"}
               THEN [client EXCEPT !.acked = @ \cup {slot[q].index}] ELSE client
  /\ End(q)
  /\ UNCHANGED <<plan, session, staged, temps, file, older, fault, past>>

\* Remove of one chunk.
RemoveChunk(q) ==
  /\ slot[q].pc = "erase1"
  /\ staged' = [staged EXCEPT ![slot[q].index] = NoChunk] /\ End(q)
  /\ Unseen /\ UNCHANGED <<session, temps, file, older, past>>

-----------------------------------------------------------------------------
(* Uploads.Remove of the folder, by a DELETE or at the end of Assemble.    *)

\* The mutant: from the last to the first.
NextToEraseBackwards(listed) == CHOOSE i \in listed : \A j \in listed : i >= j

\* The chunks go in the order the folder was listed in, that of their names.
NextToErase(listed) == CHOOSE i \in listed : \A j \in listed : i <= j

\* The mutant of RemoveNext: the row goes first, and the chunks follow it.
RemoveRowFirst(q) ==
  /\ slot[q].pc = "erase" /\ slot[q].listed # {}
  /\ LET i == NextToErase(slot[q].listed)
     IN /\ staged' = [staged EXCEPT ![i] = NoChunk]
        /\ slot' = [slot EXCEPT ![q].listed = @ \ {i}]
  /\ session' = 0
  /\ Unseen /\ UNCHANGED <<temps, file, older, past>>

RemoveNext(q) ==
  /\ slot[q].pc = "erase" /\ slot[q].listed # {}
  /\ LET i == NextToErase(slot[q].listed)
     IN /\ staged' = [staged EXCEPT ![i] = NoChunk]
        /\ slot' = [slot EXCEPT ![q].listed = @ \ {i}]
  /\ Unseen /\ UNCHANGED <<session, temps, file, older, past>>

\* The folder is deleted when it is empty and left when it is not; a file made
\* between looking into it and removing it is an error that ends the request.
RemoveFolder(q) ==
  /\ slot[q].pc = "erase" /\ slot[q].listed = {}
  /\ \/ Goto(q, "row")
     \/ (temps # {} \/ Listing # {}) /\ End(q)
  /\ past' = IF temps # {} \/ Listing # {} THEN past \cup {"late"} ELSE past
  /\ Unseen /\ UNCHANGED <<session, staged, temps, file, older>>

RemoveSession(q) ==
  /\ slot[q].pc = "row"
  /\ session' = 0 /\ End(q)
  /\ Unseen /\ UNCHANGED <<staged, temps, file, older, past>>

-----------------------------------------------------------------------------
(* Uploads.Assemble.                                                       *)

\* The destination: locked or, without overwrite, existing ends it.  The
\* session row gets the destination anew, which nothing reads back.
Destination(q) ==
  /\ slot[q].pc = "dest"
  /\ IF file # <<>> /\ ~plan.overwrite THEN End(q) ELSE Goto(q, "list")
  /\ Unseen /\ UNCHANGED <<session, staged, temps, file, older, past>>

\* The mutant: an empty folder makes an empty file.
ContiguousOrNone(listed) == listed = 1 .. Cardinality(listed)

\* What an assembly asks of the indices it has listed: 1, 2, ... and not none.
Contiguous(listed) == listed # {} /\ listed = 1 .. Cardinality(listed)

\* orderedChunks: the names that are indices, with their sizes; a part counts
\* for nothing.  A gap is found when opening, before anything is written.
List(q) ==
  /\ slot[q].pc = "list"
  /\ IF session = 0 \/ ~Contiguous(Listing) THEN End(q)
     ELSE slot' = [slot EXCEPT ![q].listed = Listing, ![q].pc = "open",
                               ![q].size = Cardinality({i \in Listing : staged[i].whole})]
  /\ Unseen /\ UNCHANGED <<session, staged, temps, file, older, past>>

\* An open chunk keeps its bytes whatever happens to its name.
Open(q) ==
  LET i == Len(slot[q].opened) + 1 IN
  /\ slot[q].pc = "open" /\ i <= Cardinality(slot[q].listed)
  /\ IF staged[i] = NoChunk THEN End(q)
     ELSE slot' = [slot EXCEPT ![q].opened = Append(@, staged[i])]
  /\ Unseen /\ UNCHANGED <<session, staged, temps, file, older, past>>

\* The mutant: a single chunk is taken for a file that was not cut.
TotalUnlessSingle(q) == slot[q].total > 0 /\ Len(slot[q].opened) > 1 => slot[q].size = slot[q].total

\* The listed sizes against the declared total, when there is one.
TotalMatches(q) == slot[q].total > 0 => slot[q].size = slot[q].total

CheckTotal(q) ==
  /\ slot[q].pc = "open" /\ Len(slot[q].opened) = Cardinality(slot[q].listed)
  /\ IF TotalMatches(q) THEN Goto(q, "write") ELSE End(q)
  /\ Unseen /\ UNCHANGED <<session, staged, temps, file, older, past>>

\* WriteIf: refused or failed, or the former content becomes a version.
WriteIf(q) ==
  /\ slot[q].pc = "write"
  /\ \/ End(q) /\ UNCHANGED <<file, older>>
     \/ /\ file' = slot[q].opened
        /\ older' = IF file # <<>> THEN Append(older, file) ELSE older
        /\ Goto(q, IF plan.summed THEN "sum" ELSE "again")
  /\ Unseen /\ UNCHANGED <<session, staged, temps, past>>

\* The checksum of the bytes that were read: when it differs the newest
\* version is put back, or the destination purged when it has none.
SumMatches(content, g) == content = Complete(g)
CheckSum(q) ==
  /\ slot[q].pc = "sum"
  /\ IF SumMatches(slot[q].opened, slot[q].gen) THEN Goto(q, "again") /\ UNCHANGED <<file, older>>
     ELSE /\ file' = IF older = <<>> THEN <<>> ELSE Last(older)
          /\ older' = IF older = <<>> THEN older ELSE Front(older)
          /\ End(q)
  /\ Unseen /\ UNCHANGED <<session, staged, temps, past>>

\* Assemble ends in Remove, which asks for the session again: another
\* assembly may have removed it, and the client is told 404.
RemoveStart(q) ==
  /\ slot[q].pc = "again"
  /\ IF session = 0 THEN End(q) /\ UNCHANGED temps
     ELSE /\ slot' = [slot EXCEPT ![q].pc = "erase", ![q].opened = <<>>,
                                  ![q].listed = Listing]
          /\ temps' = {}
  /\ Unseen /\ UNCHANGED <<session, staged, file, older, past>>

-----------------------------------------------------------------------------
\* The process dies: rows and files stay.  So do its temporary files, which no
\* one will rename any more and the next removal deletes: temps forgets them.
UplCrash ==
  /\ fault.crashes < plan.crashes /\ \E q \in UplSlots : Busy(q)
  /\ slot' = [q \in UplSlots |-> Idle] /\ temps' = {}
  /\ fault' = [fault EXCEPT !.crashes = @ + 1]
  /\ UNCHANGED <<plan, session, staged, file, older, client, past>>

UplStart(s) ==
  /\ plan = s
  /\ session = 0 /\ staged = [i \in Indices |-> NoChunk] /\ temps = {}
  /\ slot = [q \in UplSlots |-> Idle]
  /\ file \in {<<>>, Initially} /\ older = <<>>
  /\ client = [gen |-> 0, acked |-> {}, sent |-> 0]
  /\ fault = [breaks |-> 0, crashes |-> 0]
  /\ past = {}

UplInit == \E s \in UplScenes : UplStart(s)

UplStep(q) ==
  \/ \E i \in Indices : SendPut(q, i) \/ SendDrop(q, i)
  \/ SendMove(q) \/ SendDelete(q)
  \/ SessionGet(q)
  \/ WriteCreate(q) \/ (\E whole \in BOOLEAN : WriteClose(q, whole)) \/ Stat(q) \/ RemoveChunk(q)
  \/ Destination(q) \/ List(q) \/ Open(q) \/ CheckTotal(q) \/ WriteIf(q) \/ CheckSum(q) \/ RemoveStart(q)
  \/ RemoveNext(q) \/ RemoveFolder(q) \/ RemoveSession(q)

UplNext == MkdirMeta \/ UplCrash \/ \E q \in UplSlots : UplStep(q)

UplSpec == UplInit /\ [][UplNext]_uplVars

-----------------------------------------------------------------------------
(* Properties.                                                             *)

\* What an assembly stores is the client's whole file, all of one transfer:
\* never its beginning, a file with a gap or one with a chunk that arrived in
\* part, although a second MOVE, a DELETE and a crash may find the folder half
\* removed (Remove deletes in the order of the indices, which leaves a gap;
\* Assemble demands 1, 2, ...).  Exceptions: a client that starts over while a
\* removal or an assembly of the folder still runs, or takes back one chunk of a
\* folder whose removal was cut short, chunks that arrive at a folder under
\* removal, and a retried PUT that breaks off over the chunk that
\* its twin has stored, where no total was declared or it was already compared.
AssembledWhole ==
  past = {} =>
    \A content \in {file} \cup ToSet(older) :
      content \in {<<>>, Initially} \cup {Complete(g) : g \in Generations}

\* A declared total is enough against every one of these exceptions but the
\* mixing of two transfers: the destination has as many chunks as the client
\* cut, whatever was removed, resent or made anew meanwhile.
DeclaredLength ==
  plan.declared => \A content \in {file} \cup ToSet(older) :
                     content \in {<<>>, Initially} \/ Len(content) = ChunkCount

\* Chunk files always belong to the session whose row exists, through crashes
\* in the middle of a removal: a client that makes the folder anew never finds
\* chunks it has not sent (Remove deletes the row last).  The exception is a chunk
\* published while or after its folder is removed.
NothingInherited ==
  "late" \notin past =>
    \A i \in Indices : staged[i] # NoChunk => session # 0 /\ staged[i].gen = session
=============================================================================
