--------------------------- MODULE UploadsProofs ---------------------------
(***************************************************************************)
(* Chunked uploads: the destination's length under a declared total, the   *)
(* ownership of chunk files and the wholeness of what is assembled, for    *)
(* any number of chunks, requests and transfers.                           *)
(***************************************************************************)
EXTENDS Uploads, FiniteSetTheorems, NaturalsInduction, WellFoundedInduction, SequenceTheorems, TLAPS

-----------------------------------------------------------------------------
(* The inductive invariant, in parts.                                      *)

\* The step a request is at belongs to its operation; chunk requests name a
\* chunk, and requests for chunks and for an assembly a transfer.
PutPC == {"create", "copy", "stat"}
MovePC == {"dest", "list", "open", "write", "sum", "again"}
Fits(v, g, declared) ==
  /\ v.op = "none" <=> v.pc = "done"
  /\ v.pc \in PutPC => v.op = "put"
  /\ v.pc = "erase1" => v.op = "drop"
  /\ v.pc \in MovePC => v.op = "move"
  /\ v.pc \in {"erase", "row"} => v.op \in {"move", "delete"}
  /\ v.op \in {"put", "drop"} => v.index \in Indices
  /\ v.op \in {"put", "move"} => v.gen # 0
  /\ v.gen <= g
  /\ v.op = "move" /\ v.pc # "session" => v.total = IF declared THEN ChunkCount ELSE 0
OpMatches == \A q \in UplSlots : Fits(slot[q], client.gen, plan.declared)

\* An assembly opens what it has listed, and the listed size counts whole
\* chunks of it.
Opens(v, declared) ==
  /\ v.pc = "open" => Len(v.opened) <= Cardinality(v.listed) /\ v.size <= Cardinality(v.listed)
  /\ v.pc \in {"session", "dest", "list"} => v.opened = <<>>
  /\ v.pc = "write" /\ declared => Len(v.opened) = ChunkCount
Opening == \A q \in UplSlots : Opens(slot[q], plan.declared)

\* The row, when there is one, is of the transfer the client believes in.
Transfer ==
  /\ session \in {0, client.gen} /\ client.gen <= plan.sessions
  /\ client.acked # {} => client.gen # 0

\* A removal that is about to delete the row has emptied the folder.
Emptied == "late" \notin past => \A q \in UplSlots : slot[q].pc = "row" => Listing = {}

\* Nobody takes back a chunk, or the folder, and counts on it.
Doing(op) == \E q \in UplSlots : slot[q].op = op
GivenUp ==
  /\ Doing("delete") => client.acked = {}
  /\ \A q \in UplSlots : slot[q].op = "drop" => slot[q].index \notin client.acked
  /\ ~(Doing("move") /\ Doing("drop"))

\* The client counts on every chunk.
Full == client.acked = Indices
Final == Full \/ Doing("move")

\* Removal in the order of the indices leaves an end of them.
UpTo(S) == \A i \in S, j \in Indices : i < j => j \in S

\* What is staged, as long as no exception was made: assemblies and deletions
\* are of the client's transfer, a removal has listed all that is there, an
\* assembly runs on a full folder until its session or the client gives it up,
\* and what is acknowledged is there until everything is.
Current == \A q \in UplSlots : slot[q].op \in {"move", "delete"} => slot[q].gen = client.gen
ListedAll == \A q \in UplSlots : slot[q].pc = "erase" => Listing \subseteq slot[q].listed
MovedFull == Doing("move") => Full \/ session = 0 \/ (client.acked = {} /\ Doing("delete"))
AckedThere == session # 0 /\ ~Full => client.acked \subseteq Listing
AnEnd == session # 0 /\ Final =>
           \/ Listing = Indices
           \/ UpTo(Listing) /\ ((\E q \in UplSlots : Removing(q)) \/ ~Doing("put"))
Staging == past = {} => Current /\ ListedAll /\ MovedFull /\ AckedThere /\ AnEnd

\* Which chunks are whole, as long as no exception was made: those whose arrival
\* is about to be reported, those acknowledged, and those an assembly has opened.
WholeStat ==
  ~plan.declared => \A q \in UplSlots :
    slot[q].pc = "stat" /\ slot[q].index \in Listing => staged[slot[q].index].whole
WholeAcked ==
  ~plan.declared /\ session # 0 => \A i \in Listing :
    i \in client.acked \/ Doing("move") => staged[i].whole
WholeOpened ==
  \A q \in UplSlots : slot[q].pc = "open" =>
    /\ slot[q].listed = Indices
    /\ \A k \in 1 .. Len(slot[q].opened) : slot[q].opened[k].gen = slot[q].gen
    /\ ~plan.declared \/ slot[q].size = ChunkCount =>
         /\ \A k \in 1 .. Len(slot[q].opened) : slot[q].opened[k].whole
         /\ \A i \in Listing : staged[i].whole
WholeWritten == \A q \in UplSlots : slot[q].pc \in {"write", "sum"} => slot[q].opened = Complete(slot[q].gen)
Wholeness == past = {} => WholeStat /\ WholeAcked /\ WholeOpened /\ WholeWritten

-----------------------------------------------------------------------------
(* Types, and what a step does to the requests.                            *)

\* A non-empty set of chunks has a first.
LEMMA LeastIndex ==
  ASSUME NEW S \in SUBSET Indices, S # {}
  PROVE  \E k \in S : \A j \in S : k <= j
<1> DEFINE R == {ss \in Nat \X Nat : ss[1] < ss[2]}
<1>1. IsWellFoundedOn(R, Nat)
  BY NatLessThanWellFounded DEF OpToRel
<1>2. \A a, b \in Nat : a < b => <<a, b>> \in R
  OBVIOUS
<1>3. S \subseteq Nat
  BY DEF Indices
<1> HIDE DEF R
<1>4. PICK k \in S : \A j \in S : <<j, k>> \notin R
  BY <1>1, <1>3, WFMin
<1>5. k \in Nat /\ \A j \in S : j \in Nat /\ ~(j < k)
  BY <1>2, <1>3, <1>4
<1> QED
  BY <1>5

\* A request that has ended is well typed.
LEMMA IdleType == Idle \in Request
BY DEF Idle, Request, PCs

\* What a request has opened may be replaced.
LEMMA SetOpened ==
  ASSUME NEW v \in Request, NEW o \in Seq(Piece)
  PROVE  [v EXCEPT !.opened = o] \in Request
BY DEF Request

\* Replacing one request leaves the others alone.
LEMMA OneSlot ==
  ASSUME NEW f \in [UplSlots -> Request], NEW q \in UplSlots, NEW v \in Request
  PROVE  /\ [f EXCEPT ![q] = v] \in [UplSlots -> Request]
         /\ \A r \in UplSlots : [f EXCEPT ![q] = v][r] = IF r = q THEN v ELSE f[r]
OBVIOUS

\* A request that goes on to another step keeps everything else.
LEMMA GotoSlot ==
  ASSUME NEW q \in UplSlots, slot \in [UplSlots -> Request], NEW pc \in PCs, Goto(q, pc)
  PROVE  /\ slot' \in [UplSlots -> Request]
         /\ \A r \in UplSlots \ {q} : slot'[r] = slot[r]
         /\ slot'[q] = [slot[q] EXCEPT !.pc = pc]
         /\ slot'[q].pc = pc
         /\ \A r \in UplSlots : /\ slot'[r].op = slot[r].op /\ slot'[r].gen = slot[r].gen
                                /\ slot'[r].index = slot[r].index /\ slot'[r].listed = slot[r].listed
                                /\ slot'[r].opened = slot[r].opened /\ slot'[r].total = slot[r].total
                                /\ slot'[r].size = slot[r].size
<1>1. slot' = [slot EXCEPT ![q] = [slot[q] EXCEPT !.pc = pc]]
  BY DEF Goto
<1>2. slot[q] \in Request
  OBVIOUS
<1>3. [slot[q] EXCEPT !.pc = pc] \in Request
  BY <1>2 DEF Request
<1>4. \A r \in UplSlots : slot'[r] = IF r = q THEN [slot[q] EXCEPT !.pc = pc] ELSE slot[r]
  BY <1>1, <1>3, OneSlot
<1>5. slot' \in [UplSlots -> Request]
  BY <1>1, <1>3, OneSlot
<1>6. slot'[q] = [slot[q] EXCEPT !.pc = pc] /\ \A r \in UplSlots \ {q} : slot'[r] = slot[r]
  BY <1>4
<1>7. /\ slot'[q].pc = pc /\ slot'[q].op = slot[q].op /\ slot'[q].gen = slot[q].gen
      /\ slot'[q].index = slot[q].index /\ slot'[q].listed = slot[q].listed
      /\ slot'[q].opened = slot[q].opened /\ slot'[q].total = slot[q].total /\ slot'[q].size = slot[q].size
  BY <1>2, <1>6 DEF Request
<1> QED
  BY <1>5, <1>6, <1>7

\* A request that ends leaves the others alone.
LEMMA EndSlot ==
  ASSUME NEW q \in UplSlots, slot \in [UplSlots -> Request], End(q)
  PROVE  /\ slot' \in [UplSlots -> Request]
         /\ \A r \in UplSlots \ {q} : slot'[r] = slot[r]
         /\ slot'[q] = Idle
BY IdleType, OneSlot DEF End

\* A request that is sent takes a free place.
LEMMA SendSlot ==
  ASSUME UplTypeOK, NEW q \in UplSlots, NEW op \in UplOps, NEW i \in Indices \cup {0}, Send(q, op, i)
  PROVE  /\ slot' \in [UplSlots -> Request]
         /\ \A r \in UplSlots \ {q} : slot'[r] = slot[r]
         /\ slot[q].op = "none"
         /\ slot'[q].op = op /\ slot'[q].pc = "session" /\ slot'[q].gen = client.gen /\ slot'[q].index = i
         /\ slot'[q].opened = <<>>
<1> DEFINE v == [Idle EXCEPT !.op = op, !.pc = "session", !.gen = client.gen, !.index = i]
<1>1. slot' = [slot EXCEPT ![q] = v] /\ slot[q].op = "none"
  BY DEF Send, Busy
<1>2. v \in Request
  BY IdleType DEF Request, Idle, PCs, UplTypeOK
<1>3. slot' \in [UplSlots -> Request] /\ \A r \in UplSlots : slot'[r] = IF r = q THEN v ELSE slot[r]
  BY <1>1, <1>2, OneSlot DEF UplTypeOK
<1> QED
  BY <1>1, <1>3 DEF Idle

\* A request that finds its session goes to its operation's first step.
LEMMA GetSlot ==
  ASSUME UplTypeOK, NEW q \in UplSlots, SessionGet(q)
  PROVE  /\ slot' \in [UplSlots -> Request]
         /\ \A r \in UplSlots \ {q} : slot'[r] = slot[r]
         /\ IF session = 0 THEN slot'[q] = Idle
            ELSE /\ slot'[q].op = slot[q].op /\ slot'[q].pc = FirstStep(slot[q].op)
                 /\ slot'[q].gen = slot[q].gen /\ slot'[q].index = slot[q].index
                 /\ slot'[q].listed = (IF slot[q].op = "delete" THEN Listing ELSE {})
                 /\ slot'[q].opened = slot[q].opened
                 /\ slot'[q].total = (IF plan.declared THEN ChunkCount ELSE 0)
<1> DEFINE v == IF session = 0 THEN Idle
                ELSE [slot[q] EXCEPT !.pc = FirstStep(slot[q].op), !.total = IF plan.declared THEN ChunkCount ELSE 0,
                                     !.listed = IF slot[q].op = "delete" THEN Listing ELSE {}]
<1>1. slot' = [slot EXCEPT ![q] = v]
  BY DEF SessionGet
<1>2. slot[q] \in Request
  BY DEF UplTypeOK
<1>3. /\ FirstStep(slot[q].op) \in PCs /\ ChunkCount \in Nat
      /\ Listing \subseteq Indices
  BY UploadsAssumption DEF FirstStep, PCs, Listing
<1>4. v \in Request
  BY <1>2, <1>3, IdleType DEF Request
<1>5. slot' \in [UplSlots -> Request] /\ \A r \in UplSlots : slot'[r] = IF r = q THEN v ELSE slot[r]
  <2> HIDE DEF v
  <2> QED
    BY <1>1, <1>4, OneSlot DEF UplTypeOK
<1>6. slot'[q] = v /\ \A r \in UplSlots \ {q} : slot'[r] = slot[r]
  BY <1>5
<1> QED
  BY <1>2, <1>5, <1>6 DEF Request

\* An assembly lists the folder.
LEMMA ListSlot ==
  ASSUME UplTypeOK, NEW q \in UplSlots, List(q)
  PROVE  /\ slot' \in [UplSlots -> Request]
         /\ \A r \in UplSlots \ {q} : slot'[r] = slot[r]
         /\ \/ slot'[q] = Idle
            \/ /\ session # 0 /\ Contiguous(Listing)
               /\ slot'[q].op = slot[q].op /\ slot'[q].pc = "open"
               /\ slot'[q].gen = slot[q].gen /\ slot'[q].index = slot[q].index
               /\ slot'[q].listed = Listing
               /\ slot'[q].size = Cardinality({i \in Listing : staged[i].whole})
               /\ slot'[q].opened = slot[q].opened /\ slot'[q].total = slot[q].total
<1>1. CASE End(q)
  BY <1>1, EndSlot DEF UplTypeOK
<1>2. CASE session # 0 /\ Contiguous(Listing) /\ ~End(q)
  <2> DEFINE n == Cardinality({i \in Listing : staged[i].whole})
             v == [slot[q] EXCEPT !.listed = Listing, !.pc = "open", !.size = n]
  <2>1. slot' = [slot EXCEPT ![q] = v]
    BY <1>2 DEF List
  <2>2. slot[q] \in Request
    BY DEF UplTypeOK
  <2>3. n \in Nat
    <3>1. IsFiniteSet(Indices)
      BY FS_Interval, UploadsAssumption DEF Indices
    <3> QED
      BY <3>1, FS_Subset, FS_CardinalityType DEF Listing
  <2> HIDE DEF n
  <2>4. v \in Request
    BY <2>2, <2>3 DEF Request, PCs, Listing
  <2>5. slot' \in [UplSlots -> Request] /\ \A r \in UplSlots : slot'[r] = IF r = q THEN v ELSE slot[r]
    <3> HIDE DEF v
    <3> QED
      BY <2>1, <2>4, OneSlot DEF UplTypeOK
  <2>6. slot'[q] = v /\ \A r \in UplSlots \ {q} : slot'[r] = slot[r]
    BY <2>5
  <2> QED
    BY <1>2, <2>2, <2>5, <2>6 DEF Request, n
<1> QED
  BY <1>1, <1>2 DEF List

\* An assembly opens the next chunk.
LEMMA OpenSlot ==
  ASSUME UplTypeOK, NEW q \in UplSlots, Open(q)
  PROVE  /\ slot' \in [UplSlots -> Request]
         /\ \A r \in UplSlots \ {q} : slot'[r] = slot[r]
         /\ \/ slot'[q] = Idle
            \/ /\ slot[q].pc = "open" /\ Len(slot[q].opened) + 1 <= Cardinality(slot[q].listed)
               /\ staged[Len(slot[q].opened) + 1] # NoChunk
               /\ Len(slot[q].opened) + 1 \in Indices
               /\ slot'[q].op = slot[q].op /\ slot'[q].pc = "open"
               /\ slot'[q].gen = slot[q].gen /\ slot'[q].index = slot[q].index
               /\ slot'[q].listed = slot[q].listed /\ slot'[q].size = slot[q].size
               /\ slot'[q].opened = Append(slot[q].opened, staged[Len(slot[q].opened) + 1])
               /\ slot'[q].total = slot[q].total
<1>1. CASE End(q)
  BY <1>1, EndSlot DEF UplTypeOK
<1>2. CASE ~End(q)
  <2> DEFINE i == Len(slot[q].opened) + 1
             v == [slot[q] EXCEPT !.opened = Append(@, staged[i])]
  <2>1. slot' = [slot EXCEPT ![q] = v] /\ slot[q].pc = "open" /\ i <= Cardinality(slot[q].listed) /\ staged[i] # NoChunk
    BY <1>2 DEF Open
  <2>2. slot[q] \in Request
    BY DEF UplTypeOK
  <2>3. i \in Indices
    <3>1. IsFiniteSet(Indices) /\ Cardinality(Indices) = ChunkCount
      BY FS_Interval, UploadsAssumption DEF Indices
    <3>2. slot[q].listed \subseteq Indices /\ slot[q].opened \in Seq(Piece)
      BY <2>2 DEF Request
    <3>3. Cardinality(slot[q].listed) \in Nat /\ Cardinality(slot[q].listed) <= ChunkCount
      BY <3>1, <3>2, FS_Subset, FS_CardinalityType
    <3> QED
      BY <2>1, <3>2, <3>3, UploadsAssumption DEF Indices
  <2>4. staged[i] \in Piece
    BY <2>3 DEF UplTypeOK
  <2>5. v \in Request
    <3>1. Append(slot[q].opened, staged[i]) \in Seq(Piece)
      BY <2>2, <2>4, AppendProperties DEF Request
    <3> HIDE DEF i
    <3> QED
      BY <2>2, <3>1, SetOpened
  <2>6. slot' \in [UplSlots -> Request] /\ \A r \in UplSlots : slot'[r] = IF r = q THEN v ELSE slot[r]
    <3> HIDE DEF v
    <3> QED
      BY <2>1, <2>5, OneSlot DEF UplTypeOK
  <2>7. slot'[q] = v /\ \A r \in UplSlots \ {q} : slot'[r] = slot[r]
    BY <2>6
  <2> QED
    BY <2>1, <2>2, <2>3, <2>6, <2>7 DEF Request
<1> QED
  BY <1>1, <1>2

\* An assembly goes over to the removal of the folder.
LEMMA RemoveStartSlot ==
  ASSUME UplTypeOK, NEW q \in UplSlots, RemoveStart(q)
  PROVE  /\ slot' \in [UplSlots -> Request]
         /\ \A r \in UplSlots \ {q} : slot'[r] = slot[r]
         /\ \/ slot'[q] = Idle
            \/ /\ session # 0
               /\ slot'[q].op = slot[q].op /\ slot'[q].pc = "erase"
               /\ slot'[q].gen = slot[q].gen /\ slot'[q].index = slot[q].index
               /\ slot'[q].listed = Listing
               /\ slot'[q].opened = <<>> /\ slot'[q].total = slot[q].total
<1>1. CASE End(q)
  BY <1>1, EndSlot DEF UplTypeOK
<1>2. CASE ~End(q)
  <2> DEFINE v == [slot[q] EXCEPT !.pc = "erase", !.opened = <<>>, !.listed = Listing]
  <2>1. slot' = [slot EXCEPT ![q] = v] /\ session # 0
    BY <1>2 DEF RemoveStart
  <2>2. slot[q] \in Request
    BY DEF UplTypeOK
  <2>3. v \in Request
    <3> DEFINE u == [slot[q] EXCEPT !.pc = "erase", !.listed = Listing]
    <3>1. u \in Request
      BY <2>2 DEF Request, PCs, Listing
    <3>2. v = [u EXCEPT !.opened = <<>>]
      BY <2>2 DEF Request
    <3>3. <<>> \in Seq(Piece)
      OBVIOUS
    <3> QED
      BY <3>1, <3>2, <3>3, SetOpened
  <2>4. slot' \in [UplSlots -> Request] /\ \A r \in UplSlots : slot'[r] = IF r = q THEN v ELSE slot[r]
    <3> HIDE DEF v
    <3> QED
      BY <2>1, <2>3, OneSlot DEF UplTypeOK
  <2>5. slot'[q] = v /\ \A r \in UplSlots \ {q} : slot'[r] = slot[r]
    BY <2>4
  <2> QED
    BY <2>1, <2>2, <2>4, <2>5 DEF Request
<1> QED
  BY <1>1, <1>2

\* A removal deletes the first chunk of its listing.
LEMMA RemoveNextSlot ==
  ASSUME UplTypeOK, NEW q \in UplSlots, RemoveNext(q)
  PROVE  /\ slot' \in [UplSlots -> Request]
         /\ \A r \in UplSlots \ {q} : slot'[r] = slot[r]
         /\ \A r \in UplSlots : /\ slot'[r].op = slot[r].op /\ slot'[r].pc = slot[r].pc
                                /\ slot'[r].gen = slot[r].gen /\ slot'[r].index = slot[r].index
                                /\ slot'[r].opened = slot[r].opened /\ slot'[r].total = slot[r].total
                                /\ slot'[r].size = slot[r].size
         /\ \E i \in Indices : /\ i \in slot[q].listed /\ \A j \in slot[q].listed : i <= j
                               /\ slot'[q].listed = slot[q].listed \ {i}
                               /\ staged' = [staged EXCEPT ![i] = NoChunk]
<1> DEFINE i == NextToErase(slot[q].listed)
           v == [slot[q] EXCEPT !.listed = @ \ {i}]
<1>1. /\ slot' = [slot EXCEPT ![q] = v] /\ staged' = [staged EXCEPT ![i] = NoChunk]
      /\ slot[q].listed # {}
  BY DEF RemoveNext
<1>2. slot[q] \in Request
  BY DEF UplTypeOK
<1>3. i \in slot[q].listed /\ \A j \in slot[q].listed : i <= j
  <2>1. slot[q].listed \subseteq Indices /\ slot[q].listed # {}
    BY <1>1, <1>2 DEF Request
  <2>2. \E k \in slot[q].listed : \A j \in slot[q].listed : k <= j
    BY <2>1, LeastIndex
  <2> QED
    BY <2>2 DEF NextToErase
<1>4. i \in Indices
  BY <1>2, <1>3 DEF Request
<1> HIDE DEF i
<1>5. v \in Request
  BY <1>2 DEF Request
<1>6. slot' \in [UplSlots -> Request] /\ \A r \in UplSlots : slot'[r] = IF r = q THEN v ELSE slot[r]
  <2> HIDE DEF v
  <2> QED
    BY <1>1, <1>5, OneSlot DEF UplTypeOK
<1>7. slot'[q] = v /\ \A r \in UplSlots \ {q} : slot'[r] = slot[r]
  BY <1>6
<1>8. /\ v.op = slot[q].op /\ v.pc = slot[q].pc /\ v.gen = slot[q].gen /\ v.index = slot[q].index
      /\ v.opened = slot[q].opened /\ v.total = slot[q].total /\ v.size = slot[q].size
      /\ v.listed = slot[q].listed \ {i}
  BY <1>2 DEF Request
<1> HIDE DEF v
<1> QED
  BY <1>1, <1>3, <1>4, <1>6, <1>7, <1>8

\* Every step of a request keeps the types of the requests and of what is staged,
\* and leaves the other requests alone.
LEMMA StepSlots ==
  ASSUME UplTypeOK, NEW q \in UplSlots, UplStep(q)
  PROVE  /\ slot' \in [UplSlots -> Request]
         /\ \A r \in UplSlots \ {q} : slot'[r] = slot[r]
<1> DEFINE Kept == /\ slot' \in [UplSlots -> Request]
                   /\ \A r \in UplSlots \ {q} : slot'[r] = slot[r]
<1> USE DEF UplTypeOK
<1>1. ASSUME NEW i \in Indices, SendPut(q, i) PROVE Kept
  BY <1>1, SendSlot DEF SendPut, UplOps
<1>2. ASSUME NEW i \in Indices, SendDrop(q, i) PROVE Kept
  BY <1>2, SendSlot DEF SendDrop, UplOps
<1>3. CASE SendMove(q)
  BY <1>3, SendSlot DEF SendMove, UplOps
<1>4. CASE SendDelete(q)
  BY <1>4, SendSlot DEF SendDelete, UplOps
<1>5. CASE SessionGet(q)
  BY <1>5, GetSlot
<1>6. CASE WriteCreate(q)
  BY <1>6, GotoSlot DEF WriteCreate, PCs
<1>7. ASSUME NEW whole \in BOOLEAN, WriteClose(q, whole) PROVE Kept
  <2>1. Goto(q, "stat") \/ End(q)
    BY <1>7 DEF WriteClose
  <2> QED
    BY <2>1, GotoSlot, EndSlot DEF PCs
<1>8. CASE Stat(q)
  BY <1>8, EndSlot DEF Stat
<1>9. CASE RemoveChunk(q)
  BY <1>9, EndSlot DEF RemoveChunk
<1>10. CASE Destination(q)
  BY <1>10, GotoSlot, EndSlot DEF Destination, PCs
<1>11. CASE List(q)
  BY <1>11, ListSlot
<1>12. CASE Open(q)
  BY <1>12, OpenSlot
<1>13. CASE CheckTotal(q)
  BY <1>13, GotoSlot, EndSlot DEF CheckTotal, PCs
<1>14. CASE WriteIf(q)
  <2>1. Goto(q, "sum") \/ Goto(q, "again") \/ End(q)
    BY <1>14 DEF WriteIf
  <2> QED
    BY <2>1, GotoSlot, EndSlot DEF PCs
<1>15. CASE CheckSum(q)
  BY <1>15, GotoSlot, EndSlot DEF CheckSum, PCs
<1>16. CASE RemoveStart(q)
  BY <1>16, RemoveStartSlot
<1>17. CASE RemoveNext(q)
  BY <1>17, RemoveNextSlot
<1>18. CASE RemoveFolder(q)
  BY <1>18, GotoSlot, EndSlot DEF RemoveFolder, PCs
<1>19. CASE RemoveSession(q)
  BY <1>19, EndSlot DEF RemoveSession
<1> HIDE DEF UplTypeOK
<1> QED
  BY <1>1, <1>2, <1>3, <1>4, <1>5, <1>6, <1>7, <1>8, <1>9, <1>10, <1>11, <1>12, <1>13, <1>14, <1>15,
     <1>16, <1>17, <1>18, <1>19 DEF UplStep

\* A chunk that is stored or removed keeps the type of what is staged.
LEMMA SetStaged ==
  ASSUME NEW f \in [Indices -> Piece], NEW i, NEW c \in Piece
  PROVE  /\ [f EXCEPT ![i] = c] \in [Indices -> Piece]
         /\ \A j \in Indices : [f EXCEPT ![i] = c][j] = IF j = i THEN c ELSE f[j]
OBVIOUS

\* Removing a chunk leaves a piece, the missing one.
LEMMA NoChunkType == NoChunk \in Piece
BY DEF NoChunk, Piece

\* The scene never changes and exceptions are never forgotten.
LEMMA Steady ==
  ASSUME [UplNext]_uplVars
  PROVE  plan' = plan /\ past \subseteq past'
<1>1. CASE UNCHANGED uplVars
  BY <1>1 DEF uplVars
<1>2. CASE MkdirMeta
  BY <1>2 DEF MkdirMeta
<1>3. CASE UplCrash
  BY <1>3 DEF UplCrash
<1>4. ASSUME NEW q \in UplSlots, UplStep(q) PROVE plan' = plan /\ past \subseteq past'
  BY <1>4 DEF UplStep, SendPut, SendDrop, SendMove, SendDelete, Send, SessionGet, WriteCreate, WriteClose, Stat,
     RemoveChunk, Destination, List, Open, CheckTotal, WriteIf, CheckSum, RemoveStart, RemoveNext, RemoveFolder,
     RemoveSession, Unseen
<1> QED
  BY <1>1, <1>2, <1>3, <1>4 DEF UplNext

\* The newest version is one of the versions, and so are the others.
LEMMA Rollback ==
  ASSUME NEW S, NEW o \in Seq(S), o # <<>>
  PROVE  /\ Last(o) \in S /\ Front(o) \in Seq(S)
         /\ ToSet(o) = ToSet(Front(o)) \cup {Last(o)}
<1>1. Len(o) \in Nat \ {0} /\ o \in [1 .. Len(o) -> S]
  BY EmptySeq, LenProperties
<1>2. /\ Front(o) \in Seq(S) /\ Len(Front(o)) = Len(o) - 1
      /\ \A i \in 1 .. (Len(o) - 1) : Front(o)[i] = o[i]
  BY <1>1, SubSeqProperties DEF Front
<1>3. Last(o) = o[Len(o)] /\ Last(o) \in S
  BY <1>1 DEF Last
<1> QED
  BY <1>1, <1>2, <1>3 DEF ToSet

\* Adding a version adds one content.
LEMMA Archive ==
  ASSUME NEW S, NEW o \in Seq(S), NEW x \in S
  PROVE  /\ Append(o, x) \in Seq(S)
         /\ ToSet(Append(o, x)) = ToSet(o) \cup {x}
<1>1. /\ Append(o, x) \in Seq(S) /\ Len(Append(o, x)) = Len(o) + 1 /\ Len(o) \in Nat
      /\ \A i \in 1 .. Len(o) : Append(o, x)[i] = o[i]
      /\ Append(o, x)[Len(o) + 1] = x
  BY AppendProperties, LenProperties
<1>2. PICK a : a = Append(o, x)
  OBVIOUS
<1> QED
  BY <1>1, <1>2 DEF ToSet

\* What the client knows after a request is sent, a chunk acknowledged or the
\* folder made.
View == [gen : Nat, acked : SUBSET Indices, sent : Nat]
LEMMA ClientView ==
  ASSUME NEW c \in View, NEW a \in SUBSET Indices
  PROVE  /\ [gen |-> c.gen + 1, acked |-> a, sent |-> c.sent] \in View
         /\ [gen |-> c.gen, acked |-> a, sent |-> c.sent + 1] \in View
         /\ [c EXCEPT !.acked = a] \in View
BY DEF View

\* Types are kept.
LEMMA TypeStep == UplTypeOK /\ OpMatches /\ [UplNext]_uplVars => UplTypeOK'
<1> SUFFICES ASSUME UplTypeOK, OpMatches, [UplNext]_uplVars PROVE UplTypeOK'
  OBVIOUS
<1> DEFINE Rest == /\ session' \in Nat /\ staged' \in [Indices -> Piece] /\ temps' \subseteq UplSlots
                   /\ file' \in Seq(Piece) /\ older' \in Seq(Seq(Piece))
                   /\ client' \in [gen : Nat, acked : SUBSET Indices, sent : Nat]
                   /\ fault' \in [breaks : Nat, crashes : Nat]
                   /\ past' \subseteq Exceptions
<1>0. plan' \in UplScenes
  BY Steady DEF UplTypeOK
<1>1. CASE UNCHANGED uplVars
  BY <1>1 DEF uplVars, UplTypeOK
<1>2. CASE MkdirMeta
  <2>1. past' \subseteq Exceptions
    BY <1>2 DEF MkdirMeta, UplTypeOK, Exceptions
  <2>2. client' \in [gen : Nat, acked : SUBSET Indices, sent : Nat] /\ session' \in Nat
    <3>1. client' = [gen |-> client.gen + 1, acked |-> {}, sent |-> client.sent] /\ session' = client.gen + 1 /\ client \in View
      BY <1>2 DEF MkdirMeta, UplTypeOK, View
    <3>2. client' \in View
      BY <3>1, ClientView
    <3>3. client.gen \in Nat
      BY <3>1 DEF View
    <3> QED
      BY <3>1, <3>2, <3>3 DEF View
  <2> QED
    BY <1>0, <1>2, <2>1, <2>2 DEF MkdirMeta, UplTypeOK
<1>3. CASE UplCrash
  <2>1. slot' \in [UplSlots -> Request]
    BY <1>3, IdleType DEF UplCrash
  <2> QED
    BY <1>0, <1>3, <2>1 DEF UplCrash, UplTypeOK
<1>4. ASSUME NEW q \in UplSlots, UplStep(q) PROVE UplTypeOK'
  <2>0. slot' \in [UplSlots -> Request] /\ slot[q] \in Request
    BY <1>4, StepSlots DEF UplTypeOK
  <2> SUFFICES Rest
    BY <1>0, <2>0 DEF UplTypeOK
  <2>1. ASSUME NEW i \in Indices, SendPut(q, i) PROVE Rest
    <3>1. client' = [gen |-> client.gen, acked |-> client.acked, sent |-> client.sent + 1] /\ client \in View
      BY <2>1 DEF SendPut, Sent, UplTypeOK, View
    <3>2. client' \in View
      BY <3>1, ClientView DEF View
    <3> QED
      BY <2>1, <3>2 DEF SendPut, Send, UplTypeOK, View, Exceptions
  <2>2. ASSUME NEW i \in Indices, SendDrop(q, i) PROVE Rest
    <3>1. client' = [gen |-> client.gen, acked |-> client.acked \ {i}, sent |-> client.sent + 1] /\ client \in View
      BY <2>2 DEF SendDrop, Sent, UplTypeOK, View
    <3>2. client' \in View
      BY <3>1, ClientView DEF View
    <3> QED
      BY <2>2, <3>2 DEF SendDrop, Send, UplTypeOK, View, Exceptions
  <2>3. CASE SendMove(q)
    BY <2>3 DEF SendMove, Send, Sent, UplTypeOK
  <2>4. CASE SendDelete(q)
    <3>1. client' = [gen |-> client.gen, acked |-> {}, sent |-> client.sent + 1] /\ client \in View
      BY <2>4 DEF SendDelete, Sent, UplTypeOK, View
    <3>2. client' \in View
      BY <3>1, ClientView
    <3> QED
      BY <2>4, <3>2 DEF SendDelete, Send, UplTypeOK, View
  <2>5. CASE SessionGet(q)
    BY <2>5 DEF SessionGet, UplTypeOK, Unseen
  <2>6. CASE WriteCreate(q)
    BY <2>6 DEF WriteCreate, UplTypeOK, Unseen
  <2>7. ASSUME NEW whole \in BOOLEAN, WriteClose(q, whole) PROVE Rest
    <3>1. [gen |-> slot[q].gen, whole |-> whole] \in Piece
      BY <2>0 DEF Request, Piece
    <3>2. staged' \in [Indices -> Piece]
      BY <2>7, <3>1, SetStaged DEF WriteClose, UplTypeOK
    <3>3. past' \subseteq Exceptions
      BY <2>7 DEF WriteClose, UplTypeOK, Published, Exceptions
    <3>4. fault' \in [breaks : Nat, crashes : Nat]
      BY <2>7 DEF WriteClose, UplTypeOK
    <3> QED
      BY <2>7, <3>2, <3>3, <3>4 DEF WriteClose, UplTypeOK
  <2>8. CASE Stat(q)
    <3>1. slot[q].index \in Indices
      BY <2>8 DEF Stat, OpMatches, Fits, PutPC
    <3> QED
      BY <2>8, <3>1 DEF Stat, UplTypeOK
  <2>9. CASE RemoveChunk(q)
    <3>1. staged' \in [Indices -> Piece]
      BY <2>9, NoChunkType, SetStaged DEF RemoveChunk, UplTypeOK
    <3> QED
      BY <2>9, <3>1 DEF RemoveChunk, UplTypeOK, Unseen
  <2>10. CASE Destination(q)
    BY <2>10 DEF Destination, UplTypeOK, Unseen
  <2>11. CASE List(q)
    BY <2>11 DEF List, UplTypeOK, Unseen
  <2>12. CASE Open(q)
    BY <2>12 DEF Open, UplTypeOK, Unseen
  <2>13. CASE CheckTotal(q)
    BY <2>13 DEF CheckTotal, UplTypeOK, Unseen
  <2>14. CASE WriteIf(q)
    <3>1. slot[q].opened \in Seq(Piece)
      BY <2>0 DEF Request
    <3>2. file' \in Seq(Piece)
      BY <2>14, <3>1 DEF WriteIf, UplTypeOK
    <3>3. older' \in Seq(Seq(Piece))
      <4>1. Append(older, file) \in Seq(Seq(Piece))
        BY AppendProperties DEF UplTypeOK
      <4> QED
        BY <2>14, <4>1 DEF WriteIf, UplTypeOK
    <3> QED
      BY <2>14, <3>2, <3>3 DEF WriteIf, UplTypeOK, Unseen
  <2>15. CASE CheckSum(q)
    BY <2>15, Rollback DEF CheckSum, UplTypeOK, Unseen
  <2>16. CASE RemoveStart(q)
    BY <2>16 DEF RemoveStart, UplTypeOK, Unseen
  <2>17. CASE RemoveNext(q)
    <3>1. staged' \in [Indices -> Piece]
      <4>1. PICK i : staged' = [staged EXCEPT ![i] = NoChunk]
        BY <2>17 DEF RemoveNext
      <4> QED
        BY <4>1, NoChunkType, SetStaged DEF UplTypeOK
    <3> QED
      BY <2>17, <3>1 DEF RemoveNext, UplTypeOK, Unseen
  <2>18. CASE RemoveFolder(q)
    BY <2>18 DEF RemoveFolder, UplTypeOK, Unseen, Exceptions
  <2>19. CASE RemoveSession(q)
    BY <2>19 DEF RemoveSession, UplTypeOK, Unseen
  <2> QED
    BY <1>4, <2>1, <2>2, <2>3, <2>4, <2>5, <2>6, <2>7, <2>8, <2>9, <2>10, <2>11, <2>12, <2>13, <2>14, <2>15,
       <2>16, <2>17, <2>18, <2>19 DEF UplStep
<1> QED
  BY <1>1, <1>2, <1>3, <1>4 DEF UplNext

\* A request that has ended fits every client.
LEMMA IdleFits == ASSUME NEW g \in Nat, NEW d PROVE Fits(Idle, g, d)
BY DEF Idle, Fits, PutPC, MovePC

\* A request does not change the client's transfer.
LEMMA SameTransfer ==
  ASSUME UplTypeOK, NEW q \in UplSlots, UplStep(q)
  PROVE  client'.gen = client.gen
<1>1. CASE client' = client
  BY <1>1
<1>2. CASE \E a : client' = Sent(a)
  BY <1>2 DEF Sent
<1>3. CASE Stat(q)
  BY <1>3 DEF Stat, UplTypeOK
<1> QED
  BY <1>1, <1>2, <1>3 DEF UplStep, SendPut, SendDrop, SendMove, SendDelete, SessionGet, WriteCreate, WriteClose,
     RemoveChunk, Destination, List, Open, CheckTotal, WriteIf, CheckSum, RemoveStart, RemoveNext, RemoveFolder,
     RemoveSession, Unseen

\* The step of every request belongs to its operation.
LEMMA OpStep == UplTypeOK /\ OpMatches /\ Transfer /\ [UplNext]_uplVars => OpMatches'
<1> SUFFICES ASSUME UplTypeOK, OpMatches, Transfer, [UplNext]_uplVars PROVE OpMatches'
  OBVIOUS
<1>0. plan' = plan /\ UplTypeOK'
  BY Steady, TypeStep
<1> DEFINE Kept(v) == Fits(v, client.gen, plan.declared)
<1>1. CASE UNCHANGED uplVars
  BY <1>1 DEF uplVars, OpMatches
<1>2. CASE MkdirMeta
  BY <1>0, <1>2 DEF MkdirMeta, OpMatches, Fits, UplTypeOK, Request
<1>3. CASE UplCrash
  BY <1>0, <1>3, IdleFits DEF UplCrash, OpMatches, UplTypeOK
<1>4. ASSUME NEW q \in UplSlots, UplStep(q) PROVE OpMatches'
  <2>0. /\ slot[q] \in Request /\ slot'[q] \in Request /\ client.gen \in Nat /\ Kept(slot[q])
        /\ \A r \in UplSlots \ {q} : slot'[r] = slot[r]
    BY <1>0, <1>4, StepSlots DEF UplTypeOK, OpMatches
  <2>00. client'.gen = client.gen
    BY <1>4, SameTransfer
  <2> SUFFICES Kept(slot'[q])
    BY <1>0, <2>0, <2>00 DEF OpMatches
  <2>e. ASSUME End(q) PROVE Kept(slot'[q])
    BY <2>e, <2>0, EndSlot, IdleFits DEF UplTypeOK
  <2>g. ASSUME NEW pc \in PCs, Goto(q, pc),
               pc # "done" /\ slot[q].op # "none" /\ slot[q].pc # "session",
               pc \in PutPC => slot[q].op = "put", pc \in MovePC => slot[q].op = "move",
               pc \in {"erase", "row"} => slot[q].op \in {"move", "delete"}, pc # "erase1"
        PROVE  Kept(slot'[q])
    BY <2>g, <2>0, GotoSlot DEF UplTypeOK, Fits
  <2>1. ASSUME NEW i \in Indices, SendPut(q, i) PROVE Kept(slot'[q])
    BY <2>0, <2>1, SendSlot DEF SendPut, UplOps, Fits, PutPC, MovePC
  <2>2. ASSUME NEW i \in Indices, SendDrop(q, i) PROVE Kept(slot'[q])
    BY <2>0, <2>2, SendSlot DEF SendDrop, UplOps, Fits, PutPC, MovePC
  <2>3. CASE SendMove(q)
    <3>1. Send(q, "move", 0) /\ client.acked = Indices /\ Indices # {}
      BY <2>3, UploadsAssumption DEF SendMove, Indices
    <3>2. client.gen # 0
      BY <3>1 DEF Transfer
    <3> QED
      BY <2>0, <3>1, <3>2, SendSlot DEF UplOps, Fits, PutPC, MovePC
  <2>4. CASE SendDelete(q)
    BY <2>0, <2>4, SendSlot DEF SendDelete, UplOps, Fits, PutPC, MovePC
  <2>5. CASE SessionGet(q)
    <3>1. slot[q].op \in UplOps
      BY <2>0, <2>5 DEF SessionGet, Fits, Request
    <3>2. session # 0 => /\ slot'[q].op = slot[q].op /\ slot'[q].pc = FirstStep(slot[q].op)
                         /\ slot'[q].gen = slot[q].gen /\ slot'[q].index = slot[q].index
                         /\ slot'[q].total = (IF plan.declared THEN ChunkCount ELSE 0)
      BY <2>5, GetSlot
    <3>3. session = 0 => slot'[q] = Idle
      BY <2>5, GetSlot
    <3> QED
      BY <2>0, <3>1, <3>2, <3>3, IdleFits DEF FirstStep, UplOps, Fits, PutPC, MovePC
  <2>6. CASE WriteCreate(q)
    BY <2>6, <2>0, <2>g DEF WriteCreate, PCs, PutPC, MovePC, Fits
  <2>7. ASSUME NEW whole \in BOOLEAN, WriteClose(q, whole) PROVE Kept(slot'[q])
    <3>1. End(q) \/ (slot[q].pc = "copy" /\ Goto(q, "stat"))
      BY <2>7 DEF WriteClose
    <3> QED
      BY <3>1, <2>0, <2>g, <2>e DEF PCs, PutPC, MovePC, Fits
  <2>8. CASE Stat(q)
    BY <2>8, <2>e DEF Stat
  <2>9. CASE RemoveChunk(q)
    BY <2>9, <2>e DEF RemoveChunk
  <2>10. CASE Destination(q)
    BY <2>10, <2>0, <2>g, <2>e DEF Destination, PCs, PutPC, MovePC, Fits
  <2>11. CASE List(q)
    <3>1. slot[q].pc = "list"
      BY <2>11 DEF List
    <3> QED
      BY <2>11, <3>1, <2>0, ListSlot, IdleFits DEF Fits, PutPC, MovePC
  <2>12. CASE Open(q)
    BY <2>12, <2>0, OpenSlot, IdleFits DEF Fits, PutPC, MovePC
  <2>13. CASE CheckTotal(q)
    BY <2>13, <2>0, <2>g, <2>e DEF CheckTotal, PCs, PutPC, MovePC, Fits
  <2>14. CASE WriteIf(q)
    <3>1. End(q) \/ (slot[q].pc = "write" /\ (Goto(q, "sum") \/ Goto(q, "again")))
      BY <2>14 DEF WriteIf
    <3> QED
      BY <3>1, <2>0, <2>g, <2>e DEF PCs, PutPC, MovePC, Fits
  <2>15. CASE CheckSum(q)
    BY <2>15, <2>0, <2>g, <2>e DEF CheckSum, PCs, PutPC, MovePC, Fits
  <2>16. CASE RemoveStart(q)
    <3>1. slot[q].pc = "again"
      BY <2>16 DEF RemoveStart
    <3> QED
      BY <2>16, <3>1, <2>0, RemoveStartSlot, IdleFits DEF Fits, PutPC, MovePC
  <2>17. CASE RemoveNext(q)
    BY <2>17, <2>0, RemoveNextSlot DEF Fits
  <2>18. CASE RemoveFolder(q)
    BY <2>18, <2>0, <2>g, <2>e DEF RemoveFolder, PCs, PutPC, MovePC, Fits
  <2>19. CASE RemoveSession(q)
    BY <2>19, <2>e DEF RemoveSession
  <2> HIDE DEF Kept
  <2> QED
    BY <1>4, <2>1, <2>2, <2>3, <2>4, <2>5, <2>6, <2>7, <2>8, <2>9, <2>10, <2>11, <2>12, <2>13, <2>14, <2>15,
       <2>16, <2>17, <2>18, <2>19 DEF UplStep
<1> QED
  BY <1>1, <1>2, <1>3, <1>4 DEF UplNext

\* The row is of the client's transfer.
LEMMA TransferStep == UplTypeOK /\ OpMatches /\ Transfer /\ [UplNext]_uplVars => Transfer'
<1> SUFFICES ASSUME UplTypeOK, OpMatches, Transfer, [UplNext]_uplVars PROVE Transfer'
  OBVIOUS
<1>0. plan' = plan /\ plan.sessions \in Nat
  BY Steady, UploadsAssumption DEF UplTypeOK, UplSceneOK
<1>1. CASE UNCHANGED uplVars
  BY <1>1 DEF uplVars, Transfer
<1>2. CASE MkdirMeta
  BY <1>0, <1>2 DEF MkdirMeta, Transfer, UplTypeOK
<1>3. CASE UplCrash
  BY <1>3 DEF UplCrash, Transfer
<1>4. ASSUME NEW q \in UplSlots, UplStep(q) PROVE Transfer'
  <2>1. ASSUME NEW i \in Indices, SendPut(q, i) \/ SendDrop(q, i) PROVE Transfer'
    BY <2>1, <1>0 DEF SendPut, SendDrop, Send, Sent, Transfer
  <2>2. CASE SendMove(q) \/ SendDelete(q)
    BY <2>2, <1>0 DEF SendMove, SendDelete, Send, Sent, Transfer
  <2>3. CASE Stat(q)
    <3>1. slot[q].gen # 0 /\ session' = session
      BY <2>3 DEF Stat, OpMatches, Fits, PutPC
    <3>2. client'.gen = client.gen /\ (slot[q].gen = client.gen \/ client' = client)
      BY <2>3 DEF Stat, UplTypeOK
    <3> QED
      BY <1>0, <3>1, <3>2 DEF Transfer
  <2>4. CASE client' = client /\ session' \in {session, 0}
    BY <2>4, <1>0 DEF Transfer
  <2> QED
    BY <1>4, <2>1, <2>2, <2>3, <2>4 DEF UplStep, SessionGet, WriteCreate, WriteClose,
       RemoveChunk, Destination, List, Open, CheckTotal, WriteIf, CheckSum, RemoveStart, RemoveNext, RemoveFolder,
       RemoveSession, Unseen
<1> QED
  BY <1>1, <1>2, <1>3, <1>4 DEF UplNext

-----------------------------------------------------------------------------
(* The length of what is assembled.                                        *)

\* Listings are finite and no longer than the file.
LEMMA ListingSize ==
  ASSUME NEW S \in SUBSET Indices
  PROVE  IsFiniteSet(S) /\ Cardinality(S) \in 0 .. ChunkCount
<1>1. IsFiniteSet(Indices) /\ Cardinality(Indices) = ChunkCount
  BY FS_Interval, UploadsAssumption DEF Indices
<1> QED
  BY <1>1, FS_Subset, FS_CardinalityType, UploadsAssumption

\* An assembly writes as many chunks as were declared.
LEMMA OpeningStep == UplTypeOK /\ OpMatches /\ Opening /\ [UplNext]_uplVars => Opening'
<1> SUFFICES ASSUME UplTypeOK, OpMatches, Opening, [UplNext]_uplVars PROVE Opening'
  OBVIOUS
<1>0. plan' = plan /\ UplTypeOK'
  BY Steady, TypeStep
<1> DEFINE Kept(v) == Opens(v, plan.declared)
<1>i. Kept(Idle)
  BY DEF Idle, Opens
<1>1. CASE UNCHANGED uplVars
  BY <1>1 DEF uplVars, Opening
<1>2. CASE MkdirMeta
  BY <1>0, <1>2 DEF MkdirMeta, Opening
<1>3. CASE UplCrash
  BY <1>0, <1>3, <1>i DEF UplCrash, Opening
<1>4. ASSUME NEW q \in UplSlots, UplStep(q) PROVE Opening'
  <2>0. /\ slot[q] \in Request /\ slot'[q] \in Request /\ Kept(slot[q])
        /\ \A r \in UplSlots \ {q} : slot'[r] = slot[r]
    BY <1>0, <1>4, StepSlots DEF UplTypeOK, Opening
  <2>l. /\ slot[q].listed \in SUBSET Indices /\ Listing \in SUBSET Indices
        /\ slot[q].opened \in Seq(Piece) /\ Len(slot[q].opened) \in Nat /\ slot[q].size \in Nat
    BY <2>0, LenProperties DEF Request, Listing
  <2> SUFFICES Kept(slot'[q])
    BY <1>0, <2>0 DEF Opening
  <2>e. ASSUME End(q) PROVE Kept(slot'[q])
    BY <2>e, <2>0, <1>i, EndSlot DEF UplTypeOK
  <2>g. ASSUME NEW pc \in PCs \ {"open", "session", "dest", "list", "write"}, Goto(q, pc)
        PROVE  Kept(slot'[q])
    BY <2>g, <2>0, GotoSlot DEF UplTypeOK, Opens
  <2>1. ASSUME NEW i \in Indices, SendPut(q, i) PROVE Kept(slot'[q])
    BY <2>0, <2>1, SendSlot DEF SendPut, UplOps, Opens
  <2>2. ASSUME NEW i \in Indices, SendDrop(q, i) PROVE Kept(slot'[q])
    BY <2>0, <2>2, SendSlot DEF SendDrop, UplOps, Opens
  <2>3. CASE SendMove(q)
    BY <2>0, <2>3, SendSlot DEF SendMove, UplOps, Opens
  <2>4. CASE SendDelete(q)
    BY <2>0, <2>4, SendSlot DEF SendDelete, UplOps, Opens
  <2>5. CASE SessionGet(q)
    <3>1. slot[q].pc = "session"
      BY <2>5 DEF SessionGet
    <3> QED
      BY <2>0, <2>5, <3>1, <1>i, GetSlot DEF FirstStep, Opens
  <2>6. CASE WriteCreate(q)
    BY <2>6, <2>g DEF WriteCreate, PCs
  <2>7. ASSUME NEW whole \in BOOLEAN, WriteClose(q, whole) PROVE Kept(slot'[q])
    <3>1. End(q) \/ Goto(q, "stat")
      BY <2>7 DEF WriteClose
    <3> QED
      BY <3>1, <2>g, <2>e DEF PCs
  <2>8. CASE Stat(q)
    BY <2>8, <2>e DEF Stat
  <2>9. CASE RemoveChunk(q)
    BY <2>9, <2>e DEF RemoveChunk
  <2>10. CASE Destination(q)
    <3>1. CASE Goto(q, "list") /\ slot[q].pc = "dest"
      BY <3>1, <2>0, GotoSlot DEF UplTypeOK, PCs, Opens
    <3> QED
      BY <2>10, <3>1, <2>e DEF Destination
  <2>11. CASE List(q)
    <3>1. slot[q].opened = <<>>
      BY <2>0, <2>11 DEF List, Opens
    <3>2. /\ Cardinality({i \in Listing : staged[i].whole}) <= Cardinality(Listing)
          /\ Cardinality(Listing) \in Nat
      <4>1. Cardinality({i \in Listing : staged[i].whole}) <= Cardinality(Listing)
        BY <2>l, ListingSize, FS_Subset
      <4> QED
        BY <4>1, <2>l, ListingSize, UploadsAssumption
    <3>3. CASE slot'[q] = Idle
      BY <3>3, <1>i
    <3>4. CASE /\ slot'[q].pc = "open" /\ slot'[q].listed = Listing
               /\ slot'[q].size = Cardinality({i \in Listing : staged[i].whole})
               /\ slot'[q].opened = slot[q].opened
      <4>1. Len(slot'[q].opened) = 0
        BY <3>1, <3>4
      <4> QED
        BY <3>2, <3>4, <4>1 DEF Opens
    <3> QED
      BY <2>11, <3>3, <3>4, ListSlot
  <2>12. CASE Open(q)
    <3>1. CASE slot'[q] = Idle
      BY <3>1, <1>i
    <3>2. CASE slot'[q] # Idle
      <4>1. /\ slot[q].pc = "open" /\ Len(slot[q].opened) + 1 <= Cardinality(slot[q].listed)
            /\ Len(slot[q].opened) + 1 \in Indices
            /\ slot'[q].pc = "open" /\ slot'[q].listed = slot[q].listed /\ slot'[q].size = slot[q].size
            /\ slot'[q].opened = Append(slot[q].opened, staged[Len(slot[q].opened) + 1])
        BY <2>12, <3>2, OpenSlot
      <4>2. Len(slot'[q].opened) = Len(slot[q].opened) + 1
        BY <4>1, <2>l, AppendProperties DEF UplTypeOK
      <4> QED
        BY <2>0, <4>1, <4>2 DEF Opens
    <3> QED
      BY <3>1, <3>2
  <2>13. CASE CheckTotal(q)
    <3>1. CASE Goto(q, "write") /\ slot[q].pc = "open" /\ Len(slot[q].opened) = Cardinality(slot[q].listed) /\ TotalMatches(q)
      <4>1. /\ slot'[q].pc = "write" /\ slot'[q].opened = slot[q].opened
        BY <3>1, GotoSlot DEF UplTypeOK, PCs
      <4>2. plan.declared => slot[q].total = ChunkCount
        BY <3>1 DEF OpMatches, Fits, MovePC
      <4>3. plan.declared => slot[q].size = ChunkCount
        BY <3>1, <4>2, UploadsAssumption DEF TotalMatches
      <4>4. Cardinality(slot[q].listed) \in 0 .. ChunkCount
        BY <2>l, ListingSize
      <4> QED
        BY <2>0, <2>l, <3>1, <4>1, <4>3, <4>4, UploadsAssumption DEF Opens
    <3> QED
      BY <2>13, <3>1, <2>e DEF CheckTotal
  <2>14. CASE WriteIf(q)
    <3>1. End(q) \/ Goto(q, "sum") \/ Goto(q, "again")
      BY <2>14 DEF WriteIf
    <3> QED
      BY <3>1, <2>g, <2>e DEF PCs
  <2>15. CASE CheckSum(q)
    BY <2>15, <2>g, <2>e DEF CheckSum, PCs
  <2>16. CASE RemoveStart(q)
    BY <2>16, <1>i, RemoveStartSlot DEF Opens
  <2>17. CASE RemoveNext(q)
    <3>1. slot'[q].pc = "erase"
      BY <2>17, RemoveNextSlot DEF RemoveNext
    <3> QED
      BY <3>1 DEF Opens
  <2>18. CASE RemoveFolder(q)
    BY <2>18, <2>g, <2>e DEF RemoveFolder, PCs
  <2>19. CASE RemoveSession(q)
    BY <2>19, <2>e DEF RemoveSession
  <2> HIDE DEF Kept
  <2> QED
    BY <1>4, <2>1, <2>2, <2>3, <2>4, <2>5, <2>6, <2>7, <2>8, <2>9, <2>10, <2>11, <2>12, <2>13, <2>14, <2>15,
       <2>16, <2>17, <2>18, <2>19 DEF UplStep
<1> QED
  BY <1>1, <1>2, <1>3, <1>4 DEF UplNext

\* What may stand at the destination only changes by an assembly: to what the
\* assembly has opened, or back to a version.
LEMMA Contents ==
  ASSUME UplTypeOK, [UplNext]_uplVars
  PROVE  \/ {file'} \cup ToSet(older') \subseteq {<<>>, file} \cup ToSet(older)
         \/ \E q \in UplSlots : /\ slot[q].pc = "write"
                                /\ {file'} \cup ToSet(older') \subseteq {slot[q].opened, file} \cup ToSet(older)
<1>1. CASE UNCHANGED <<file, older>>
  BY <1>1
<1>2. ASSUME NEW q \in UplSlots, WriteIf(q), ~UNCHANGED <<file, older>>
      PROVE  /\ slot[q].pc = "write"
             /\ {file'} \cup ToSet(older') \subseteq {slot[q].opened, file} \cup ToSet(older)
  <2>1. slot[q].pc = "write" /\ file' = slot[q].opened /\ older' \in {older, Append(older, file)}
    BY <1>2 DEF WriteIf
  <2>2. ToSet(Append(older, file)) = ToSet(older) \cup {file}
    BY Archive DEF UplTypeOK
  <2> QED
    BY <2>1, <2>2
<1>3. ASSUME NEW q \in UplSlots, CheckSum(q), ~UNCHANGED <<file, older>>
      PROVE  {file'} \cup ToSet(older') \subseteq {<<>>, file} \cup ToSet(older)
  <2>1. CASE older = <<>>
    BY <1>3, <2>1 DEF CheckSum
  <2>2. CASE older # <<>>
    <3>1. file' = Last(older) /\ older' = Front(older)
      BY <1>3, <2>2 DEF CheckSum
    <3>2. ToSet(older) = ToSet(Front(older)) \cup {Last(older)}
      BY <2>2, Rollback DEF UplTypeOK
    <3> QED
      BY <3>1, <3>2
  <2> QED
    BY <2>1, <2>2
<1> QED
  BY <1>1, <1>2, <1>3 DEF UplNext, UplStep, uplVars, MkdirMeta, UplCrash, SendPut, SendDrop, SendMove, SendDelete, Send,
     SessionGet, WriteCreate, WriteClose, Stat, RemoveChunk, Destination, List, Open, CheckTotal, RemoveStart,
     RemoveNext, RemoveFolder, RemoveSession, Unseen

\* The destination has the declared length.
LEMMA DeclaredStep == UplTypeOK /\ Opening /\ DeclaredLength /\ [UplNext]_uplVars => DeclaredLength'
<1> SUFFICES ASSUME UplTypeOK, Opening, DeclaredLength, [UplNext]_uplVars, plan.declared,
                    NEW content \in {file'} \cup ToSet(older')
             PROVE  content \in {<<>>, Initially} \/ Len(content) = ChunkCount
  BY Steady DEF DeclaredLength
<1>1. \A c \in {file} \cup ToSet(older) : c \in {<<>>, Initially} \/ Len(c) = ChunkCount
  BY DEF DeclaredLength
<1>2. \A q \in UplSlots : slot[q].pc = "write" => Len(slot[q].opened) = ChunkCount
  BY DEF Opening, Opens
<1> QED
  BY <1>1, <1>2, Contents

-----------------------------------------------------------------------------
(* Whose chunks are staged.                                                *)

\* Chunks appear only when a PUT publishes one.
LEMMA Stagings ==
  ASSUME UplTypeOK, OpMatches, [UplNext]_uplVars
  PROVE  \/ staged' = staged
         \/ \E i \in Indices : /\ staged' \in [Indices -> Piece] /\ staged'[i] = NoChunk
                               /\ \A j \in Indices \ {i} : staged'[j] = staged[j]
                               /\ UNCHANGED <<session, past, client>>
                               /\ \E q \in UplSlots :
                                    \/ RemoveChunk(q) /\ slot[q].op = "drop" /\ i = slot[q].index
                                    \/ RemoveNext(q) /\ i \in slot[q].listed /\ \A j \in slot[q].listed : i <= j
         \/ \E q \in UplSlots, whole \in BOOLEAN :
              /\ WriteClose(q, whole) /\ q \in temps /\ slot[q].pc = "copy"
              /\ slot[q].index \in Indices /\ slot[q].gen # 0
              /\ staged' \in [Indices -> Piece]
              /\ staged'[slot[q].index] = [gen |-> slot[q].gen, whole |-> whole]
              /\ \A j \in Indices \ {slot[q].index} : staged'[j] = staged[j]
              /\ past' = past \cup Published(q, whole)
              /\ UNCHANGED <<session, client>>
<1> DEFINE Gone(i) == /\ staged' \in [Indices -> Piece] /\ staged'[i] = NoChunk
                      /\ \A j \in Indices \ {i} : staged'[j] = staged[j]
                      /\ UNCHANGED <<session, past, client>>
<1>1. ASSUME NEW q \in UplSlots, NEW whole \in BOOLEAN, WriteClose(q, whole), q \in temps
      PROVE  /\ slot[q].pc = "copy" /\ slot[q].index \in Indices /\ slot[q].gen # 0
             /\ staged' \in [Indices -> Piece]
             /\ staged'[slot[q].index] = [gen |-> slot[q].gen, whole |-> whole]
             /\ \A j \in Indices \ {slot[q].index} : staged'[j] = staged[j]
             /\ past' = past \cup Published(q, whole)
             /\ UNCHANGED <<session, client>>
  <2>1. slot[q].pc = "copy" /\ slot[q].index \in Indices /\ slot[q].gen # 0
    BY <1>1 DEF WriteClose, OpMatches, Fits, PutPC
  <2>2. staged' = [staged EXCEPT ![slot[q].index] = [gen |-> slot[q].gen, whole |-> whole]]
    BY <1>1 DEF WriteClose
  <2>3. [gen |-> slot[q].gen, whole |-> whole] \in Piece
    BY DEF UplTypeOK, Request, Piece
  <2>4. /\ staged' \in [Indices -> Piece]
        /\ \A j \in Indices : staged'[j] = IF j = slot[q].index THEN [gen |-> slot[q].gen, whole |-> whole] ELSE staged[j]
    BY <2>2, <2>3, SetStaged DEF UplTypeOK
  <2> QED
    BY <1>1, <2>1, <2>4 DEF WriteClose
<1>2. ASSUME NEW q \in UplSlots, RemoveChunk(q)
      PROVE  Gone(slot[q].index) /\ slot[q].op = "drop" /\ slot[q].index \in Indices
  <2>1. slot[q].op = "drop" /\ slot[q].index \in Indices
    BY <1>2 DEF RemoveChunk, OpMatches, Fits
  <2>2. staged' = [staged EXCEPT ![slot[q].index] = NoChunk]
    BY <1>2 DEF RemoveChunk
  <2>3. /\ staged' \in [Indices -> Piece]
        /\ \A j \in Indices : staged'[j] = IF j = slot[q].index THEN NoChunk ELSE staged[j]
    BY <2>2, NoChunkType, SetStaged DEF UplTypeOK
  <2> QED
    BY <1>2, <2>1, <2>3 DEF RemoveChunk, Unseen
<1>3. ASSUME NEW q \in UplSlots, RemoveNext(q)
      PROVE  \E i \in Indices : Gone(i) /\ i \in slot[q].listed /\ \A j \in slot[q].listed : i <= j
  <2>1. PICK i \in Indices : /\ i \in slot[q].listed /\ \A j \in slot[q].listed : i <= j
                             /\ staged' = [staged EXCEPT ![i] = NoChunk]
    BY <1>3, RemoveNextSlot
  <2>2. /\ staged' \in [Indices -> Piece]
        /\ \A j \in Indices : staged'[j] = IF j = i THEN NoChunk ELSE staged[j]
    BY <2>1, NoChunkType, SetStaged DEF UplTypeOK
  <2>3. Gone(i)
    BY <1>3, <2>2 DEF RemoveNext, Unseen
  <2> QED
    BY <2>1, <2>3
<1>4. ASSUME NEW q \in UplSlots, UplStep(q), staged' # staged
      PROVE  RemoveChunk(q) \/ RemoveNext(q) \/ \E whole \in BOOLEAN : WriteClose(q, whole) /\ q \in temps
  BY <1>4 DEF UplStep, SendPut, SendDrop, SendMove, SendDelete, Send,
     SessionGet, WriteCreate, WriteClose, Stat, Destination, List, Open, CheckTotal, WriteIf, CheckSum, RemoveStart,
     RemoveFolder, RemoveSession, Unseen
<1>5. CASE MkdirMeta \/ UplCrash \/ UNCHANGED uplVars
  BY <1>5 DEF MkdirMeta, UplCrash, uplVars
<1> HIDE DEF Gone
<1>6. CASE \E q \in UplSlots : UplStep(q) /\ staged' # staged
  <2>1. PICK q \in UplSlots : UplStep(q) /\ staged' # staged
    BY <1>6
  <2>2. CASE RemoveChunk(q)
    BY <2>2, <1>2 DEF Gone
  <2>3. CASE RemoveNext(q)
    BY <2>3, <1>3 DEF Gone
  <2>4. CASE \E whole \in BOOLEAN : WriteClose(q, whole) /\ q \in temps
    BY <2>4, <1>1
  <2> QED
    BY <2>1, <2>2, <2>3, <2>4, <1>4
<1> QED
  BY <1>5, <1>6 DEF UplNext

\* What a request can do when it neither starts nor ends: which step it takes
\* and where that leads.
Advance(q) ==
  \/ SessionGet(q) /\ session # 0 /\ slot[q].pc = "session" /\ slot'[q].pc = FirstStep(slot[q].op)
  \/ WriteCreate(q) /\ slot'[q].pc = "copy"
  \/ WriteClose(q, TRUE) /\ q \in temps /\ slot'[q].pc = "stat"
  \/ Destination(q) /\ slot[q].pc = "dest" /\ slot'[q].pc = "list"
  \/ List(q) /\ slot[q].pc = "list" /\ slot'[q].pc = "open"
  \/ Open(q) /\ slot[q].pc = "open" /\ slot'[q].pc = "open"
  \/ CheckTotal(q) /\ slot[q].pc = "open" /\ TotalMatches(q) /\ slot'[q].pc = "write"
  \/ WriteIf(q) /\ slot[q].pc = "write" /\ slot'[q].pc \in {"sum", "again"}
  \/ CheckSum(q) /\ slot'[q].pc = "again"
  \/ RemoveStart(q) /\ slot'[q].pc = "erase"
  \/ RemoveNext(q) /\ slot[q].pc = "erase" /\ slot'[q].pc = "erase"
  \/ RemoveFolder(q) /\ slot[q].pc = "erase" /\ slot'[q].pc = "row"

\* The request a client sends.
Sending(q) ==
  /\ slot[q].op = "none" /\ slot'[q].pc = "session" /\ slot'[q].gen = client.gen
  /\ \/ \E i \in Indices : slot'[q].op = "put" /\ slot'[q].index = i /\ SendPut(q, i)
     \/ \E i \in Indices : slot'[q].op = "drop" /\ slot'[q].index = i /\ SendDrop(q, i)
     \/ slot'[q].op = "move" /\ SendMove(q)
     \/ slot'[q].op = "delete" /\ SendDelete(q)

\* A request starts, ends, advances or stays as it is.
LEMMA Moved ==
  ASSUME UplTypeOK, [UplNext]_uplVars, NEW q \in UplSlots
  PROVE  \/ slot'[q] = slot[q]
         \/ slot'[q] = Idle
         \/ Sending(q)
         \/ /\ slot'[q].op = slot[q].op /\ slot'[q].gen = slot[q].gen /\ slot'[q].index = slot[q].index
            /\ Advance(q)
<1>1. CASE UNCHANGED slot
  BY <1>1
<1>2. CASE UplCrash
  BY <1>2 DEF UplCrash
<1>3. ASSUME NEW r \in UplSlots, UplStep(r), r # q PROVE slot'[q] = slot[q]
  BY <1>3, StepSlots
<1>4. ASSUME UplStep(q), slot'[q] # Idle, ~Sending(q)
      PROVE  /\ slot'[q].op = slot[q].op /\ slot'[q].gen = slot[q].gen /\ slot'[q].index = slot[q].index
             /\ Advance(q)
  <2> DEFINE Same == slot'[q].op = slot[q].op /\ slot'[q].gen = slot[q].gen /\ slot'[q].index = slot[q].index
  <2> SUFFICES Same /\ Advance(q)
    OBVIOUS
  <2>e. ~End(q)
    BY <1>4, EndSlot DEF UplTypeOK
  <2>g. ASSUME NEW pc \in PCs, Goto(q, pc) PROVE Same /\ slot'[q].pc = pc
    BY <2>g, GotoSlot DEF UplTypeOK
  <2>1. ASSUME NEW i \in Indices PROVE ~SendPut(q, i) /\ ~SendDrop(q, i)
    BY <1>4, SendSlot DEF SendPut, SendDrop, Sending, UplOps
  <2>2. ~SendMove(q) /\ ~SendDelete(q)
    BY <1>4, SendSlot DEF SendMove, SendDelete, Sending, UplOps
  <2>3. CASE SessionGet(q)
    <3>1. slot[q].pc = "session"
      BY <2>3 DEF SessionGet
    <3> QED
      BY <1>4, <2>3, <3>1, GetSlot DEF Advance
  <2>4. CASE WriteCreate(q)
    BY <2>4, <2>g DEF WriteCreate, PCs, Advance
  <2>5. ~Stat(q) /\ ~RemoveChunk(q) /\ ~RemoveSession(q)
    BY <2>e DEF Stat, RemoveChunk, RemoveSession
  <2>6. ASSUME NEW whole \in BOOLEAN, WriteClose(q, whole) PROVE Same /\ Advance(q)
    <3>1. Goto(q, "stat") /\ whole /\ q \in temps
      BY <2>6, <2>e DEF WriteClose
    <3>2. whole = TRUE
      BY <3>1
    <3> QED
      BY <2>6, <2>g, <3>1, <3>2 DEF PCs, Advance
  <2>7. CASE List(q)
    <3>1. slot[q].pc = "list"
      BY <2>7 DEF List
    <3> QED
      BY <1>4, <2>7, <3>1, ListSlot DEF Advance
  <2>8. CASE Open(q)
    BY <1>4, <2>8, OpenSlot DEF Advance
  <2>9. CASE RemoveStart(q)
    BY <1>4, <2>9, RemoveStartSlot DEF Advance
  <2>10. CASE Destination(q)
    BY <2>10, <2>e, <2>g DEF Destination, PCs, Advance
  <2>11. CASE CheckTotal(q)
    BY <2>11, <2>e, <2>g DEF CheckTotal, PCs, Advance
  <2>12. CASE CheckSum(q)
    BY <2>12, <2>e, <2>g DEF CheckSum, PCs, Advance
  <2>13. CASE WriteIf(q)
    <3>1. slot[q].pc = "write" /\ (Goto(q, "sum") \/ Goto(q, "again"))
      BY <2>13, <2>e DEF WriteIf
    <3> QED
      BY <2>13, <2>g, <3>1 DEF PCs, Advance
  <2>14. CASE RemoveNext(q)
    <3>1. slot[q].pc = "erase"
      BY <2>14 DEF RemoveNext
    <3> QED
      BY <2>14, <3>1, RemoveNextSlot DEF Advance
  <2>15. CASE RemoveFolder(q)
    BY <2>15, <2>e, <2>g DEF RemoveFolder, PCs, Advance
  <2> HIDE DEF Same
  <2> QED
    BY <1>4, <2>1, <2>2, <2>3, <2>4, <2>5, <2>6, <2>7, <2>8, <2>9, <2>10, <2>11, <2>12, <2>13, <2>14, <2>15 DEF UplStep
<1> QED
  BY <1>1, <1>2, <1>3, <1>4 DEF UplNext, uplVars, MkdirMeta

\* A request is about to delete the row only after it has looked into the folder.
LEMMA RowSlot ==
  ASSUME UplTypeOK, [UplNext]_uplVars, NEW q \in UplSlots, slot'[q].pc = "row"
  PROVE  slot[q].pc = "row" \/ (RemoveFolder(q) /\ slot[q].pc = "erase")
<1>1. Idle.pc # "row" /\ \A op : FirstStep(op) # "row"
  BY DEF Idle, FirstStep
<1> QED
  BY <1>1, Moved DEF Sending, Advance

\* The folder is empty when the row is about to go.
LEMMA EmptiedStep == UplTypeOK /\ OpMatches /\ Emptied /\ [UplNext]_uplVars => Emptied'
<1> SUFFICES ASSUME UplTypeOK, OpMatches, Emptied, [UplNext]_uplVars, "late" \notin past',
                    NEW q \in UplSlots, slot'[q].pc = "row"
             PROVE  Listing' = {}
  BY DEF Emptied
<1>1. past \subseteq past'
  BY Steady
<1>2. ASSUME RemoveFolder(q) PROVE Listing' = {}
  BY <1>2 DEF RemoveFolder, Listing
<1>3. CASE slot[q].pc = "row"
  <2>1. Listing = {}
    BY <1>1, <1>3 DEF Emptied
  <2>2. ASSUME NEW r \in UplSlots, NEW whole \in BOOLEAN, past' = past \cup Published(r, whole) PROVE FALSE
    BY <1>3, <2>2 DEF Published, Removing
  <2>3. \A i \in Indices : staged'[i] = staged[i] \/ staged'[i] = NoChunk
    BY <2>2, Stagings
  <2> QED
    BY <2>1, <2>3 DEF Listing
<1> QED
  BY <1>2, <1>3, RowSlot

\* Chunk files belong to the session whose row exists.
LEMMA InheritedStep ==
  UplTypeOK /\ OpMatches /\ Emptied /\ NothingInherited /\ [UplNext]_uplVars => NothingInherited'
<1> SUFFICES ASSUME UplTypeOK, OpMatches, Emptied, NothingInherited, [UplNext]_uplVars, "late" \notin past',
                    NEW i \in Indices, staged'[i] # NoChunk
             PROVE  session' # 0 /\ staged'[i].gen = session'
  BY DEF NothingInherited
<1>1. past \subseteq past'
  BY Steady
<1>2. \A j \in Indices : staged[j] # NoChunk => session # 0 /\ staged[j].gen = session
  BY <1>1 DEF NothingInherited
<1>3. ASSUME staged' = staged PROVE session' = session
  <2>1. session # 0 /\ Listing # {}
    BY <1>2, <1>3 DEF Listing
  <2>2. ASSUME NEW q \in UplSlots PROVE ~RemoveSession(q)
    BY <1>1, <2>1 DEF RemoveSession, Emptied
  <2> QED
    BY <2>1, <2>2 DEF UplNext, UplStep, uplVars, MkdirMeta, UplCrash, SendPut, SendDrop, SendMove, SendDelete, Send,
       SessionGet, WriteCreate, WriteClose, Stat, RemoveChunk, Destination, List, Open, CheckTotal, WriteIf, CheckSum,
       RemoveStart, RemoveNext, RemoveFolder, Unseen
<1>4. ASSUME NEW q \in UplSlots, NEW whole \in BOOLEAN, past' = past \cup Published(q, whole), slot[q].gen # 0
      PROVE  session = slot[q].gen /\ session # 0
  BY <1>4 DEF Published
<1>5. CASE staged' = staged
  BY <1>2, <1>3, <1>5
<1>6. ASSUME NEW j \in Indices, staged'[j] = NoChunk, \A k \in Indices \ {j} : staged'[k] = staged[k], session' = session
      PROVE  session' # 0 /\ staged'[i].gen = session'
  BY <1>2, <1>6
<1>7. ASSUME NEW q \in UplSlots, NEW whole \in BOOLEAN, past' = past \cup Published(q, whole), slot[q].gen # 0,
             staged'[slot[q].index] = [gen |-> slot[q].gen, whole |-> whole],
             \A j \in Indices \ {slot[q].index} : staged'[j] = staged[j], session' = session
      PROVE  session' # 0 /\ staged'[i].gen = session'
  BY <1>2, <1>4, <1>7
<1> QED
  BY <1>5, <1>6, <1>7, Stagings

-----------------------------------------------------------------------------
(* What is proved without any exception but its own.                       *)

Base == UplTypeOK /\ OpMatches /\ Transfer /\ Opening /\ Emptied

\* A fresh client has no folder, no request and no exception.
LEMMA BaseInit == UplInit => Base /\ NothingInherited /\ DeclaredLength
<1> SUFFICES ASSUME NEW s \in UplScenes, UplStart(s) PROVE Base /\ NothingInherited /\ DeclaredLength
  BY DEF UplInit
<1>1. slot = [q \in UplSlots |-> Idle] /\ staged = [i \in Indices |-> NoChunk] /\ older = <<>>
  BY DEF UplStart
<1>2. file \in Seq(Piece) /\ file \in {<<>>, Initially}
  <2>1. Initially \in Seq(Piece)
    <3>1. PICK c \in Piece : c = [gen |-> 0, whole |-> TRUE]
      BY DEF Piece
    <3> QED
      BY <3>1 DEF Initially
  <2>2. <<>> \in Seq(Piece)
    OBVIOUS
  <2>3. file \in {<<>>, Initially}
    BY DEF UplStart
  <2> QED
    BY <2>1, <2>2, <2>3
<1>3. UplTypeOK
  BY <1>1, <1>2, IdleType, NoChunkType DEF UplStart, UplTypeOK
<1>4. OpMatches
  BY <1>1, IdleFits DEF UplStart, OpMatches
<1>5. Transfer
  BY UploadsAssumption DEF UplStart, Transfer, UplSceneOK
<1>6. Opening
  BY <1>1 DEF Opening, Opens, Idle
<1>7. Emptied
  BY <1>1 DEF Emptied, Idle
<1>8. NothingInherited
  BY <1>1 DEF NothingInherited
<1>9. DeclaredLength
  BY <1>1, <1>2 DEF DeclaredLength, ToSet
<1> QED
  BY <1>3, <1>4, <1>5, <1>6, <1>7, <1>8, <1>9 DEF Base

\* A step keeps the invariant.
LEMMA BaseStep ==
  Base /\ NothingInherited /\ DeclaredLength /\ [UplNext]_uplVars
    => Base' /\ NothingInherited' /\ DeclaredLength'
BY TypeStep, OpStep, TransferStep, OpeningStep, EmptiedStep, InheritedStep, DeclaredStep DEF Base

\* Types (the rows and files of internal/files/uploads.go and its requests).
THEOREM UploadsTypeCorrect == UplSpec => []UplTypeOK
<1>1. Base => UplTypeOK
  BY DEF Base
<1> QED
  BY <1>1, BaseInit, BaseStep, PTL DEF UplSpec

\* Chunk files belong to the session whose row exists, whatever crashes and
\* overlapping requests do, unless a chunk arrives at a folder under removal
\* (Uploads.Remove deletes the row last).
THEOREM ChunksOwned == UplSpec => []NothingInherited
BY BaseInit, BaseStep, PTL DEF UplSpec

\* With a declared total the destination never holds a file of another length,
\* without any exception (Uploads.Assemble compares the listed sizes).
THEOREM LengthAsDeclared == UplSpec => []DeclaredLength
BY BaseInit, BaseStep, PTL DEF UplSpec

-----------------------------------------------------------------------------
(* What the client counts on.                                              *)

\* The steps that change what is acknowledged.
LEMMA Acks ==
  ASSUME UplTypeOK, OpMatches, [UplNext]_uplVars
  PROVE  \/ client'.acked = client.acked
         \/ MkdirMeta /\ client'.acked = {}
         \/ \E q \in UplSlots, i \in Indices : SendDrop(q, i) /\ client'.acked = client.acked \ {i}
         \/ \E q \in UplSlots : SendDelete(q) /\ client'.acked = {}
         \/ \E q \in UplSlots : /\ Stat(q) /\ slot[q].pc = "stat" /\ slot[q].index \in Indices
                                /\ session # 0 /\ staged[slot[q].index] # NoChunk
                                /\ \A r \in UplSlots : slot[r].op \notin {"drop", "delete"}
                                /\ client'.acked = client.acked \cup {slot[q].index}
<1>1. CASE client' = client
  BY <1>1
<1>2. CASE MkdirMeta
  BY <1>2 DEF MkdirMeta
<1>3. ASSUME NEW q \in UplSlots, NEW i \in Indices, SendPut(q, i) PROVE client'.acked = client.acked
  BY <1>3 DEF SendPut, Sent
<1>4. ASSUME NEW q \in UplSlots, NEW i \in Indices, SendDrop(q, i) PROVE client'.acked = client.acked \ {i}
  BY <1>4 DEF SendDrop, Sent
<1>5. ASSUME NEW q \in UplSlots, SendMove(q) PROVE client'.acked = client.acked
  BY <1>5 DEF SendMove, Sent
<1>6. ASSUME NEW q \in UplSlots, SendDelete(q) PROVE client'.acked = {}
  BY <1>6 DEF SendDelete, Sent
<1>7. ASSUME NEW q \in UplSlots, Stat(q), client' # client
      PROVE  /\ slot[q].pc = "stat" /\ slot[q].index \in Indices
             /\ session # 0 /\ staged[slot[q].index] # NoChunk
             /\ \A r \in UplSlots : slot[r].op \notin {"drop", "delete"}
             /\ client'.acked = client.acked \cup {slot[q].index}
  <2>1. slot[q].pc = "stat" /\ slot[q].index \in Indices
    BY <1>7 DEF Stat, OpMatches, Fits, PutPC
  <2>2. /\ session # 0 /\ staged[slot[q].index] # NoChunk
        /\ \A r \in UplSlots : slot[r].op \notin {"drop", "delete"}
        /\ client' = [client EXCEPT !.acked = @ \cup {slot[q].index}]
    BY <1>7 DEF Stat
  <2> QED
    BY <2>1, <2>2 DEF UplTypeOK
<1> QED
  BY <1>1, <1>2, <1>3, <1>4, <1>5, <1>6, <1>7 DEF UplNext, UplStep, uplVars, UplCrash,
     SessionGet, WriteCreate, WriteClose, RemoveChunk, Destination, List, Open, CheckTotal, WriteIf, CheckSum,
     RemoveStart, RemoveNext, RemoveFolder, RemoveSession, Unseen

\* An operation is under way because it was, or because it is sent.
LEMMA Started ==
  ASSUME UplTypeOK, [UplNext]_uplVars, NEW q \in UplSlots, slot'[q].op # "none"
  PROVE  (slot[q].op = slot'[q].op /\ slot[q].gen = slot'[q].gen /\ slot[q].index = slot'[q].index) \/ Sending(q)
<1>1. Idle.op = "none"
  BY DEF Idle
<1> QED
  BY <1>1, Moved

\* Nobody takes back what is counted on.
LEMMA GivenUpStep == UplTypeOK /\ OpMatches /\ GivenUp /\ [UplNext]_uplVars => GivenUp'
<1> SUFFICES ASSUME UplTypeOK, OpMatches, GivenUp, [UplNext]_uplVars PROVE GivenUp'
  OBVIOUS
<1>0. UplTypeOK'
  BY TypeStep
<1>1. ASSUME NEW q \in UplSlots, slot'[q].op = "delete" PROVE client'.acked = {}
  <2>1. CASE SendDelete(q)
    BY <2>1 DEF SendDelete, Sent
  <2>2. CASE slot[q].op = "delete"
    <3>1. client.acked = {} /\ \E r \in UplSlots : slot[r].op = "delete"
      BY <2>2 DEF GivenUp, Doing
    <3> QED
      BY <3>1, Acks
  <2> QED
    BY <1>1, <2>1, <2>2, Started DEF Sending
<1>2. ASSUME NEW q \in UplSlots, slot'[q].op = "drop" PROVE slot'[q].index \notin client'.acked
  <2>1. ASSUME NEW i \in Indices, SendDrop(q, i), slot'[q].index = i PROVE i \notin client'.acked
    BY <2>1 DEF SendDrop, Sent
  <2>2. CASE slot[q].op = "drop" /\ slot'[q].index = slot[q].index
    <3>1. slot[q].index \notin client.acked /\ \E r \in UplSlots : slot[r].op = "drop"
      BY <2>2 DEF GivenUp
    <3> QED
      BY <2>2, <3>1, Acks
  <2> QED
    BY <1>2, <2>1, <2>2, Started DEF Sending
<1>3. ASSUME NEW q \in UplSlots, NEW r \in UplSlots, slot'[q].op = "move", slot'[r].op = "drop" PROVE FALSE
  <2>1. q # r
    BY <1>3
  <2>2. ASSUME SendMove(q) PROVE slot'[r] = slot[r] /\ slot[r].op # "drop"
    BY <2>1, <2>2, SendSlot DEF SendMove, UplOps
  <2>3. ASSUME NEW i \in Indices, SendDrop(r, i) PROVE slot'[q] = slot[q] /\ slot[q].op # "move"
    <3>1. slot'[q] = slot[q]
      BY <2>1, <2>3, SendSlot DEF SendDrop, UplOps
    <3>2. slot[q].op # "move"
      BY <2>3 DEF SendDrop, Busy
    <3> QED
      BY <3>1, <3>2
  <2>4. slot[q].op = "move" \/ SendMove(q)
    BY <1>3, Started DEF Sending
  <2>5. slot[r].op = "drop" \/ \E i \in Indices : SendDrop(r, i)
    BY <1>3, Started DEF Sending
  <2>6. ~(slot[q].op = "move" /\ slot[r].op = "drop")
    BY DEF GivenUp, Doing
  <2> QED
    BY <1>3, <2>2, <2>3, <2>4, <2>5, <2>6
<1> QED
  BY <1>1, <1>2, <1>3 DEF GivenUp, Doing

-----------------------------------------------------------------------------
(* What is staged.                                                         *)

\* A publication that makes no exception is of the session whose row exists,
\* while nobody removes the folder; a part of it is noticed.
LEMMA Orderly ==
  ASSUME NEW q \in UplSlots, NEW whole \in BOOLEAN, past' = past \cup Published(q, whole), past' = {}
  PROVE  /\ session = slot[q].gen /\ \A r \in UplSlots : ~Removing(r)
         /\ whole \/ ~Unnoticed(q)
BY DEF Published

\* How the listing of the folder changes.
LEMMA Listings ==
  ASSUME UplTypeOK, OpMatches, [UplNext]_uplVars, past' = {}
  PROVE  \/ staged' = staged /\ Listing' = Listing
         \/ \E i \in Indices :
              /\ Listing' = Listing \ {i} /\ \A j \in Listing' : staged'[j] = staged[j]
              /\ UNCHANGED <<session, client>>
              /\ \E q \in UplSlots :
                   \/ RemoveChunk(q) /\ slot[q].op = "drop" /\ i = slot[q].index
                   \/ RemoveNext(q) /\ i \in slot[q].listed /\ \A j \in slot[q].listed : i <= j
         \/ \E q \in UplSlots, whole \in BOOLEAN :
              /\ WriteClose(q, whole) /\ q \in temps /\ slot[q].pc = "copy" /\ slot[q].index \in Indices
              /\ Listing' = Listing \cup {slot[q].index}
              /\ staged'[slot[q].index].whole = whole
              /\ \A j \in Indices \ {slot[q].index} : staged'[j] = staged[j]
              /\ UNCHANGED <<session, client>>
              /\ session = slot[q].gen /\ session # 0 /\ \A r \in UplSlots : ~Removing(r)
              /\ whole \/ ~Unnoticed(q)
<1>1. CASE staged' = staged
  BY <1>1 DEF Listing
<1>2. ASSUME NEW i \in Indices, staged'[i] = NoChunk, \A j \in Indices \ {i} : staged'[j] = staged[j]
      PROVE  Listing' = Listing \ {i} /\ \A j \in Listing' : staged'[j] = staged[j]
  BY <1>2 DEF Listing
<1>3. ASSUME NEW q \in UplSlots, NEW whole \in BOOLEAN, slot[q].index \in Indices, slot[q].gen # 0,
             staged'[slot[q].index] = [gen |-> slot[q].gen, whole |-> whole],
             \A j \in Indices \ {slot[q].index} : staged'[j] = staged[j]
      PROVE  Listing' = Listing \cup {slot[q].index} /\ staged'[slot[q].index].whole = whole
  <2>1. staged'[slot[q].index] # NoChunk
    BY <1>3 DEF NoChunk
  <2> QED
    BY <1>3, <2>1 DEF Listing
<1> QED
  BY <1>1, <1>2, <1>3, Orderly, Stagings

\* Assemblies and deletions are of the client's transfer.
LEMMA CurrentStep ==
  ASSUME UplTypeOK, OpMatches, Transfer, Current, [UplNext]_uplVars, past' = {}
  PROVE  Current'
<1> SUFFICES ASSUME NEW q \in UplSlots, slot'[q].op \in {"move", "delete"} PROVE slot'[q].gen = client'.gen
  BY DEF Current
<1>1. CASE MkdirMeta
  <2>1. slot'[q].op = slot[q].op /\ past' = past \cup {"crossed"}
    BY <1>1 DEF MkdirMeta
  <2> QED
    BY <2>1
<1>2. CASE ~MkdirMeta
  <2>1. client'.gen = client.gen
    BY <1>2, SameTransfer DEF UplNext, uplVars, UplCrash
  <2> QED
    BY <2>1, Started DEF Current, Sending
<1> QED
  BY <1>1, <1>2

\* A removal has listed all that is there.
LEMMA ListedAllStep ==
  ASSUME UplTypeOK, OpMatches, ListedAll, [UplNext]_uplVars, past' = {}
  PROVE  ListedAll'
<1> SUFFICES ASSUME NEW q \in UplSlots, slot'[q].pc = "erase" PROVE Listing' \subseteq slot'[q].listed
  BY DEF ListedAll
<1>0. Idle.pc # "erase" /\ \A op : FirstStep(op) = "erase" => op \notin {"put", "drop", "move"}
  BY DEF Idle, FirstStep
<1>1. CASE slot'[q] = slot[q]
  <2>1. Listing \subseteq slot[q].listed /\ Removing(q)
    BY <1>1 DEF ListedAll, Removing
  <2> QED
    BY <1>1, <2>1, Listings
<1>2. CASE SessionGet(q) /\ slot'[q].pc = FirstStep(slot[q].op) /\ slot'[q].op = slot[q].op /\ session # 0
  <2>1. slot[q].op = "delete"
    <3>1. slot[q].op # "none" /\ slot[q] \in Request
      BY <1>2 DEF SessionGet, OpMatches, Fits, UplTypeOK
    <3> QED
      BY <1>0, <1>2, <3>1 DEF Request, UplOps
  <2>2. slot'[q].listed = Listing
    BY <1>2, <2>1, GetSlot
  <2>3. Listing' = Listing
    BY <1>2 DEF SessionGet, Listing
  <2> QED
    BY <2>2, <2>3
<1>3. CASE RemoveStart(q)
  <2>1. Listing' = Listing
    BY <1>3 DEF RemoveStart, Listing
  <2> QED
    BY <1>0, <1>3, <2>1, RemoveStartSlot
<1>4. CASE RemoveNext(q)
  <2>1. PICK i \in Indices : /\ slot'[q].listed = slot[q].listed \ {i}
                             /\ staged' = [staged EXCEPT ![i] = NoChunk]
    BY <1>4, RemoveNextSlot
  <2>2. Listing' = Listing \ {i}
    BY <2>1 DEF Listing, UplTypeOK
  <2>3. Listing \subseteq slot[q].listed
    BY <1>4 DEF RemoveNext, ListedAll
  <2> QED
    BY <2>1, <2>2, <2>3
<1> QED
  BY <1>0, <1>1, <1>2, <1>3, <1>4, Moved DEF Sending, Advance

\* How an operation ends without an exception.
LEMMA DeleteEnds ==
  ASSUME UplTypeOK, OpMatches, [UplNext]_uplVars, past' = {},
         NEW q \in UplSlots, slot[q].op = "delete", slot'[q].op # "delete"
  PROVE  session' = 0 \/ UplCrash
<1>1. CASE ~\E r \in UplSlots : UplStep(r)
  BY <1>1 DEF UplNext, uplVars, MkdirMeta
<1>2. ASSUME NEW r \in UplSlots, UplStep(r) PROVE session' = 0
  <2>1. r = q
    BY <1>2, StepSlots
  <2>2. slot[q].pc \in {"session", "erase", "row"}
    BY DEF OpMatches, Fits, PutPC, MovePC, UplTypeOK, Request, PCs
  <2>3. CASE SessionGet(q)
    BY <2>3, GetSlot DEF SessionGet
  <2>4. CASE RemoveNext(q)
    BY <2>4, RemoveNextSlot
  <2>5. CASE RemoveFolder(q)
    <3>1. CASE Goto(q, "row")
      BY <3>1, GotoSlot DEF UplTypeOK, PCs
    <3> QED
      BY <2>5, <3>1 DEF RemoveFolder
  <2>6. CASE RemoveSession(q)
    BY <2>6 DEF RemoveSession
  <2> QED
    BY <1>2, <2>1, <2>2, <2>3, <2>4, <2>5, <2>6 DEF UplStep, SendPut, SendDrop, SendMove, SendDelete, Send, Busy,
       WriteCreate, WriteClose, Stat, RemoveChunk, Destination, List, Open, CheckTotal, WriteIf, CheckSum, RemoveStart
<1> QED
  BY <1>1, <1>2

\* An assembly runs on a full folder until its session or the client gives it up.
LEMMA MovedFullStep ==
  ASSUME UplTypeOK, OpMatches, GivenUp, MovedFull, [UplNext]_uplVars, past' = {}
  PROVE  MovedFull'
<1> SUFFICES ASSUME NEW q \in UplSlots, slot'[q].op = "move", session' # 0
             PROVE  Full' \/ (client'.acked = {} /\ Doing("delete")')
  BY DEF MovedFull, Doing
<1>0. client.acked \subseteq Indices /\ client'.acked \subseteq Indices
  BY TypeStep DEF UplTypeOK
<1>1. CASE SendMove(q)
  BY <1>1 DEF SendMove, Sent, Full
<1>2. CASE slot[q].op = "move"
  <2>1. ~UplCrash
    BY DEF UplCrash, Idle
  <2>2. ~MkdirMeta
    BY <1>2 DEF MkdirMeta
  <2>3. session # 0
    BY <2>2 DEF UplNext, uplVars, UplCrash, UplStep, SendPut, SendDrop, SendMove, SendDelete, Send, SessionGet, WriteCreate,
       WriteClose, Stat, RemoveChunk, Destination, List, Open, CheckTotal, WriteIf, CheckSum, RemoveStart, RemoveNext,
       RemoveFolder, RemoveSession, Unseen
  <2>4. ASSUME NEW r \in UplSlots, NEW i \in Indices PROVE ~SendDrop(r, i)
    BY <1>2 DEF SendDrop, Busy
  <2>5. ASSUME NEW r \in UplSlots, SendDelete(r) PROVE client'.acked = {} /\ Doing("delete")'
    <3>1. slot'[r].op = "delete"
      BY <2>5, SendSlot DEF SendDelete, UplOps
    <3> QED
      BY <2>5, <3>1 DEF SendDelete, Sent, Doing
  <2>6. CASE Full
    BY <1>0, <2>2, <2>4, <2>5, <2>6, Acks DEF Full
  <2>7. CASE client.acked = {} /\ Doing("delete")
    <3>1. PICK r \in UplSlots : slot[r].op = "delete"
      BY <2>7 DEF Doing
    <3>2. slot'[r].op = "delete"
      BY <2>1, <3>1, DeleteEnds
    <3>3. client'.acked = {}
      BY <2>7, <3>1, Acks
    <3> QED
      BY <3>2, <3>3 DEF Doing
  <2> QED
    BY <1>2, <2>3, <2>6, <2>7 DEF MovedFull, Doing
<1> QED
  BY <1>1, <1>2, Started DEF Sending

\* The row appears only when the folder is made.
LEMMA RowAppears ==
  ASSUME [UplNext]_uplVars, ~MkdirMeta, session' # 0
  PROVE  session' = session
BY DEF UplNext, uplVars, UplCrash, UplStep, SendPut, SendDrop, SendMove, SendDelete, Send, SessionGet, WriteCreate,
   WriteClose, Stat, RemoveChunk, Destination, List, Open, CheckTotal, WriteIf, CheckSum, RemoveStart, RemoveNext,
   RemoveFolder, RemoveSession, Unseen

\* A removal of chunks from a folder that is not full takes none that counts.
LEMMA AckedThereStep ==
  ASSUME UplTypeOK, OpMatches, GivenUp, MovedFull, AckedThere, [UplNext]_uplVars, past = {}, past' = {}
  PROVE  AckedThere'
<1> SUFFICES ASSUME session' # 0, client'.acked # Indices PROVE client'.acked \subseteq Listing'
  BY DEF AckedThere, Full
<1>1. CASE MkdirMeta
  BY <1>1 DEF MkdirMeta
<1>2. CASE ~MkdirMeta
  <2>0. session # 0 /\ session' = session
    BY <1>2, RowAppears
  <2>1. CASE staged' = staged /\ Listing' = Listing
    <3>1. ASSUME NEW q \in UplSlots, NEW i \in Indices, SendDrop(q, i), client'.acked = client.acked \ {i}
          PROVE  client'.acked \subseteq Listing'
      BY <2>1, <3>1 DEF SendDrop
    <3>2. ASSUME NEW q \in UplSlots, staged[slot[q].index] # NoChunk, slot[q].index \in Indices,
                 client'.acked = client.acked \cup {slot[q].index}
          PROVE  client'.acked \subseteq Listing'
      <4>1. slot[q].index \in Listing
        BY <3>2 DEF Listing
      <4>2. client.acked # Indices
        BY <3>2
      <4> QED
        BY <2>0, <2>1, <3>2, <4>1, <4>2 DEF AckedThere, Full
    <3>3. CASE client'.acked = client.acked
      BY <2>0, <2>1, <3>3 DEF AckedThere, Full
    <3> QED
      BY <1>2, <3>1, <3>2, <3>3, Acks
  <2>2. ASSUME NEW i \in Indices, Listing' = Listing \ {i}, client' = client, i \notin client.acked
        PROVE  client'.acked \subseteq Listing'
    BY <2>0, <2>2 DEF AckedThere, Full
  <2>3. ASSUME NEW q \in UplSlots, slot[q].op = "drop" PROVE slot[q].index \notin client.acked
    BY <2>3 DEF GivenUp
  <2>4. ASSUME NEW q \in UplSlots, RemoveNext(q), client' = client PROVE client.acked = {}
    <3>1. slot[q].op \in {"move", "delete"}
      BY <2>4 DEF RemoveNext, OpMatches, Fits
    <3>2. CASE slot[q].op = "delete"
      BY <3>2 DEF GivenUp, Doing
    <3>3. CASE slot[q].op = "move"
      BY <2>0, <2>4, <3>3 DEF MovedFull, Doing, Full
    <3> QED
      BY <3>1, <3>2, <3>3
  <2>5. ASSUME NEW q \in UplSlots, Listing' = Listing \cup {slot[q].index}, client' = client
        PROVE  client'.acked \subseteq Listing'
    BY <2>0, <2>5 DEF AckedThere, Full
  <2> QED
    BY <2>1, <2>2, <2>3, <2>4, <2>5, Listings
<1> QED
  BY <1>1, <1>2

\* A folder an assembly may list is full or holds an end of the file.
LEMMA AnEndStep ==
  ASSUME UplTypeOK, OpMatches, GivenUp, Staging, [UplNext]_uplVars, past = {}, past' = {}
  PROVE  AnEnd'
<1> SUFFICES ASSUME session' # 0, Final', Listing' # Indices
             PROVE  /\ UpTo(Listing')
                    /\ (\E q \in UplSlots : Removing(q)') \/ ~Doing("put")'
  BY DEF AnEnd, UpTo
<1> USE DEF Staging
<1>0. Indices # {} /\ Listing \subseteq Indices /\ client.acked \subseteq Indices
  BY UploadsAssumption DEF Indices, Listing, UplTypeOK
<1>1. ~MkdirMeta
  <2>1. ASSUME MkdirMeta PROVE FALSE
    <3>1. client'.acked = {} /\ slot' = slot /\ \A q \in UplSlots : slot[q].op # "move"
      BY <2>1 DEF MkdirMeta
    <3> QED
      BY <1>0, <3>1 DEF Final, Full, Doing
  <2> QED
    BY <2>1
<1>2. session # 0 /\ session' = session
  BY <1>1, RowAppears
<1>3. ASSUME ~Final PROVE FALSE
  <2>1. ~\E q \in UplSlots : slot'[q].op = "move"
    BY <1>3, Started DEF Sending, Final, Doing, SendMove, Full
  <2>2. client'.acked = Indices
    BY <2>1 DEF Final, Doing, Full
  <2>3. PICK q \in UplSlots : /\ Stat(q) /\ staged[slot[q].index] # NoChunk /\ slot[q].index \in Indices
                              /\ client'.acked = client.acked \cup {slot[q].index}
    BY <1>0, <1>1, <1>3, <2>2, Acks DEF Final, Full
  <2>4. slot[q].index \in Listing /\ client.acked \subseteq Listing
    BY <1>2, <1>3, <2>3 DEF Listing, AckedThere, Final
  <2>5. Listing' = Listing
    BY <2>3 DEF Stat, Listing
  <2> QED
    BY <1>0, <2>2, <2>3, <2>4, <2>5
<1>4. \/ Listing = Indices
      \/ UpTo(Listing) /\ ((\E q \in UplSlots : Removing(q)) \/ ~Doing("put"))
  BY <1>2, <1>3 DEF AnEnd
<1>5. UpTo(Listing)
  BY <1>4 DEF UpTo
<1>6. CASE \E q \in UplSlots, i \in Indices : RemoveNext(q) /\ Listing' = Listing \ {i} /\ i \in slot[q].listed /\ \A j \in slot[q].listed : i <= j
  <2>1. PICK q \in UplSlots, i \in Indices : /\ RemoveNext(q) /\ Listing' = Listing \ {i}
                                             /\ i \in slot[q].listed /\ \A j \in slot[q].listed : i <= j
    BY <1>6
  <2>2. Listing \subseteq slot[q].listed
    BY <2>1 DEF RemoveNext, ListedAll
  <2>3. UpTo(Listing')
    <3> SUFFICES ASSUME NEW k \in Listing', NEW j \in Indices, k < j PROVE j \in Listing'
      BY DEF UpTo
    <3>1. j \in Listing
      BY <1>5, <2>1 DEF UpTo
    <3>2. i <= k
      BY <2>1, <2>2
    <3> QED
      BY <1>0, <2>1, <3>1, <3>2 DEF Indices
  <2>4. Removing(q)'
    BY <2>1, RemoveNextSlot DEF RemoveNext, Removing
  <2> QED
    BY <2>3, <2>4
<1>7. CASE \E q \in UplSlots : slot[q].op = "drop"
  <2>1. PICK q \in UplSlots : slot[q].op = "drop"
    BY <1>7
  <2>2. ~Doing("move") /\ slot[q].index \notin client.acked /\ slot[q].index \in Indices
    BY <2>1 DEF GivenUp, OpMatches, Fits, Doing
  <2> QED
    BY <1>3, <2>2 DEF Final, Full
<1>8. CASE \E q \in UplSlots : /\ slot[q].pc = "copy" /\ Listing' = Listing \cup {slot[q].index}
                               /\ \A r \in UplSlots : ~Removing(r)
  <2>1. Doing("put") /\ ~\E r \in UplSlots : Removing(r)
    BY <1>8 DEF OpMatches, Fits, PutPC, Doing
  <2>2. Listing = Indices
    BY <1>4, <2>1
  <2>3. Listing' \subseteq Indices
    BY DEF Listing
  <2> QED
    BY <1>8, <2>2, <2>3
<1>9. CASE Listing' = Listing
  <2>1. UpTo(Listing') /\ ((\E q \in UplSlots : Removing(q)) \/ ~Doing("put"))
    BY <1>4, <1>9
  <2>2. CASE UplCrash
    <3>1. ~Doing("put")'
      BY <2>2 DEF UplCrash, Doing, Idle
    <3> QED
      BY <2>1, <3>1
  <2>3. ASSUME NEW q \in UplSlots, Removing(q), ~UplCrash PROVE Removing(q)'
    <3>1. slot[q].pc \in {"erase", "row"}
      BY <2>3 DEF Removing
    <3>2. slot'[q] # Idle
      <4>1. ASSUME slot'[q] = Idle PROVE FALSE
        <5>1. PICK r \in UplSlots : UplStep(r)
          BY <1>1, <2>3, <3>1, <4>1 DEF UplNext, uplVars, Idle
        <5>2. r = q
          BY <3>1, <4>1, <5>1, StepSlots DEF Idle
        <5>3. ~RemoveSession(q)
          BY <1>2 DEF RemoveSession
        <5>4. ~RemoveNext(q)
          BY <3>1, <4>1, RemoveNextSlot DEF Idle
        <5>5. ~RemoveFolder(q)
          <6>1. ASSUME RemoveFolder(q), Goto(q, "row") PROVE FALSE
            <7>1. slot'[q].pc = "row"
              BY <6>1, GotoSlot DEF UplTypeOK, PCs
            <7> QED
              BY <4>1, <7>1 DEF Idle
          <6> QED
            BY <6>1 DEF RemoveFolder
        <5>6. slot[q].op # "none"
          BY <3>1 DEF OpMatches, Fits
        <5> QED
          BY <3>1, <5>1, <5>2, <5>3, <5>4, <5>5, <5>6 DEF UplStep, SendPut, SendDrop, SendMove, SendDelete, Send, Busy,
             SessionGet, WriteCreate, WriteClose, Stat, RemoveChunk, Destination, List, Open, CheckTotal, WriteIf,
             CheckSum, RemoveStart
      <4> QED
        BY <4>1
    <3>3. slot[q].op # "none"
      BY <3>1 DEF OpMatches, Fits
    <3> QED
      BY <3>1, <3>2, <3>3, Moved DEF Removing, Sending, Advance, WriteCreate, WriteClose, CheckSum, RemoveStart
  <2>4. ASSUME ~Doing("put"), NEW q \in UplSlots, slot'[q].op = "put" PROVE FALSE
    <3>1. PICK i \in Indices : SendPut(q, i)
      BY <2>4, Started DEF Sending, Doing
    <3>2. i \notin client.acked /\ ~\E r \in UplSlots : slot[r].op = "delete"
      BY <3>1 DEF SendPut
    <3>3. ~Full /\ ~Doing("delete")
      BY <3>2 DEF Full, Doing
    <3> QED
      BY <1>2, <1>3, <3>3 DEF Final, MovedFull
  <2> QED
    BY <2>1, <2>2, <2>3, <2>4 DEF Doing
<1> HIDE DEF Staging
<1> QED
  BY <1>6, <1>7, <1>8, <1>9, Listings

\* What is staged stays in order.
LEMMA StagingStep ==
  UplTypeOK /\ OpMatches /\ Transfer /\ GivenUp /\ Staging /\ [UplNext]_uplVars => Staging'
<1> SUFFICES ASSUME UplTypeOK, OpMatches, Transfer, GivenUp, Staging, [UplNext]_uplVars, past' = {}
             PROVE  Current' /\ ListedAll' /\ MovedFull' /\ AckedThere' /\ AnEnd'
  BY DEF Staging
<1>1. past = {}
  BY Steady
<1>2. Current /\ ListedAll /\ MovedFull /\ AckedThere
  BY <1>1 DEF Staging
<1> QED
  BY <1>1, <1>2, CurrentStep, ListedAllStep, MovedFullStep, AckedThereStep, AnEndStep

-----------------------------------------------------------------------------
(* Which chunks are whole.                                                 *)

\* A chunk whose arrival is about to be reported is whole.
LEMMA WholeStatStep ==
  ASSUME UplTypeOK, OpMatches, WholeStat, [UplNext]_uplVars, past' = {}
  PROVE  WholeStat'
<1> SUFFICES ASSUME ~plan.declared, NEW q \in UplSlots, slot'[q].pc = "stat", slot'[q].index \in Listing'
             PROVE  staged'[slot'[q].index].whole
  BY Steady DEF WholeStat
<1>0. Idle.pc # "stat" /\ \A op : FirstStep(op) # "stat"
  BY DEF Idle, FirstStep
<1>1. CASE WriteClose(q, TRUE) /\ q \in temps /\ slot'[q].index = slot[q].index
  <2>1. /\ staged' = [staged EXCEPT ![slot[q].index] = [gen |-> slot[q].gen, whole |-> TRUE]]
        /\ slot[q].index \in Indices
    BY <1>1 DEF WriteClose, OpMatches, Fits, PutPC
  <2> QED
    BY <1>1, <2>1 DEF UplTypeOK
<1>2. CASE slot'[q] = slot[q]
  <2>1. slot[q].index \in Indices
    BY <1>2 DEF OpMatches, Fits, PutPC
  <2>2. slot[q].index \in Listing => staged[slot[q].index].whole
    BY <1>2 DEF WholeStat
  <2>3. ASSUME NEW r \in UplSlots, slot[r].index = slot[q].index PROVE Unnoticed(r)
    BY <1>2, <2>3 DEF Unnoticed
  <2> QED
    BY <1>2, <2>1, <2>2, <2>3, Listings
<1> QED
  BY <1>0, <1>1, <1>2, Moved DEF Sending, Advance

\* An acknowledged chunk is whole, and so is each once an assembly runs.
LEMMA WholeAckedStep ==
  ASSUME UplTypeOK, OpMatches, Staging, WholeStat, WholeAcked, [UplNext]_uplVars, past = {}, past' = {}
  PROVE  WholeAcked'
<1> SUFFICES ASSUME ~plan.declared, session' # 0, NEW i \in Listing', i \in client'.acked \/ Doing("move")'
             PROVE  staged'[i].whole
  BY Steady DEF WholeAcked
<1>0. Indices # {} /\ Listing \subseteq Indices /\ i \in Indices
  BY UploadsAssumption DEF Indices, Listing
<1>1. ~MkdirMeta
  <2>1. ASSUME MkdirMeta PROVE FALSE
    <3>1. client'.acked = {} /\ slot' = slot /\ \A q \in UplSlots : slot[q].op # "move"
      BY <2>1 DEF MkdirMeta
    <3> QED
      BY <3>1 DEF Doing
  <2> QED
    BY <2>1
<1>2. session # 0 /\ session' = session
  BY <1>1, RowAppears
<1>3. CASE i \notin client.acked /\ ~Doing("move")
  <2>1. ~\E q \in UplSlots : SendMove(q)
    BY <1>0, <1>3 DEF SendMove
  <2>2. ~Doing("move")'
    BY <1>3, <2>1, Started DEF Sending, Doing
  <2>3. PICK q \in UplSlots : Stat(q) /\ slot[q].pc = "stat" /\ slot[q].index = i
    BY <1>1, <1>3, <2>2, Acks
  <2>4. staged' = staged /\ Listing' = Listing
    BY <2>3 DEF Stat, Listing
  <2> QED
    BY <2>3, <2>4 DEF WholeStat
<1>4. CASE i \in client.acked \/ Doing("move")
  <2>1. i \in Listing => staged[i].whole
    BY <1>2, <1>4 DEF WholeAcked
  <2>2. ASSUME NEW q \in UplSlots, slot[q].pc = "copy", slot[q].index = i, \A r \in UplSlots : ~Removing(r)
        PROVE  Unnoticed(q)
    <3>1. i \in Listing
      <4>1. CASE Final
        <5>1. Doing("put")
          BY <2>2 DEF OpMatches, Fits, PutPC, Doing
        <5> QED
          BY <1>0, <1>2, <2>2, <4>1, <5>1 DEF Staging, AnEnd
      <4>2. CASE ~Final
        BY <1>2, <1>4, <4>2 DEF Staging, AckedThere, Final
      <4> QED
        BY <4>1, <4>2
    <3> QED
      BY <2>1, <2>2, <3>1 DEF Unnoticed
  <2> QED
    BY <1>0, <2>1, <2>2, Listings
<1> QED
  BY <1>3, <1>4

\* An assembly lists a full folder, and opens whole chunks of its own transfer.
LEMMA WholeOpenedStep ==
  ASSUME UplTypeOK, OpMatches, Transfer, Opening, NothingInherited, Staging, WholeAcked, WholeOpened,
         [UplNext]_uplVars, past = {}, past' = {}
  PROVE  WholeOpened'
<1> SUFFICES ASSUME NEW q \in UplSlots, slot'[q].pc = "open"
             PROVE  /\ slot'[q].listed = Indices
                    /\ \A k \in 1 .. Len(slot'[q].opened) : slot'[q].opened[k].gen = slot'[q].gen
                    /\ ~plan.declared \/ slot'[q].size = ChunkCount =>
                         /\ \A k \in 1 .. Len(slot'[q].opened) : slot'[q].opened[k].whole
                         /\ \A i \in Listing' : staged'[i].whole
  BY Steady DEF WholeOpened
<1>0. Idle.pc # "open" /\ \A op : FirstStep(op) # "open"
  BY DEF Idle, FirstStep
<1>1. CASE slot'[q] = slot[q]
  <2>1. ASSUME NEW i \in Listing', \A j \in Listing : staged[j].whole PROVE staged'[i].whole
    <3>1. ASSUME NEW r \in UplSlots PROVE Unnoticed(r)
      BY <1>1 DEF Unnoticed
    <3>2. i \in Indices
      BY DEF Listing
    <3> QED
      BY <2>1, <3>1, <3>2, Listings
  <2> QED
    BY <1>1, <2>1 DEF WholeOpened
<1>2. CASE List(q)
  <2>1. /\ session # 0 /\ Contiguous(Listing) /\ slot'[q].listed = Listing
        /\ slot'[q].size = Cardinality({i \in Listing : staged[i].whole})
        /\ slot'[q].opened = slot[q].opened /\ slot[q].pc = "list"
    BY <1>0, <1>2, ListSlot DEF List
  <2>2. slot[q].opened = <<>>
    BY <2>1 DEF Opening, Opens
  <2>3. Doing("move") /\ Final
    BY <2>1 DEF OpMatches, Fits, MovePC, Doing, Final
  <2>4. Listing = Indices
    <3>1. Listing \in SUBSET Indices
      BY DEF Listing
    <3>2. Cardinality(Listing) \in Nat /\ Listing # {} /\ Listing = 1 .. Cardinality(Listing)
      BY <2>1, <3>1, ListingSize DEF Contiguous
    <3>3. 1 \in Listing
      BY <3>2
    <3>4. UpTo(Listing)
      BY <2>1, <2>3 DEF Staging, AnEnd, UpTo
    <3>5. \A j \in Indices : 1 < j \/ j = 1
      BY DEF Indices
    <3> QED
      BY <3>1, <3>3, <3>4, <3>5 DEF UpTo
  <2>5. ~plan.declared => \A i \in Listing : staged[i].whole
    BY <2>1, <2>3 DEF WholeAcked
  <2>6. slot'[q].size = ChunkCount => \A i \in Listing : staged[i].whole
    <3> DEFINE S == {i \in Listing : staged[i].whole}
    <3>1. IsFiniteSet(Indices) /\ Cardinality(Indices) = ChunkCount /\ S \subseteq Indices
      BY <2>4, FS_Interval, UploadsAssumption DEF Indices
    <3>2. Cardinality(S) = ChunkCount => S = Indices
      BY <3>1, FS_Subset
    <3> QED
      BY <2>1, <2>4, <3>2
  <2>7. staged' = staged /\ Listing' = Listing
    BY <1>2 DEF List, Listing
  <2>8. Len(slot'[q].opened) = 0
    BY <2>1, <2>2
  <2> QED
    BY <2>1, <2>4, <2>5, <2>6, <2>7, <2>8
<1>3. CASE Open(q)
  <2> DEFINE n == Len(slot[q].opened) + 1
  <2>1. /\ slot[q].pc = "open" /\ staged[n] # NoChunk /\ n \in Indices
        /\ slot'[q].gen = slot[q].gen /\ slot'[q].listed = slot[q].listed /\ slot'[q].size = slot[q].size
        /\ slot'[q].opened = Append(slot[q].opened, staged[n])
    BY <1>0, <1>3, OpenSlot
  <2>2. staged' = staged /\ Listing' = Listing
    BY <1>3 DEF Open, Listing
  <2>3. staged[n].gen = slot[q].gen
    <3>1. session # 0 /\ staged[n].gen = session
      BY <2>1 DEF NothingInherited
    <3>2. slot[q].gen = client.gen
      BY <2>1 DEF OpMatches, Fits, MovePC, Staging, Current
    <3> QED
      BY <3>1, <3>2 DEF Transfer
  <2>4. n \in Listing
    BY <2>1 DEF Listing
  <2>5. /\ slot[q].opened \in Seq(Piece) /\ staged[n] \in Piece /\ Len(slot[q].opened) \in Nat
    BY <2>1, LenProperties DEF UplTypeOK, Request
  <2>6. PICK o : o = Append(slot[q].opened, staged[n])
    OBVIOUS
  <2>7. Len(o) = n /\ o[n] = staged[n] /\ \A k \in 1 .. (n - 1) : o[k] = slot[q].opened[k]
    BY <2>5, <2>6, AppendProperties
  <2>8. /\ slot[q].listed = Indices
        /\ \A k \in 1 .. (n - 1) : slot[q].opened[k].gen = slot[q].gen
        /\ ~plan.declared \/ slot[q].size = ChunkCount =>
             /\ \A k \in 1 .. (n - 1) : slot[q].opened[k].whole
             /\ \A i \in Listing : staged[i].whole
    BY <2>1, <2>5 DEF WholeOpened
  <2>9. n \in Nat /\ slot'[q].opened = o
    BY <2>1, <2>5, <2>6
  <2> HIDE DEF n
  <2>10. \A k \in 1 .. n : k = n \/ k \in 1 .. (n - 1)
    BY <2>9
  <2> QED
    BY <2>1, <2>2, <2>3, <2>4, <2>7, <2>8, <2>9, <2>10
<1> QED
  BY <1>0, <1>1, <1>2, <1>3, Moved DEF Sending, Advance

\* An assembly writes the whole file of its transfer.
LEMMA WholeWrittenStep ==
  ASSUME UplTypeOK, OpMatches, WholeOpened, WholeWritten, [UplNext]_uplVars
  PROVE  WholeWritten'
<1> SUFFICES ASSUME NEW q \in UplSlots, slot'[q].pc \in {"write", "sum"} PROVE slot'[q].opened = Complete(slot'[q].gen)
  BY DEF WholeWritten, Complete
<1>0. Idle.pc \notin {"write", "sum"} /\ \A op : FirstStep(op) \notin {"write", "sum"}
  BY DEF Idle, FirstStep
<1>1. CASE slot'[q] = slot[q]
  BY <1>1 DEF WholeWritten
<1>2. CASE WriteIf(q) /\ slot[q].pc = "write" /\ slot'[q].gen = slot[q].gen
  <2>1. Goto(q, "sum")
    <3>1. End(q) \/ Goto(q, "sum") \/ Goto(q, "again")
      BY <1>2 DEF WriteIf
    <3>2. ~End(q)
      BY <1>0, EndSlot DEF UplTypeOK
    <3>3. ~Goto(q, "again")
      BY GotoSlot DEF UplTypeOK, PCs
    <3> QED
      BY <3>1, <3>2, <3>3
  <2>2. slot'[q].opened = slot[q].opened
    BY <2>1, GotoSlot DEF UplTypeOK, PCs
  <2> QED
    BY <1>2, <2>2 DEF WholeWritten
<1>3. CASE CheckTotal(q) /\ slot[q].pc = "open" /\ TotalMatches(q) /\ slot'[q].gen = slot[q].gen
  <2>1. Goto(q, "write") /\ Len(slot[q].opened) = Cardinality(slot[q].listed)
    BY <1>3 DEF CheckTotal
  <2>2. slot'[q].opened = slot[q].opened
    BY <2>1, GotoSlot DEF UplTypeOK, PCs
  <2>3. Len(slot[q].opened) = ChunkCount
    BY <1>3, <2>1, FS_Interval, UploadsAssumption DEF WholeOpened, Indices
  <2>4. plan.declared => slot[q].size = ChunkCount
    BY <1>3, UploadsAssumption DEF TotalMatches, OpMatches, Fits, MovePC
  <2>5. \A k \in Indices : slot[q].opened[k].gen = slot[q].gen /\ slot[q].opened[k].whole
    BY <1>3, <2>3, <2>4 DEF WholeOpened, Indices
  <2>6. slot[q].opened \in [Indices -> Piece]
    BY <2>3, LenProperties DEF UplTypeOK, Request, Indices
  <2>7. \A k \in Indices : slot[q].opened[k] = [gen |-> slot[q].gen, whole |-> TRUE]
    BY <2>5, <2>6 DEF Piece
  <2>8. slot[q].opened = Complete(slot[q].gen)
    BY <2>6, <2>7 DEF Complete
  <2> QED
    BY <1>3, <2>2, <2>8
<1> QED
  BY <1>0, <1>1, <1>2, <1>3, Moved DEF Sending, Advance

\* Chunks stay whole.
LEMMA WholenessStep ==
  Base /\ NothingInherited /\ Staging /\ Wholeness /\ [UplNext]_uplVars => Wholeness'
<1> SUFFICES ASSUME Base, NothingInherited, Staging, Wholeness, [UplNext]_uplVars, past' = {}
             PROVE  WholeStat' /\ WholeAcked' /\ WholeOpened' /\ WholeWritten'
  BY DEF Wholeness
<1>1. past = {}
  BY Steady
<1>2. WholeStat /\ WholeAcked /\ WholeOpened /\ WholeWritten
  BY <1>1 DEF Wholeness
<1> QED
  BY <1>1, <1>2, WholeStatStep, WholeAckedStep, WholeOpenedStep, WholeWrittenStep DEF Base

\* What is assembled is a whole file.
LEMMA AssembledStep == Base /\ Wholeness /\ AssembledWhole /\ [UplNext]_uplVars => AssembledWhole'
<1> SUFFICES ASSUME Base, Wholeness, AssembledWhole, [UplNext]_uplVars, past' = {},
                    NEW content \in {file'} \cup ToSet(older')
             PROVE  content \in {<<>>, Initially} \cup {Complete(g) : g \in Generations}
  BY Steady DEF AssembledWhole, Generations, Complete
<1>1. past = {}
  BY Steady
<1>2. \A c \in {file} \cup ToSet(older) : c \in {<<>>, Initially} \cup {Complete(g) : g \in Generations}
  BY <1>1 DEF AssembledWhole
<1>3. ASSUME NEW q \in UplSlots, slot[q].pc = "write"
      PROVE  slot[q].opened \in {Complete(g) : g \in Generations}
  <2>1. slot[q].opened = Complete(slot[q].gen)
    BY <1>1, <1>3 DEF Wholeness, WholeWritten
  <2>2. slot[q].gen \in Generations
    <3>1. slot[q].gen # 0 /\ slot[q].gen <= client.gen
      BY <1>3 DEF Base, OpMatches, Fits, MovePC
    <3>2. client.gen <= plan.sessions
      BY DEF Base, Transfer
    <3>3. slot[q].gen \in Nat /\ client.gen \in Nat /\ plan.sessions \in Nat
      BY UploadsAssumption DEF Base, UplTypeOK, Request, UplSceneOK
    <3> QED
      BY <3>1, <3>2, <3>3 DEF Generations
  <2> QED
    BY <2>1, <2>2
<1>4. Base => UplTypeOK
  BY DEF Base
<1> QED
  BY <1>2, <1>3, <1>4, Contents

Inv == Base /\ NothingInherited /\ GivenUp /\ Staging /\ Wholeness /\ AssembledWhole

\* What an assembly stores is the client's whole file of one transfer, as long
\* as no exception was made: whatever retries, second MOVEs, deletions, broken
\* connections and crashes come together (Uploads.Write, Remove and Assemble).
THEOREM WholeFiles == UplSpec => []AssembledWhole
<1>1. UplInit => Inv
  <2> SUFFICES ASSUME NEW s \in UplScenes, UplStart(s) PROVE Inv
    BY DEF UplInit
  <2>1. Base /\ NothingInherited
    BY BaseInit DEF UplInit
  <2>2. slot = [q \in UplSlots |-> Idle] /\ older = <<>> /\ session = 0 /\ file \in {<<>>, Initially}
    BY DEF UplStart
  <2>3. GivenUp
    BY <2>2 DEF GivenUp, Doing, Idle
  <2>4. Staging
    BY <2>2 DEF Staging, Current, ListedAll, MovedFull, AckedThere, AnEnd, Doing, Idle
  <2>5. Wholeness
    BY <2>2 DEF Wholeness, WholeStat, WholeAcked, WholeOpened, WholeWritten, Idle
  <2>6. AssembledWhole
    BY <2>2 DEF AssembledWhole, ToSet
  <2> QED
    BY <2>1, <2>3, <2>4, <2>5, <2>6 DEF Inv
<1>2. Inv /\ [UplNext]_uplVars => Inv'
  <2>1. Base /\ NothingInherited /\ [UplNext]_uplVars => Base' /\ NothingInherited'
    BY TypeStep, OpStep, TransferStep, OpeningStep, EmptiedStep, InheritedStep DEF Base
  <2>2. Base /\ GivenUp /\ [UplNext]_uplVars => GivenUp'
    BY GivenUpStep DEF Base
  <2>3. Base /\ GivenUp /\ Staging /\ [UplNext]_uplVars => Staging'
    BY StagingStep DEF Base
  <2> QED
    BY <2>1, <2>2, <2>3, WholenessStep, AssembledStep DEF Inv
<1>3. Inv => AssembledWhole
  BY DEF Inv
<1> QED
  BY <1>1, <1>2, <1>3, PTL DEF UplSpec
=============================================================================
