--------------------------- MODULE ArchiveProofs ---------------------------
(***************************************************************************)
(* Proofs about the transfer slots of an agent (module Slots) and about a  *)
(* cold start over the archive (module Archive), for every set of files,   *)
(* contents and rival clients, every number of slots, workers and          *)
(* attempts, and every size of the buffer between handler and client.      *)
(*                                                                         *)
(* The first half is about the slots alone: whatever mix of requests takes *)
(* a slot, waits for one, is refused or returns, the tokens in the channel *)
(* are the handlers at work.  The second half is about the stream.         *)
(***************************************************************************)
EXTENDS Archive, FiniteSetTheorems, SequenceTheorems, TLAPS

(***************************************************************************)
(* The slots.  A request blocks on the channel once, and the handlers at   *)
(* work are finitely many, so that one more and one less are one token     *)
(* more and less.                                                          *)
(***************************************************************************)
Serving == {r \in Requests : handler[r] = "serving"}
Waiting == {r \in Requests : handler[r] = "waiting"}
Queue == {blocked[i] : i \in DOMAIN blocked}

BlockedOnce == \A i, j \in DOMAIN blocked : blocked[i] = blocked[j] => i = j

SlotsInductive ==
  /\ SlotsTypeOK
  /\ IsFiniteSet(Serving) /\ sem = Cardinality(Serving)
  /\ Waiting = Queue
  /\ BlockedOnce
  /\ blocked # <<>> => sem = MaxConcurrent

LEMMA SlotsStart == SlotsInit => SlotsInductive
<1> SUFFICES ASSUME SlotsInit PROVE SlotsInductive
  OBVIOUS
<1> USE DEF SlotsInit
<1>1. SlotsTypeOK
  BY MaxConcurrentAssumption DEF SlotsTypeOK
<1>2. Serving = {}
  BY DEF Serving
<1>3. Waiting = Queue
  BY DEF Waiting, Queue
<1>4. BlockedOnce
  BY DEF BlockedOnce
<1> QED
  BY <1>1, <1>2, <1>3, <1>4, FS_EmptySet DEF SlotsInductive

LEMMA AcquireKeeps ==
  ASSUME NEW r \in Requests, SlotsInductive, Acquire(r)
  PROVE  SlotsInductive'
<1> USE MaxConcurrentAssumption
<1>1. CASE sem < MaxConcurrent
  <2>1. /\ sem' = sem + 1
        /\ handler' = [handler EXCEPT ![r] = "serving"]
        /\ UNCHANGED blocked
        /\ handler[r] = "none"
    BY <1>1 DEF Acquire, SlotsInductive, SlotsTypeOK
  <2>2. SlotsTypeOK'
    BY <2>1, <1>1 DEF SlotsInductive, SlotsTypeOK
  <2>3. Serving' = Serving \cup {r} /\ r \notin Serving
    BY <2>1 DEF SlotsInductive, SlotsTypeOK, Serving
  <2>4. IsFiniteSet(Serving') /\ Cardinality(Serving') = Cardinality(Serving) + 1
    BY <2>3, FS_AddElement DEF SlotsInductive
  <2>5. (Waiting = Queue)' /\ BlockedOnce'
    BY <2>1 DEF SlotsInductive, SlotsTypeOK, Waiting, Queue, BlockedOnce
  <2>6. blocked' = <<>>
    BY <2>1, <1>1 DEF SlotsInductive, SlotsTypeOK
  <2> QED
    BY <2>1, <2>2, <2>4, <2>5, <2>6 DEF SlotsInductive
<1>2. CASE sem = MaxConcurrent
  <2>1. /\ UNCHANGED sem
        /\ handler' = [handler EXCEPT ![r] = "waiting"]
        /\ blocked' = Append(blocked, r)
        /\ handler[r] = "none"
    BY <1>2 DEF Acquire, SlotsInductive, SlotsTypeOK
  <2>2. SlotsTypeOK'
    BY <2>1 DEF SlotsInductive, SlotsTypeOK
  <2>3. Serving' = Serving
    BY <2>1 DEF SlotsInductive, SlotsTypeOK, Serving
  <2>4. Waiting' = Waiting \cup {r} /\ r \notin Waiting
    BY <2>1 DEF SlotsInductive, SlotsTypeOK, Waiting
  <2>5. /\ DOMAIN blocked' = 1 .. Len(blocked) + 1
        /\ blocked'[Len(blocked) + 1] = r
        /\ \A i \in 1 .. Len(blocked) : blocked'[i] = blocked[i]
        /\ DOMAIN blocked = 1 .. Len(blocked) /\ Len(blocked) \in Nat
    BY <2>1 DEF SlotsInductive, SlotsTypeOK
  <2>6. Queue' = Queue \cup {r}
    BY <2>5 DEF Queue
  <2>7. BlockedOnce'
    BY <2>4, <2>5 DEF SlotsInductive, BlockedOnce, Queue
  <2> QED
    BY <2>1, <2>2, <2>3, <2>4, <2>6, <2>7, <1>2 DEF SlotsInductive
<1> QED
  BY <1>1, <1>2 DEF Acquire

LEMMA RefuseKeeps ==
  ASSUME NEW r \in Requests, SlotsInductive, Refuse(r)
  PROVE  SlotsInductive'
<1>1. PICK i \in DOMAIN blocked :
        /\ blocked[i] = r
        /\ blocked' = [j \in 1 .. Len(blocked) - 1 |->
                         IF j < i THEN blocked[j] ELSE blocked[j + 1]]
  BY DEF Refuse
<1>2. /\ UNCHANGED sem
      /\ handler' = [handler EXCEPT ![r] = "busy"]
      /\ handler[r] = "waiting"
  BY DEF Refuse
<1>3. /\ DOMAIN blocked = 1 .. Len(blocked) /\ Len(blocked) \in Nat
      /\ i \in 1 .. Len(blocked)
  BY <1>1 DEF SlotsInductive, SlotsTypeOK
<1>4. /\ blocked' \in Seq(Requests)
      /\ Len(blocked') = Len(blocked) - 1
      /\ \A j \in 1 .. Len(blocked) - 1 :
           blocked'[j] = IF j < i THEN blocked[j] ELSE blocked[j + 1]
  <2>1. blocked \in Seq(Requests)
    BY DEF SlotsInductive, SlotsTypeOK
  <2> QED
    BY <2>1, <1>1, <1>3
<1>5. SlotsTypeOK'
  BY <1>2, <1>4 DEF SlotsInductive, SlotsTypeOK
<1>6. Serving' = Serving
  BY <1>2 DEF SlotsInductive, SlotsTypeOK, Serving
<1>7. Waiting' = Waiting \ {r}
  BY <1>2 DEF SlotsInductive, SlotsTypeOK, Waiting
<1>8. DOMAIN blocked' = 1 .. Len(blocked) - 1
  BY <1>4
<1>9. Queue' = Queue \ {r}
  <2>1. ASSUME NEW q \in Queue' PROVE q \in Queue \ {r}
    <3>1. PICK j \in 1 .. Len(blocked) - 1 : blocked'[j] = q
      BY <1>8 DEF Queue
    <3>2. PICK k \in 1 .. Len(blocked) : k # i /\ blocked[k] = q
      BY <3>1, <1>3, <1>4
    <3> QED
      BY <3>2, <1>1, <1>3 DEF Queue, SlotsInductive, BlockedOnce
  <2>2. ASSUME NEW q \in Queue \ {r} PROVE q \in Queue'
    <3>1. PICK j \in 1 .. Len(blocked) : blocked[j] = q
      BY <1>3 DEF Queue
    <3>2. CASE j < i
      BY <3>1, <3>2, <1>3, <1>4, <1>8 DEF Queue
    <3>3. CASE j > i
      <4>1. j - 1 \in 1 .. Len(blocked) - 1 /\ blocked'[j - 1] = q
        BY <3>1, <3>3, <1>3, <1>4
      <4> QED
        BY <4>1, <1>8 DEF Queue
    <3> QED
      BY <3>1, <3>2, <3>3, <1>1, <1>3
  <2> QED
    BY <2>1, <2>2
<1>10. BlockedOnce'
  BY <1>3, <1>4, <1>8, SMTT(30) DEF SlotsInductive, BlockedOnce
<1>11. blocked' # <<>> => sem = MaxConcurrent
  BY <1>3 DEF SlotsInductive
<1> QED
  BY <1>2, <1>5, <1>6, <1>7, <1>9, <1>10, <1>11 DEF SlotsInductive

LEMMA ReleaseKeeps ==
  ASSUME NEW r \in Requests, SlotsInductive, Release(r)
  PROVE  SlotsInductive'
<1> USE MaxConcurrentAssumption
<1>1. handler[r] = "serving" /\ r \in Serving
  BY DEF Release, Serving
<1>2. CASE blocked = <<>>
  <2>1. /\ sem' = sem - 1
        /\ handler' = [handler EXCEPT ![r] = "over"]
        /\ UNCHANGED blocked
    BY <1>2 DEF Release
  <2>2. Serving' = Serving \ {r}
    BY <2>1 DEF SlotsInductive, SlotsTypeOK, Serving
  <2>3. /\ IsFiniteSet(Serving')
        /\ Cardinality(Serving') = Cardinality(Serving) - 1
    BY <2>2, <1>1, FS_RemoveElement DEF SlotsInductive
  <2>4. Cardinality(Serving') \in Nat
    BY <2>3, FS_CardinalityType
  <2>5. sem' \in 0 .. MaxConcurrent
    BY <2>1, <2>3, <2>4 DEF SlotsInductive, SlotsTypeOK
  <2>6. SlotsTypeOK'
    BY <2>1, <2>5 DEF SlotsInductive, SlotsTypeOK
  <2>7. (Waiting = Queue)' /\ BlockedOnce'
    BY <2>1, <1>1 DEF SlotsInductive, SlotsTypeOK, Waiting, Queue, BlockedOnce
  <2> QED
    BY <2>1, <2>3, <2>6, <2>7, <1>2 DEF SlotsInductive
<1>3. CASE blocked # <<>>
  <2> DEFINE h == Head(blocked)
  <2>1. /\ UNCHANGED sem
        /\ handler' = [[handler EXCEPT ![r] = "over"] EXCEPT ![h] = "serving"]
        /\ blocked' = Tail(blocked)
    BY <1>3 DEF Release
  <2>2. /\ DOMAIN blocked = 1 .. Len(blocked) /\ Len(blocked) \in Nat
        /\ 1 \in 1 .. Len(blocked) /\ h = blocked[1]
        /\ Len(blocked') = Len(blocked) - 1 /\ blocked' \in Seq(Requests)
        /\ DOMAIN blocked' = 1 .. Len(blocked) - 1
        /\ \A j \in 1 .. Len(blocked) - 1 : blocked'[j] = blocked[j + 1]
    BY <2>1, <1>3 DEF SlotsInductive, SlotsTypeOK
  <2>3. h \in Waiting
    BY <2>2 DEF SlotsInductive, Queue
  <2>4. h \in Requests /\ handler[h] = "waiting" /\ h # r
    BY <2>3, <1>1 DEF Waiting
  <2> HIDE DEF h
  <2>5. SlotsTypeOK'
    BY <2>1, <2>2, <2>4 DEF SlotsInductive, SlotsTypeOK
  <2>6. Serving' = (Serving \ {r}) \cup {h} /\ h \notin Serving
    BY <2>1, <2>4 DEF SlotsInductive, SlotsTypeOK, Serving
  <2>7. /\ IsFiniteSet(Serving \ {r})
        /\ Cardinality(Serving \ {r}) = Cardinality(Serving) - 1
    BY <1>1, FS_RemoveElement DEF SlotsInductive
  <2>8. /\ IsFiniteSet(Serving')
        /\ Cardinality(Serving') = Cardinality(Serving) - 1 + 1
    BY <2>6, <2>7, FS_AddElement
  <2>9. Cardinality(Serving) \in Nat
    BY FS_CardinalityType DEF SlotsInductive
  <2>10. Waiting' = Waiting \ {h}
    BY <2>1, <2>4, <1>1 DEF SlotsInductive, SlotsTypeOK, Waiting
  <2>11. Queue' = Queue \ {h}
    <3>1. ASSUME NEW q \in Queue' PROVE q \in Queue \ {h}
      BY <2>2 DEF Queue, SlotsInductive, BlockedOnce
    <3>2. ASSUME NEW q \in Queue \ {h} PROVE q \in Queue'
      <4>1. PICK j \in 1 .. Len(blocked) : blocked[j] = q /\ j # 1
        BY <2>2 DEF Queue
      <4>2. j - 1 \in 1 .. Len(blocked) - 1 /\ blocked'[j - 1] = q
        BY <4>1, <2>2
      <4> QED
        BY <4>2, <2>2 DEF Queue
    <3> QED
      BY <3>1, <3>2
  <2>12. BlockedOnce'
    BY <2>2, SMTT(30) DEF SlotsInductive, BlockedOnce
  <2>13. sem = MaxConcurrent
    BY <1>3 DEF SlotsInductive
  <2> QED
    BY <2>1, <2>5, <2>8, <2>9, <2>10, <2>11, <2>12, <2>13 DEF SlotsInductive
<1> QED
  BY <1>2, <1>3

(***************************************************************************)
(* The stream.  A member of the archive begins at a place of the stream:   *)
(* at 0 when the client is unpacking it, at h when its header is the h-th  *)
(* item on the way.  Of, Had and Due are its file, the blocks of it that   *)
(* were unpacked before, and those its header still promises.              *)
(***************************************************************************)
Item ==
  [kind : {"header"}, file : Files, size : Nat] \cup [kind : {"block"}, data : Nat]
    \cup [kind : {"end"}]

Begins(h) == h = 0 \/ (h \in 1 .. Len(wire) /\ wire[h].kind = "header")
Of(h) == IF h = 0 THEN member.file ELSE wire[h].file
Had(h) == IF h = 0 THEN Len(member.got) ELSE 0
Due(h) == IF h = 0 THEN member.need ELSE wire[h].size
Blocks(h, i) == \A k \in h + 1 .. i : wire[k].kind = "block"

\* Types, those that TypeOK leaves open included.
DataTypes ==
  /\ Partial(tree, Contents) /\ Partial(plan, Contents)
  /\ Partial(local, Seq(Nat)) /\ Partial(row, Seq(Nat))
  /\ scan = NoFile \/ Partial(scan, {Len(c) : c \in Contents})
  /\ digests \subseteq Files

CountTypes ==
  /\ phase \in {"start", "bulk", "pool", "end"}
  /\ conn \in {"idle", "asked", "body", "closed"}
  /\ pool \in [Files -> {"idle", "asked", "retry", "ok", "failed"}]
  /\ tries \in [Files -> 0 .. Attempts]
  /\ edits \in 0 .. MaxEdits /\ faults \in 0 .. MaxFaults
  /\ trouble \in BOOLEAN

StreamTypes ==
  /\ tar \in [next : 1 .. Len(Order) + 1, open : Files \cup {NoFile},
              data : Seq(Nat), at : Nat, owed : Nat]
  /\ member \in [file : Files \cup {NoFile}, need : Nat, got : Seq(Nat), keep : BOOLEAN]
  /\ wire \in Seq(Item)

\* The handler of the archive has a walk and a client that asked; the channel
\* between them holds one more than the buffer only when the handler returned.
BulkStates ==
  /\ handler[Bulk] # "none" => scan # NoFile /\ conn # "idle"
  /\ handler[Bulk] \in {"none", "waiting"} =>
       tar.next = 1 /\ tar.owed = 0 /\ wire = <<>> /\ member = Idle
  /\ handler[Bulk] = "busy" => trouble
  /\ tar.open # NoFile => handler[Bulk] = "serving"
  /\ Len(wire) <= Buffer + 1
  /\ handler[Bulk] # "over" => Len(wire) <= Buffer

\* The file that is open is the one the loop is at.
TarPlace == tar.open # NoFile => tar.next <= Len(Order) /\ tar.open = Order[tar.next]

\* The run, its connection and its pool.
RunStates ==
  /\ phase = "start" <=> conn = "idle"
  /\ phase = "bulk" <=> conn \in {"asked", "body"}
  /\ phase = "start" => local = <<>> /\ row = <<>>
  /\ conn = "closed" => wire = <<>> /\ member = Idle
  /\ phase \in {"start", "bulk"} => \A f \in Files : pool[f] = "idle" /\ tries[f] = 0
  /\ \A f \in Files : pool[f] = "asked" => tries[f] > 0
  /\ \A f \in Files : pool[f] # "idle" => f \in DOMAIN plan

\* A block that tells the k-th block of the file as planned, unless it changed.
Tells(f, k, b) == f \in DOMAIN plan \ changed => b = plan[f][k]

PlanHolds ==
  phase # "start" => \A f \in DOMAIN plan \ changed : f \in DOMAIN tree /\ tree[f] = plan[f]

\* Every block on the way belongs to a member that still expects it.
StreamTells ==
  \A h \in 0 .. Len(wire), i \in 1 .. Len(wire) :
    h < i /\ Begins(h) /\ Blocks(h, i) =>
      i - h <= Due(h) /\ Tells(Of(h), Had(h) + (i - h), wire[i].data)

GotTells == \A k \in 1 .. Len(member.got) : Tells(member.file, k, member.got[k])

\* What the handler reads, and where what it read last is.
TarTells ==
  /\ tar.open \in DOMAIN plan \ changed => tar.data = plan[tar.open]
  /\ tar.open # NoFile /\ conn # "closed" /\ tar.owed > 0 =>
       \E h \in 0 .. Len(wire) :
         /\ Begins(h) /\ Blocks(h, Len(wire))
         /\ Of(h) = tar.open /\ Had(h) + (Len(wire) - h) = tar.at

\* The tar writer owes what the member at the end of the stream still lacks.
OwedIsDue ==
  handler[Bulk] = "serving" /\ conn # "closed" =>
    \A h \in 0 .. Len(wire) :
      Begins(h) /\ Blocks(h, Len(wire)) /\ Of(h) # NoFile =>
        Due(h) = (Len(wire) - h) + tar.owed

KeptIsWanted == member.keep => member.file \in DOMAIN plan
RowsArePlanned == DOMAIN row \subseteq DOMAIN plan
UnopenedAreFiles == unopened \subseteq Files

ArchiveInductive ==
  /\ SlotsInductive /\ DataTypes /\ CountTypes /\ StreamTypes
  /\ BulkStates /\ TarPlace /\ RunStates
  /\ PlanHolds /\ StreamTells /\ GotTells /\ TarTells /\ OwedIsDue
  /\ KeptIsWanted /\ RowsArePlanned /\ UnopenedAreFiles /\ RowsMatchFiles
  /\ InstalledAsPlanned /\ NothingForgotten

(***************************************************************************)
(* A quiet run: nothing failed and nothing changed since the plan, and the *)
(* walk of the archive saw the tree the plan saw.                          *)
(***************************************************************************)
Quiet ==
  /\ phase # "start" /\ ~ trouble /\ changed = {}
  /\ scan = [f \in DOMAIN tree |-> Len(tree[f])]

OnItsWay(f) ==
  \/ f \in DOMAIN row \cup unopened
  \/ \E h \in 0 .. Len(wire) : Begins(h) /\ Of(h) = f

\* A member promises what the walk saw, whatever happens.
PromisesAreScanned ==
  \A h \in 0 .. Len(wire) :
    Begins(h) /\ Of(h) # NoFile => Of(h) \in DOMAIN scan /\ Had(h) + Due(h) = scan[Of(h)]

EndIsLast ==
  \A i \in 1 .. Len(wire) :
    wire[i].kind = "end" => i = Len(wire) /\ handler[Bulk] = "over"

\* A client between two members unpacks nothing.
IdleIsWhole == member.file = NoFile => member = Idle

QuietHandler ==
  /\ tar.open = NoFile => tar.owed = 0
  /\ tar.open # NoFile =>
       /\ tar.at + tar.owed = Len(tar.data)
       /\ tar.open \in DOMAIN plan => OnItsWay(tar.open)
  /\ \A i \in 1 .. tar.next - 1 : Order[i] \in DOMAIN plan => OnItsWay(Order[i])
  /\ \A i \in 1 .. Len(wire) : wire[i].kind = "end" => tar.next > Len(Order)

QuietStream ==
  /\ member.file \in DOMAIN plan => member.keep
  /\ \A h \in 0 .. Len(wire), i \in 1 .. Len(wire) :
       h < i /\ Begins(h) /\ Blocks(h, i - 1) /\ Of(h) # NoFile /\ wire[i].kind # "block" =>
         Due(h) = (i - 1) - h

QuietInductive ==
  /\ ArchiveInductive
  /\ PromisesAreScanned /\ EndIsLast /\ IdleIsWhole
  /\ Quiet /\ phase = "bulk" => QuietHandler /\ QuietStream
  /\ Quiet /\ phase \in {"pool", "end"} =>
       DOMAIN plan \ unopened \subseteq DOMAIN row /\ \A f \in Files \ unopened : tries[f] = 0

(***************************************************************************)
(* Steps.  Most of them leave the tree, the stream and the plan alone.     *)
(***************************************************************************)
Elsewhere ==
  UNCHANGED <<tree, changed, scan, tar, unopened, wire, conn, member, plan, digests>>

LEMMA Numbers ==
  /\ Attempts \in Nat /\ Attempts >= 1 /\ Buffer \in Nat /\ Workers \in Nat
  /\ MaxEdits \in Nat /\ MaxFaults \in Nat
  BY ArchiveAssumption

LEMMA RequestNames ==
  /\ Bulk \in Requests
  /\ \A f \in Files : \A n \in 1 .. Attempts : <<f, n>> \in Requests \ {Bulk}
  /\ \A r \in Rivals : <<r, 1>> \in Requests \ {Bulk}
  BY ArchiveAssumption, NamesAssumption DEF AllRequests, Bulk

LEMMA StepCases ==
  ASSUME [Next]_vars
  PROVE  \/ ScanTree \/ SkipEntry \/ OpenFails \/ OpenEntry \/ CopyBlock \/ EndEntry \/ Return
             \/ CopyFails
         \/ OpenArchive \/ Answered \/ AnsweredBusy \/ ArchiveBreaks
         \/ ReadHeader \/ ReadBlock \/ ReadEnd \/ DiskFails \/ EndMember
         \/ \E f \in Files : Remove(f) \/ \E c \in Contents : Rewrite(f, c)
         \/ AskSlot \/ RefuseArchive \/ Others \/ EndPool \/ UNCHANGED vars
         \/ \E r \in Rivals : RivalAsks(r) \/ RivalReads(r)
         \/ \E f \in Files :
              Fetch(f) \/ Arrives(f) \/ Misfits(f) \/ Denied(f) \/ Refused(f) \/ AttemptBreaks(f)
  BY DEF Next, Agent, Client, Faults, Writers, Worker

\* What a request does to the handler of the archive.
LEMMA BulkAcquires ==
  ASSUME SlotsInductive, Acquire(Bulk)
  PROVE  handler[Bulk] = "none" /\ handler'[Bulk] \in {"waiting", "serving"}
  BY RequestNames DEF SlotsInductive, SlotsTypeOK, Acquire

LEMMA BulkIsRefused ==
  ASSUME SlotsInductive, Refuse(Bulk)
  PROVE  handler[Bulk] = "waiting" /\ handler'[Bulk] = "busy"
  BY RequestNames DEF SlotsInductive, SlotsTypeOK, Refuse

LEMMA HeadWaits ==
  ASSUME SlotsInductive, blocked # <<>>
  PROVE  Head(blocked) \in Requests /\ handler[Head(blocked)] = "waiting"
<1>1. 1 \in DOMAIN blocked /\ Head(blocked) = blocked[1]
  BY DEF SlotsInductive, SlotsTypeOK
<1>2. blocked[1] \in Waiting
  BY <1>1 DEF SlotsInductive, Queue
<1> QED
  BY <1>1, <1>2 DEF Waiting

LEMMA BulkReleases ==
  ASSUME SlotsInductive, Release(Bulk)
  PROVE  handler[Bulk] = "serving" /\ handler'[Bulk] = "over"
<1>1. handler[Bulk] = "serving"
  BY DEF Release
<1>2. CASE blocked = <<>>
  BY <1>1, <1>2, RequestNames DEF SlotsInductive, SlotsTypeOK, Release
<1>3. CASE blocked # <<>>
  BY <1>1, <1>3, HeadWaits, RequestNames DEF SlotsInductive, SlotsTypeOK, Release
<1> QED
  BY <1>1, <1>2, <1>3

LEMMA OthersAndBulk ==
  ASSUME SlotsInductive, NEW q \in Requests \ {Bulk},
         Acquire(q) \/ Refuse(q) \/ Release(q)
  PROVE  \/ handler'[Bulk] = handler[Bulk]
         \/ handler[Bulk] = "waiting" /\ handler'[Bulk] = "serving"
<1> USE RequestNames DEF SlotsInductive, SlotsTypeOK
<1>1. CASE Acquire(q)
  BY <1>1 DEF Acquire
<1>2. CASE Refuse(q)
  BY <1>2 DEF Refuse
<1>3. CASE Release(q) /\ blocked = <<>>
  BY <1>3 DEF Release
<1>4. CASE Release(q) /\ blocked # <<>>
  BY <1>4, HeadWaits DEF Release
<1> QED
  BY <1>1, <1>2, <1>3, <1>4

LEMMA SlotCases ==
  ASSUME CountTypes, RunStates, [Next]_vars
  PROVE  \/ UNCHANGED slotVars
         \/ /\ Elsewhere
            /\ \E q \in Requests \ {Bulk} : Acquire(q) \/ Refuse(q) \/ Release(q)
         \/ AskSlot \/ RefuseArchive \/ Return \/ CopyFails
<1>1. CASE ScanTree \/ SkipEntry \/ OpenFails \/ OpenEntry \/ CopyBlock \/ EndEntry
  BY <1>1 DEF Streaming, Handling, ScanTree, SkipEntry, OpenFails, OpenEntry, CopyBlock,
              EndEntry, Writing
<1>2. CASE OpenArchive \/ Answered \/ AnsweredBusy \/ ArchiveBreaks
  BY <1>2 DEF OpenArchive, Answered, AnsweredBusy, ArchiveBreaks, ToPool
<1>3. CASE ReadHeader \/ ReadBlock \/ ReadEnd \/ DiskFails \/ EndMember
  BY <1>3 DEF ReadHeader, ReadBlock, ReadEnd, DiskFails, EndMember, Received, ToPool
<1>4. CASE \E f \in Files : Remove(f) \/ \E c \in Contents : Rewrite(f, c)
  BY <1>4 DEF Remove, Rewrite, Edited
<1>5. CASE EndPool \/ UNCHANGED vars
  BY <1>5 DEF EndPool, vars
<1> USE DEF Elsewhere, treeVars, agentVars, clientVars
<1>6. CASE Others
  <2>1. \A q \in Deserted \cup (Rivals \X {1}) : q \in Requests \ {Bulk}
    BY RequestNames DEF Deserted
  <2> QED
    BY <1>6, <2>1 DEF Others
<1>7. CASE \E r \in Rivals : RivalAsks(r) \/ RivalReads(r)
  BY <1>7, RequestNames DEF RivalAsks, RivalReads
<1>8. ASSUME NEW f \in Files, Fetch(f)
      PROVE  Elsewhere /\ \E q \in Requests \ {Bulk} : Acquire(q)
  <2>1. tries[f] + 1 \in 1 .. Attempts
    BY <1>8, Numbers DEF Fetch, CountTypes
  <2>2. Elsewhere /\ Acquire(<<f, tries[f] + 1>>)
    BY <1>8 DEF Fetch
  <2> QED
    BY <2>1, <2>2, RequestNames
<1>9. ASSUME NEW f \in Files, Arrives(f) \/ Misfits(f) \/ Denied(f)
      PROVE  Elsewhere /\ \E q \in Requests \ {Bulk} : Release(q)
  <2>1. pool[f] = "asked" /\ Release(<<f, tries[f]>>) /\ Elsewhere
    BY <1>9 DEF Arrives, Misfits, Denied, Served, Req
  <2>2. tries[f] \in 1 .. Attempts
    BY <2>1, Numbers DEF CountTypes, RunStates
  <2> QED
    BY <2>1, <2>2, RequestNames
<1>10. ASSUME NEW f \in Files, Refused(f) \/ AttemptBreaks(f)
       PROVE  UNCHANGED slotVars
  BY <1>10 DEF Refused, AttemptBreaks
<1> QED
  BY StepCases, <1>1, <1>2, <1>3, <1>4, <1>5, <1>6, <1>7, <1>8, <1>9, <1>10

LEMMA SlotsStep ==
  ASSUME SlotsInductive, CountTypes, RunStates, [Next]_vars
  PROVE  SlotsInductive'
<1>1. CASE UNCHANGED slotVars
  BY <1>1 DEF slotVars, SlotsInductive, SlotsTypeOK, Serving, Waiting, Queue, BlockedOnce
<1>2. CASE \E q \in Requests \ {Bulk} : Acquire(q) \/ Refuse(q) \/ Release(q)
  BY <1>2, AcquireKeeps, RefuseKeeps, ReleaseKeeps
<1>3. CASE AskSlot \/ RefuseArchive \/ Return \/ CopyFails
  BY <1>3, RequestNames, AcquireKeeps, RefuseKeeps, ReleaseKeeps
     DEF AskSlot, RefuseArchive, Return, CopyFails, Returned
<1> QED
  BY <1>1, <1>2, <1>3, SlotCases

\* The archive's handler asks, is refused and returns by steps of its own.
LEMMA BulkNext ==
  ASSUME SlotsInductive, CountTypes, RunStates, [Next]_vars
  PROVE  \/ handler'[Bulk] = handler[Bulk]
         \/ handler[Bulk] = "waiting" /\ handler'[Bulk] = "serving" /\ Elsewhere
         \/ /\ AskSlot /\ handler[Bulk] = "none" /\ handler'[Bulk] \in {"waiting", "serving"}
         \/ RefuseArchive /\ handler[Bulk] = "waiting" /\ handler'[Bulk] = "busy"
         \/ (Return \/ CopyFails) /\ handler[Bulk] = "serving" /\ handler'[Bulk] = "over"
<1>1. CASE UNCHANGED slotVars
  BY <1>1 DEF slotVars
<1>2. CASE /\ Elsewhere
           /\ \E q \in Requests \ {Bulk} : Acquire(q) \/ Refuse(q) \/ Release(q)
  BY <1>2, OthersAndBulk
<1>3. CASE AskSlot
  BY <1>3, BulkAcquires DEF AskSlot
<1>4. CASE RefuseArchive
  BY <1>4, BulkIsRefused DEF RefuseArchive
<1>5. CASE Return \/ CopyFails
  BY <1>5, BulkReleases DEF Return, CopyFails, Returned
<1> QED
  BY <1>1, <1>2, <1>3, <1>4, <1>5, SlotCases

\* A step that is none of the tree, the handler's stream or the client's end of it.
LEMMA StreamSteps ==
  ASSUME [Next]_vars
  PROVE  \/ Elsewhere
         \/ ScanTree \/ SkipEntry \/ OpenFails \/ OpenEntry \/ CopyBlock \/ EndEntry \/ Return
             \/ CopyFails
         \/ OpenArchive \/ Answered \/ AnsweredBusy \/ ArchiveBreaks
         \/ ReadHeader \/ ReadBlock \/ ReadEnd \/ DiskFails \/ EndMember
         \/ \E f \in Files : Remove(f) \/ \E c \in Contents : Rewrite(f, c)
<1> USE DEF Elsewhere, treeVars, agentVars, clientVars
<1>1. CASE AskSlot \/ RefuseArchive \/ Others \/ EndPool \/ UNCHANGED vars
  BY <1>1 DEF AskSlot, RefuseArchive, Others, EndPool, vars
<1>2. CASE \E r \in Rivals : RivalAsks(r) \/ RivalReads(r)
  BY <1>2 DEF RivalAsks, RivalReads
<1>3. ASSUME NEW f \in Files, Fetch(f) \/ Arrives(f) \/ Misfits(f) \/ Denied(f)
      PROVE  Elsewhere
  BY <1>3 DEF Fetch, Arrives, Misfits, Denied, Served
<1>4. ASSUME NEW f \in Files, Refused(f) \/ AttemptBreaks(f)
      PROVE  Elsewhere
  BY <1>4 DEF Refused, AttemptBreaks
<1> QED
  BY StepCases, <1>1, <1>2, <1>3, <1>4

\* Steps of the archive's handler leave the run as it is.
LEMMA HandlerFrame ==
  ASSUME ScanTree \/ SkipEntry \/ OpenFails \/ OpenEntry \/ CopyBlock \/ EndEntry \/ Return
        \/ CopyFails
  PROVE  /\ UNCHANGED <<treeVars, conn, clientVars, poolVars>>
         /\ trouble \in BOOLEAN /\ faults \in 0 .. MaxFaults =>
              trouble' \in BOOLEAN /\ faults' \in 0 .. MaxFaults
         /\ trouble => trouble'
<1>1. CASE ScanTree \/ SkipEntry \/ OpenEntry \/ CopyBlock \/ EndEntry \/ Return
  <2>1. UNCHANGED <<treeVars, conn, clientVars, poolVars, faults, trouble>>
    BY <1>1 DEF ScanTree, SkipEntry, OpenEntry, CopyBlock, EndEntry, Return, Writing, Streaming,
                Handling
  <2> QED
    BY <2>1, Zenon
<1>2. CASE OpenFails \/ CopyFails
  <2>1. UNCHANGED <<treeVars, conn, clientVars, poolVars>>
    BY <1>2 DEF OpenFails, CopyFails, Handling
  <2>2. faults \in 0 .. MaxFaults => faults' \in 0 .. MaxFaults
    BY <1>2, Numbers DEF OpenFails, CopyFails, Fails
  <2>3. trouble' = TRUE \/ UNCHANGED trouble
    BY <1>2, Zenon DEF OpenFails, CopyFails
  <2>4. trouble => trouble'
    BY <2>3, Zenon
  <2>5. trouble \in BOOLEAN => trouble' \in BOOLEAN
    BY <2>3
  <2> QED
    BY <2>1, <2>2, <2>4, <2>5, Zenon
<1> QED
  BY <1>1, <1>2, Zenon

LEMMA CountTypesStep ==
  ASSUME CountTypes, [Next]_vars
  PROVE  CountTypes'
<1> USE DEF CountTypes, treeVars, clientVars, poolVars
<1>1. CASE ScanTree \/ SkipEntry \/ OpenFails \/ OpenEntry \/ CopyBlock \/ EndEntry \/ Return
      \/ CopyFails
  <2>1. UNCHANGED <<phase, conn, pool, tries, edits>>
    BY <1>1, HandlerFrame
  <2>2. trouble' \in BOOLEAN /\ faults' \in 0 .. MaxFaults
    BY <1>1, HandlerFrame, Zenon
  <2> QED
    BY <2>1, <2>2, Zenon
<1>2. CASE OpenArchive \/ Answered
  BY <1>2 DEF OpenArchive, Answered
<1>3. CASE ReadHeader \/ ReadBlock \/ EndMember
  BY <1>3 DEF ReadHeader, ReadBlock, EndMember, Received
<1>9. CASE AnsweredBusy \/ ReadEnd
  BY <1>9 DEF AnsweredBusy, ReadEnd, ToPool
<1>10. CASE ArchiveBreaks
  BY <1>10, Numbers DEF ArchiveBreaks, Fails, ToPool
<1>11. CASE DiskFails
  BY <1>11, Numbers DEF DiskFails, Fails
<1>4. CASE \E f \in Files : Remove(f) \/ \E c \in Contents : Rewrite(f, c)
  BY <1>4, Numbers DEF Remove, Rewrite, Edited
<1>5. CASE AskSlot \/ RefuseArchive \/ Others \/ EndPool \/ UNCHANGED vars
  BY <1>5 DEF AskSlot, RefuseArchive, Others, EndPool, vars
<1>6. CASE \E r \in Rivals : RivalAsks(r) \/ RivalReads(r)
  BY <1>6 DEF RivalAsks, RivalReads
<1>7. ASSUME NEW f \in Files, Fetch(f)
      PROVE  CountTypes'
  <2>1. /\ tries' = [tries EXCEPT ![f] = tries[f] + 1]
        /\ tries[f] \in 0 .. Attempts /\ tries[f] < Attempts
        /\ pool' = [pool EXCEPT ![f] = "asked"]
        /\ UNCHANGED <<phase, conn, edits, faults, trouble>>
    BY <1>7 DEF Fetch
  <2>2. tries[f] + 1 \in 0 .. Attempts
    BY <2>1, Numbers
  <2> QED
    BY <2>1, <2>2
<1>8. ASSUME NEW f \in Files, Arrives(f) \/ Misfits(f) \/ Denied(f) \/ Refused(f)
      \/ AttemptBreaks(f)
      PROVE  CountTypes'
  <2>1. UNCHANGED <<phase, conn, edits, tries>>
    BY <1>8 DEF Arrives, Misfits, Denied, Served, Refused, AttemptBreaks
  <2>3. ASSUME AttemptFails(f)
        PROVE  pool' \in [Files -> {"idle", "asked", "retry", "ok", "failed"}]
    BY <2>3 DEF AttemptFails
  <2>4. pool' \in [Files -> {"idle", "asked", "retry", "ok", "failed"}]
    <3>1. CASE Arrives(f)
      BY <3>1 DEF Arrives
    <3>2. CASE Misfits(f)
      <4>1. AttemptFails(f) \/ pool' = [pool EXCEPT ![f] = "failed"]
        BY <3>2 DEF Misfits
      <4> QED
        BY <4>1, <2>3
    <3>3. CASE Denied(f)
      BY <3>3 DEF Denied
    <3> QED
      BY <1>8, <2>3, <3>1, <3>2, <3>3 DEF Refused, AttemptBreaks
  <2>2. faults' \in 0 .. MaxFaults /\ trouble' \in BOOLEAN
    <3>1. CASE Arrives(f) \/ Misfits(f)
      BY <3>1 DEF Arrives, Misfits, Served
    <3>2. CASE Refused(f)
      BY <3>2 DEF Refused
    <3>3. CASE Denied(f) \/ AttemptBreaks(f)
      <4>1. faults' \in 0 .. MaxFaults
        BY <3>3, Numbers DEF Denied, AttemptBreaks, Fails
      <4>2. trouble' = TRUE
        BY <3>3, Zenon DEF Denied, AttemptBreaks
      <4> QED
        BY <4>1, <4>2
    <3> QED
      BY <1>8, <3>1, <3>2, <3>3
  <2> QED
    BY <2>1, <2>2, <2>4
<1> QED
  BY StepCases, <1>1, <1>2, <1>3, <1>4, <1>5, <1>6, <1>7, <1>8, <1>9, <1>10, <1>11

LEMMA RunStatesStep ==
  ASSUME CountTypes, StreamTypes, BulkStates, RunStates, [Next]_vars
  PROVE  RunStates'
<1> USE DEF RunStates, clientVars, poolVars
<1>1. CASE ScanTree \/ SkipEntry \/ OpenFails \/ OpenEntry \/ CopyBlock \/ EndEntry \/ Return
      \/ CopyFails
  <2>1. UNCHANGED <<phase, conn, member, local, row, pool, tries, plan>>
    BY <1>1, HandlerFrame
  <2>2. conn = "closed" => wire' = <<>>
    BY <1>1 DEF ScanTree, SkipEntry, OpenFails, OpenEntry, CopyBlock, EndEntry, Return,
                CopyFails, Returned, Writing, ClientGone
  <2> QED
    BY <2>1, <2>2
<1>2. CASE OpenArchive \/ Answered
  BY <1>2 DEF OpenArchive, Answered
<1>3. CASE ReadHeader \/ ReadBlock
  BY <1>3 DEF ReadHeader, ReadBlock, Received, Reading
<1>4. CASE EndMember
  <2>1. member # Idle
    BY <1>4 DEF EndMember, Idle
  <2>2. phase # "start" /\ conn # "closed"
    BY <2>1 DEF BulkStates
  <2> QED
    BY <1>4, <2>2 DEF EndMember
<1>5. CASE AnsweredBusy \/ ReadEnd \/ ArchiveBreaks
  <2>1. conn \in {"asked", "body"} /\ ToPool
    BY <1>5 DEF AnsweredBusy, ReadEnd, Reading, ArchiveBreaks
  <2> QED
    BY <2>1 DEF ToPool
<1>6. CASE DiskFails
  <2>1. member # Idle
    BY <1>6 DEF DiskFails, Idle
  <2> QED
    BY <1>6, <2>1 DEF DiskFails
<1>7. CASE \E f \in Files : Remove(f) \/ \E c \in Contents : Rewrite(f, c)
  BY <1>7 DEF Remove, Rewrite, Edited
<1>8. CASE AskSlot \/ RefuseArchive \/ Others \/ EndPool \/ UNCHANGED vars
  BY <1>8 DEF AskSlot, RefuseArchive, Others, EndPool, vars
<1>9. CASE \E r \in Rivals : RivalAsks(r) \/ RivalReads(r)
  BY <1>9 DEF RivalAsks, RivalReads
<1>10. ASSUME NEW f \in Files, Fetch(f)
       PROVE  RunStates'
  <2>1. /\ tries' = [tries EXCEPT ![f] = tries[f] + 1]
        /\ pool' = [pool EXCEPT ![f] = "asked"]
        /\ phase = "pool" /\ f \in DOMAIN plan
        /\ UNCHANGED <<phase, conn, member, wire, local, row, plan>>
    BY <1>10 DEF Fetch, Left
  <2>2. tries[f] \in Nat
    BY Numbers DEF CountTypes
  <2> QED
    BY <2>1, <2>2 DEF CountTypes
<1>11. ASSUME NEW f \in Files, Arrives(f) \/ Misfits(f) \/ Denied(f) \/ Refused(f)
      \/ AttemptBreaks(f)
       PROVE  RunStates'
  <2>1. pool[f] = "asked" /\ UNCHANGED <<phase, conn, member, wire, plan, tries>>
    BY <1>11 DEF Arrives, Misfits, Denied, Served, Refused, AttemptBreaks
  <2>2. ASSUME AttemptFails(f)
        PROVE  \E s \in {"ok", "retry", "failed"} : pool' = [pool EXCEPT ![f] = s]
    BY <2>2 DEF AttemptFails
  <2>3. CASE Arrives(f)
    BY <2>1, <2>3 DEF Arrives, CountTypes
  <2>4. CASE Misfits(f)
    <3>1. AttemptFails(f) \/ pool' = [pool EXCEPT ![f] = "failed"]
      BY <2>4 DEF Misfits
    <3> QED
      BY <2>1, <2>2, <3>1 DEF CountTypes
  <2>5. CASE Denied(f)
    BY <2>1, <2>5 DEF Denied, CountTypes
  <2> QED
    BY <1>11, <2>1, <2>2, <2>3, <2>4, <2>5 DEF Refused, AttemptBreaks, CountTypes
<1> QED
  BY StepCases, <1>1, <1>2, <1>3, <1>4, <1>5, <1>6, <1>7, <1>8, <1>9, <1>10, <1>11

LEMMA TroubleStays ==
  ASSUME CountTypes, trouble, [Next]_vars
  PROVE  trouble'
<1>1. CASE ScanTree \/ SkipEntry \/ OpenFails \/ OpenEntry \/ CopyBlock \/ EndEntry \/ Return
      \/ CopyFails
  BY <1>1, HandlerFrame, Zenon
<1>2. CASE OpenArchive \/ Answered
  BY <1>2, Zenon DEF OpenArchive, Answered
<1>3. CASE AnsweredBusy \/ ArchiveBreaks \/ ReadEnd
  BY <1>3, Zenon DEF AnsweredBusy, ArchiveBreaks, ReadEnd
<1>4. CASE ReadHeader \/ ReadBlock \/ DiskFails \/ EndMember
  BY <1>4, Zenon DEF ReadHeader, ReadBlock, DiskFails, EndMember, Received
<1>5. CASE \E f \in Files : Remove(f) \/ \E c \in Contents : Rewrite(f, c)
  BY <1>5, Zenon DEF Remove, Rewrite, Edited
<1>6. CASE AskSlot \/ RefuseArchive \/ Others \/ EndPool \/ UNCHANGED vars
  BY <1>6, Zenon DEF AskSlot, RefuseArchive, Others, EndPool, vars
<1>7. CASE \E r \in Rivals : RivalAsks(r) \/ RivalReads(r)
  BY <1>7, Zenon DEF RivalAsks, RivalReads
<1>8. ASSUME NEW f \in Files,
             Fetch(f) \/ Arrives(f) \/ Misfits(f) \/ Denied(f) \/ Refused(f) \/ AttemptBreaks(f)
      PROVE  trouble'
  BY <1>8, Zenon DEF Fetch, Arrives, Misfits, Denied, Served, Refused, AttemptBreaks
<1> QED
  BY StepCases, <1>1, <1>2, <1>3, <1>4, <1>5, <1>6, <1>7, <1>8, Zenon

LEMMA BulkStatesStep ==
  ASSUME SlotsInductive, CountTypes, StreamTypes, BulkStates, RunStates, [Next]_vars
  PROVE  BulkStates'
<1> USE Numbers
<1>1. CASE handler'[Bulk] = handler[Bulk] /\ Elsewhere
  BY <1>1, TroubleStays DEF BulkStates, Elsewhere
<1>2. CASE handler[Bulk] = "waiting" /\ handler'[Bulk] = "serving" /\ Elsewhere
  BY <1>2 DEF BulkStates, Elsewhere
<1>3. CASE AskSlot /\ handler[Bulk] = "none" /\ handler'[Bulk] \in {"waiting", "serving"}
  BY <1>3 DEF AskSlot, BulkStates, agentVars, clientVars
<1>4. CASE RefuseArchive /\ handler[Bulk] = "waiting" /\ handler'[Bulk] = "busy"
  BY <1>4 DEF RefuseArchive, BulkStates, agentVars, clientVars
<1>5. CASE (Return \/ CopyFails) /\ handler[Bulk] = "serving" /\ handler'[Bulk] = "over"
  <2>1. /\ UNCHANGED <<scan, conn, member>>
        /\ tar' = [tar EXCEPT !.open = NoFile]
        /\ wire' = <<>> \/ wire' = Append(wire, [kind |-> "end"])
    BY <1>5 DEF Return, CopyFails, Returned, Streaming, Handling, clientVars
  <2>2. Len(wire') <= Buffer + 1
    BY <2>1, <1>5 DEF BulkStates, StreamTypes
  <2> QED
    BY <2>1, <2>2, <1>5 DEF BulkStates, StreamTypes
<1>6. CASE handler'[Bulk] = handler[Bulk]
  <2>1. CASE ScanTree
    <3>1. scan = NoFile /\ UNCHANGED <<tar, wire, member, trouble>>
      BY <2>1 DEF ScanTree, clientVars
    <3> QED
      BY <3>1, <1>6 DEF BulkStates
  <2>2. CASE SkipEntry \/ OpenFails \/ EndEntry
    <3>1. /\ handler[Bulk] = "serving" /\ UNCHANGED <<scan, conn, member, trouble, wire>>
          /\ tar'.open # NoFile => tar.open # NoFile
      BY <2>2 DEF SkipEntry, OpenFails, EndEntry, Streaming, Handling, clientVars, StreamTypes
    <3> QED
      BY <3>1, <1>6 DEF BulkStates
  <2>3. CASE OpenEntry \/ CopyBlock
    <3>1. /\ handler[Bulk] = "serving" /\ UNCHANGED <<scan, conn, member, trouble>>
          /\ Len(wire) < Buffer /\ \E x : wire' = Append(wire, x)
      BY <2>3 DEF OpenEntry, CopyBlock, Writing, Streaming, Handling, clientVars
    <3>2. Len(wire') = Len(wire) + 1 /\ Len(wire) \in Nat
      BY <3>1 DEF StreamTypes
    <3> QED
      BY <3>1, <3>2, <1>6 DEF BulkStates
  <2>4. CASE OpenArchive \/ Answered
    BY <2>4, <1>6 DEF OpenArchive, Answered, BulkStates, agentVars, clientVars
  <2>5. CASE AnsweredBusy \/ ArchiveBreaks \/ ReadEnd
    <3>1. ToPool
      BY <2>5 DEF AnsweredBusy, ArchiveBreaks, ReadEnd
    <3>2. trouble => trouble'
      BY TroubleStays
    <3> QED
      BY <3>1, <3>2, <1>6 DEF ToPool, BulkStates, agentVars
  <2>6. CASE ReadHeader \/ ReadBlock
    <3>1. /\ wire # <<>> /\ wire' = Tail(wire)
          /\ UNCHANGED <<scan, tar, conn, trouble>>
      BY <2>6 DEF ReadHeader, ReadBlock, Reading, Received, agentVars
    <3>2. Len(wire') = Len(wire) - 1 /\ Len(wire) \in Nat
      BY <3>1 DEF StreamTypes
    <3> QED
      BY <3>1, <3>2, <1>6 DEF BulkStates
  <2>7. CASE DiskFails \/ EndMember
    <3>1. member # Idle /\ UNCHANGED <<scan, tar, conn, wire>>
      BY <2>7 DEF DiskFails, EndMember, Idle, agentVars
    <3>2. trouble => trouble'
      BY TroubleStays
    <3> QED
      BY <3>1, <3>2, <1>6 DEF BulkStates
  <2>8. CASE \E f \in Files : Remove(f) \/ \E c \in Contents : Rewrite(f, c)
    <3>1. UNCHANGED <<scan, conn, wire, member, trouble>>
      BY <2>8 DEF Remove, Rewrite, Edited, clientVars
    <3>2. tar'.next = tar.next /\ tar'.owed = tar.owed /\ tar'.open = tar.open
      BY <2>8 DEF Remove, Rewrite, StreamTypes
    <3> QED
      BY <3>1, <3>2, <1>6 DEF BulkStates
  <2>9. CASE Return \/ CopyFails
    BY <2>9, <1>6, BulkReleases DEF Return, CopyFails, Returned
  <2> QED
    BY StreamSteps, <1>1, <1>6, <2>1, <2>2, <2>3, <2>4, <2>5, <2>6, <2>7, <2>8, <2>9
<1> QED
  BY BulkNext, <1>2, <1>3, <1>4, <1>5, <1>6

LEMMA PartialIs ==
  ASSUME NEW g, NEW S
  PROVE  Partial(g, S) <=> DOMAIN g \subseteq Files /\ \A f \in DOMAIN g : g[f] \in S
  BY DEF Partial, Range

LEMMA InstallTypes ==
  ASSUME DataTypes, NEW f \in DOMAIN plan, NEW c \in Seq(Nat), Install(f, c)
  PROVE  Partial(local, Seq(Nat))' /\ Partial(row, Seq(Nat))'
<1>1. /\ DOMAIN plan \subseteq Files /\ plan[f] \in Contents
      /\ DOMAIN local \subseteq Files /\ \A g \in DOMAIN local : local[g] \in Seq(Nat)
      /\ DOMAIN row \subseteq Files /\ \A g \in DOMAIN row : row[g] \in Seq(Nat)
  BY PartialIs DEF DataTypes
<1>2. plan[f] \in Seq(Nat) /\ f \in Files
  BY <1>1, ArchiveAssumption
<1>3. DOMAIN local' \subseteq Files /\ \A g \in DOMAIN local' : local'[g] \in Seq(Nat)
  BY <1>1, <1>2 DEF Install
<1>4. DOMAIN row' \subseteq Files /\ \A g \in DOMAIN row' : row'[g] \in Seq(Nat)
  BY <1>1, <1>2 DEF Install
<1> QED
  BY <1>3, <1>4, PartialIs

LEMMA DataTypesStep ==
  ASSUME DataTypes, CountTypes, StreamTypes, RunStates, KeptIsWanted, [Next]_vars
  PROVE  DataTypes'
<1> USE DEF DataTypes, treeVars, agentVars, clientVars
<1>1. CASE ScanTree
  <2>1. Partial(scan', {Len(c) : c \in Contents})
    <3>1. scan' = [f \in DOMAIN tree |-> Len(tree[f])]
      BY <1>1 DEF ScanTree
    <3> QED
      BY <3>1, PartialIs
  <2> QED
    BY <1>1, <2>1 DEF ScanTree, Partial
<1>2. CASE SkipEntry \/ OpenFails \/ OpenEntry \/ CopyBlock \/ EndEntry \/ Return \/ CopyFails
  <2>1. UNCHANGED <<tree, scan, plan, local, row, digests>>
    BY <1>2, HandlerFrame
       DEF SkipEntry, OpenFails, OpenEntry, CopyBlock, EndEntry, Return, CopyFails, Returned,
           Writing, Streaming, Handling
  <2> QED
    BY <2>1 DEF Partial
<1>3. CASE OpenArchive
  <2>1. PICK want \in SUBSET DOMAIN tree : plan' = Restrict(tree, want)
    BY <1>3 DEF OpenArchive
  <2>2. UNCHANGED <<tree, scan, local, row>> /\ digests' \subseteq DOMAIN plan'
    BY <1>3 DEF OpenArchive
  <2>3. Partial(plan', Contents)
    BY <2>1, PartialIs DEF Restrict
  <2> QED
    BY <2>2, <2>3 DEF Partial
<1>4. CASE Answered \/ AnsweredBusy \/ ArchiveBreaks \/ ReadHeader \/ ReadBlock \/ ReadEnd
  <2>1. UNCHANGED <<tree, scan, plan, local, row, digests>>
    BY <1>4 DEF Answered, AnsweredBusy, ArchiveBreaks, ReadHeader, ReadBlock, ReadEnd,
                Received, ToPool
  <2> QED
    BY <2>1 DEF Partial
<1>5. CASE EndMember
  <2>1. UNCHANGED <<tree, scan, plan, digests>>
    BY <1>5 DEF EndMember
  <2>2. Partial(local, Seq(Nat))' /\ Partial(row, Seq(Nat))'
    <3>1. CASE UNCHANGED <<local, row>>
      BY <3>1 DEF Partial
    <3>2. CASE member.keep /\ Install(member.file, member.got)
      BY <3>2, InstallTypes DEF KeptIsWanted, StreamTypes
    <3> QED
      BY <1>5, <3>1, <3>2 DEF EndMember
  <2> QED
    BY <2>1, <2>2 DEF Partial
<1>6. ASSUME NEW f \in Files, Remove(f) \/ \E c \in Contents : Rewrite(f, c)
      PROVE  DataTypes'
  <2>1. UNCHANGED <<scan, plan, local, row, digests>>
    BY <1>6 DEF Remove, Rewrite, Edited
  <2>2. Partial(tree', Contents)
    <3>1. CASE Remove(f)
      BY <3>1, PartialIs DEF Remove, Restrict
    <3>2. ASSUME NEW c \in Contents, Rewrite(f, c)
          PROVE  Partial(tree', Contents)
      BY <3>2, PartialIs DEF Rewrite
    <3> QED
      BY <1>6, <3>1, <3>2
  <2> QED
    BY <2>1, <2>2 DEF Partial
<1>7. CASE DiskFails \/ AskSlot \/ RefuseArchive \/ Others \/ EndPool \/ UNCHANGED vars
  <2>1. UNCHANGED <<tree, scan, plan, local, row, digests>>
    BY <1>7 DEF DiskFails, AskSlot, RefuseArchive, Others, EndPool, vars
  <2> QED
    BY <2>1 DEF Partial
<1>8. CASE \E r \in Rivals : RivalAsks(r) \/ RivalReads(r)
  <2>1. UNCHANGED <<tree, scan, plan, local, row, digests>>
    BY <1>8 DEF RivalAsks, RivalReads
  <2> QED
    BY <2>1 DEF Partial
<1>9. ASSUME NEW f \in Files, Arrives(f)
      PROVE  DataTypes'
  <2>1. /\ UNCHANGED <<tree, scan, plan, digests>>
        /\ pool[f] = "asked" /\ f \in DOMAIN tree /\ Install(f, tree[f])
    BY <1>9 DEF Arrives, Served
  <2>2. f \in DOMAIN plan /\ tree[f] \in Seq(Nat)
    BY <2>1, PartialIs, ArchiveAssumption DEF RunStates
  <2>3. Partial(local, Seq(Nat))' /\ Partial(row, Seq(Nat))'
    BY <2>1, <2>2, InstallTypes
  <2> QED
    BY <2>1, <2>3 DEF Partial
<1>10. ASSUME NEW f \in Files, Fetch(f) \/ Misfits(f) \/ Denied(f) \/ Refused(f) \/ AttemptBreaks(f)
       PROVE  DataTypes'
  <2>1. UNCHANGED <<tree, scan, plan, local, row, digests>>
    BY <1>10 DEF Fetch, Misfits, Denied, Served, Refused, AttemptBreaks
  <2> QED
    BY <2>1 DEF Partial
<1> QED
  BY StepCases, <1>1, <1>2, <1>3, <1>4, <1>5, <1>6, <1>7, <1>8, <1>9, <1>10

LEMMA OrderIs ==
  /\ Order \in Seq(Files) /\ Len(Order) \in Nat
  /\ \A i \in 1 .. Len(Order) : Order[i] \in Files
  /\ \A f \in Files : \E i \in 1 .. Len(Order) : f = Order[i]
<1>1. Order \in Seq(Files)
  BY ArchiveAssumption
<1>2. \A f \in Files : \E i \in DOMAIN Order : f = Order[i]
  BY DEF Files
<1> HIDE DEF Files
<1> QED
  BY <1>1, <1>2

\* The first item on the way, when the client reads it.
LEMMA HeadAndTail ==
  ASSUME StreamTypes, wire # <<>>, wire' = Tail(wire)
  PROVE  /\ wire' \in Seq(Item) /\ Len(wire) \in Nat /\ Len(wire') = Len(wire) - 1
         /\ Len(wire) >= 1 /\ Head(wire) = wire[1] /\ wire[1] \in Item
         /\ \A i \in 1 .. Len(wire') : wire'[i] = wire[i + 1]
  BY DEF StreamTypes

LEMMA OneMore ==
  ASSUME StreamTypes, NEW x \in Item, wire' = Append(wire, x)
  PROVE  /\ wire' \in Seq(Item) /\ Len(wire) \in Nat /\ Len(wire') = Len(wire) + 1
         /\ wire'[Len(wire) + 1] = x
         /\ \A i \in 1 .. Len(wire) : wire'[i] = wire[i]
  BY DEF StreamTypes

LEMMA BlockIsDue ==
  ASSUME StreamTypes, StreamTells, wire # <<>>, Head(wire).kind = "block"
  PROVE  /\ member.need >= 1 /\ Head(wire).data \in Nat
         /\ Tells(member.file, Len(member.got) + 1, Head(wire).data)
<1>1. Len(wire) \in Nat /\ Len(wire) >= 1 /\ Head(wire) = wire[1] /\ wire[1] \in Item
  BY DEF StreamTypes
<1>2. Begins(0) /\ Blocks(0, 1)
  BY <1>1 DEF Begins, Blocks
<1>3. 1 - 0 <= Due(0) /\ Tells(Of(0), Had(0) + (1 - 0), wire[1].data)
  BY <1>1, <1>2 DEF StreamTells
<1> QED
  BY <1>1, <1>3 DEF Of, Had, Due, Item

LEMMA StreamTypesStep ==
  ASSUME SlotsInductive, DataTypes, CountTypes, StreamTypes, BulkStates, TarPlace, RunStates,
         StreamTells, [Next]_vars
  PROVE  StreamTypes'
<1> DEFINE Tars == [next : 1 .. Len(Order) + 1, open : Files \cup {NoFile},
                    data : Seq(Nat), at : Nat, owed : Nat]
           Members == [file : Files \cup {NoFile}, need : Nat, got : Seq(Nat), keep : BOOLEAN]
<1>0. tar \in Tars /\ member \in Members /\ wire \in Seq(Item)
  BY DEF StreamTypes
<1>1. CASE UNCHANGED <<tar, member, wire>>
  BY <1>1, <1>0 DEF StreamTypes
<1>2. CASE SkipEntry \/ OpenFails \/ EndEntry
  <2>1. UNCHANGED <<member, wire>>
    BY <1>2 DEF SkipEntry, OpenFails, EndEntry, Streaming, Handling, clientVars
  <2>2. tar.next <= Len(Order)
    BY <1>2 DEF SkipEntry, OpenFails, EndEntry, Closed, TarPlace
  <2>3. \/ tar' = [tar EXCEPT !.next = tar.next + 1]
        \/ tar' = [[tar EXCEPT !.open = NoFile] EXCEPT !.next = tar.next + 1]
    BY <1>2 DEF SkipEntry, OpenFails, EndEntry
  <2>4. tar.next + 1 \in 1 .. Len(Order) + 1
    <3>1. tar.next \in 1 .. Len(Order) + 1
      BY <1>0
    <3>2. Len(Order) \in Nat
      BY OrderIs
    <3> QED
      BY <2>2, <3>1, <3>2
  <2>5. tar' \in Tars
    BY <2>3, <2>4, <1>0
  <2> QED
    BY <2>1, <2>5, <1>0 DEF StreamTypes
<1>3. CASE OpenEntry
  <2>1. /\ UNCHANGED member /\ handler[Bulk] = "serving"
        /\ tar.next <= Len(Order) /\ Entry \in DOMAIN scan /\ Entry \in DOMAIN tree
        /\ wire' = Append(wire, [kind |-> "header", file |-> Entry, size |-> scan[Entry]])
        /\ tar' = [tar EXCEPT !.open = Entry, !.data = tree[Entry], !.at = 0, !.owed = scan[Entry]]
    BY <1>3 DEF OpenEntry, Writing, Streaming, Handling, clientVars
  <2>2. Partial(scan, {Len(c) : c \in Contents})
    BY <2>1 DEF BulkStates, DataTypes
  <2>3. scan[Entry] \in Nat /\ tree[Entry] \in Seq(Nat) /\ Entry \in Files
    <3>1. \A c \in Contents : Len(c) \in Nat
      BY ArchiveAssumption
    <3> QED
      BY <2>1, <2>2, <3>1, PartialIs, ArchiveAssumption DEF DataTypes
  <2> HIDE DEF Entry
  <2>4. [kind |-> "header", file |-> Entry, size |-> scan[Entry]] \in Item
    BY <2>3 DEF Item
  <2>5. wire' \in Seq(Item)
    BY <2>1, <2>4, OneMore
  <2>6. tar' \in Tars
    BY <2>1, <2>3, <1>0
  <2> QED
    BY <2>1, <2>5, <2>6, <1>0 DEF StreamTypes
<1>4. CASE CopyBlock
  <2>1. /\ UNCHANGED member
        /\ tar.at < Len(tar.data) /\ tar.owed > 0
        /\ tar' = [[tar EXCEPT !.at = tar.at + 1] EXCEPT !.owed = tar.owed - 1]
        /\ wire' = Append(wire, [kind |-> "block", data |-> tar.data[tar.at + 1]])
    BY <1>4 DEF CopyBlock, Writing, Streaming, Handling, clientVars
  <2>2. tar.at + 1 \in 1 .. Len(tar.data) /\ tar.owed - 1 \in Nat /\ tar.at + 1 \in Nat
    BY <2>1, <1>0
  <2>3. tar.data[tar.at + 1] \in Nat
    BY <2>2, <1>0
  <2>4. wire' \in Seq(Item)
    BY <2>1, <2>3, OneMore DEF Item
  <2>5. tar' \in Tars
    BY <2>1, <2>2, <1>0
  <2> QED
    BY <2>1, <2>4, <2>5, <1>0 DEF StreamTypes
<1>5. CASE Return \/ CopyFails
  <2>1. /\ UNCHANGED member /\ tar' = [tar EXCEPT !.open = NoFile]
        /\ wire' = <<>> \/ wire' = Append(wire, [kind |-> "end"])
    BY <1>5 DEF Return, CopyFails, Returned, Streaming, Handling, clientVars
  <2>2. wire' \in Seq(Item)
    <3>1. [kind |-> "end"] \in Item /\ <<>> \in Seq(Item)
      BY DEF Item
    <3> QED
      BY <2>1, <3>1, OneMore
  <2>3. tar' \in Tars
    BY <2>1, <1>0
  <2> QED
    BY <2>1, <2>2, <2>3, <1>0 DEF StreamTypes
<1>6. CASE AnsweredBusy \/ ArchiveBreaks \/ ReadEnd
  <2>1. UNCHANGED tar /\ member' = Idle /\ wire' = <<>>
    BY <1>6 DEF AnsweredBusy, ArchiveBreaks, ReadEnd, ToPool, agentVars
  <2> QED
    BY <2>1, <1>0 DEF StreamTypes, Idle
<1>7. CASE ReadHeader
  <2>1. /\ wire # <<>> /\ wire' = Tail(wire) /\ UNCHANGED tar /\ Head(wire).kind = "header"
        /\ member' = [file |-> Head(wire).file, need |-> Head(wire).size, got |-> <<>>,
                      keep |-> Head(wire).file \in DOMAIN plan]
    BY <1>7 DEF ReadHeader, Reading, Received, agentVars
  <2>2. wire' \in Seq(Item) /\ Head(wire) \in Item
    BY <2>1, HeadAndTail
  <2>3. Head(wire).file \in Files /\ Head(wire).size \in Nat
    BY <2>1, <2>2 DEF Item
  <2> QED
    BY <2>1, <2>2, <2>3, <1>0 DEF StreamTypes
<1>8. CASE ReadBlock
  <2>1. /\ wire # <<>> /\ wire' = Tail(wire) /\ UNCHANGED tar /\ Head(wire).kind = "block"
        /\ member' = [[member EXCEPT !.need = member.need - 1]
                        EXCEPT !.got = Append(member.got, Head(wire).data)]
    BY <1>8 DEF ReadBlock, Reading, Received, agentVars
  <2>2. wire' \in Seq(Item)
    BY <2>1, HeadAndTail
  <2>3. member.need - 1 \in Nat /\ Append(member.got, Head(wire).data) \in Seq(Nat)
    BY <2>1, <1>0, BlockIsDue
  <2> QED
    BY <2>1, <2>2, <2>3, <1>0 DEF StreamTypes
<1>9. CASE DiskFails \/ EndMember
  <2>1. UNCHANGED <<tar, wire>> /\ (member' = Idle \/ member' = [member EXCEPT !.keep = FALSE])
    BY <1>9 DEF DiskFails, EndMember, agentVars
  <2>2. Idle \in Members
    BY DEF Idle
  <2>3. [member EXCEPT !.keep = FALSE] \in Members
    BY <1>0
  <2> QED
    BY <2>1, <2>2, <2>3, <1>0 DEF StreamTypes
<1>10. ASSUME NEW f \in Files, Remove(f) \/ \E c \in Contents : Rewrite(f, c)
       PROVE  StreamTypes'
  <2>1. UNCHANGED <<member, wire>>
    BY <1>10 DEF Remove, Rewrite, Edited, clientVars
  <2>2. tar' = tar \/ \E c \in Seq(Nat) : tar' = [tar EXCEPT !.data = c]
    BY <1>10, ArchiveAssumption DEF Remove, Rewrite
  <2> QED
    BY <2>1, <2>2, <1>0 DEF StreamTypes
<1>11. CASE Elsewhere
  BY <1>11, <1>1 DEF Elsewhere
<1>12. CASE ScanTree \/ OpenArchive \/ Answered
  BY <1>12, <1>1 DEF ScanTree, OpenArchive, Answered, agentVars, clientVars
<1> QED
  BY StreamSteps, <1>2, <1>3, <1>4, <1>5, <1>6, <1>7, <1>8, <1>9, <1>10, <1>11, <1>12

LEMMA TarPlaceStep ==
  ASSUME StreamTypes, TarPlace, [Next]_vars
  PROVE  TarPlace'
<1> USE DEF TarPlace
<1>1. CASE UNCHANGED tar
  BY <1>1
<1>2. CASE SkipEntry \/ OpenFails \/ EndEntry \/ Return \/ CopyFails
  <2>1. tar'.open = NoFile
    BY <1>2 DEF SkipEntry, OpenFails, EndEntry, Return, CopyFails, Returned, Closed, StreamTypes
  <2> QED
    BY <2>1
<1>3. CASE OpenEntry
  BY <1>3 DEF OpenEntry, Entry, StreamTypes
<1>4. CASE CopyBlock
  BY <1>4 DEF CopyBlock, StreamTypes
<1>5. CASE \E f \in Files : Remove(f) \/ \E c \in Contents : Rewrite(f, c)
  BY <1>5 DEF Remove, Rewrite, StreamTypes
<1>6. CASE ScanTree \/ OpenArchive \/ Answered \/ AnsweredBusy \/ ArchiveBreaks
  BY <1>6, <1>1 DEF ScanTree, OpenArchive, Answered, AnsweredBusy, ArchiveBreaks, ToPool,
                    agentVars
<1>7. CASE ReadHeader \/ ReadBlock \/ ReadEnd \/ DiskFails \/ EndMember
  BY <1>7, <1>1 DEF ReadHeader, ReadBlock, ReadEnd, DiskFails, EndMember, Received, ToPool,
                    agentVars
<1>8. CASE Elsewhere
  BY <1>8, <1>1 DEF Elsewhere
<1> QED
  BY StreamSteps, <1>2, <1>3, <1>4, <1>5, <1>6, <1>7, <1>8

\* Only the step that makes the plan changes it; the tree changes only by its writers.
LEMMA PlanSteps ==
  ASSUME RunStates, [Next]_vars
  PROVE  \/ UNCHANGED <<tree, changed, plan, digests>> /\ (conn' = "idle" <=> conn = "idle")
         \/ OpenArchive
         \/ \E f \in Files : Remove(f) \/ \E c \in Contents : Rewrite(f, c)
<1> USE DEF treeVars, clientVars
<1>1. CASE ScanTree \/ SkipEntry \/ OpenFails \/ OpenEntry \/ CopyBlock \/ EndEntry \/ Return
      \/ CopyFails
  BY <1>1, HandlerFrame
<1>2. CASE Answered \/ AnsweredBusy \/ ArchiveBreaks
  BY <1>2 DEF Answered, AnsweredBusy, ArchiveBreaks, ToPool
<1>3. CASE ReadHeader \/ ReadBlock \/ ReadEnd \/ DiskFails \/ EndMember
  BY <1>3 DEF ReadHeader, ReadBlock, ReadEnd, DiskFails, EndMember, Reading, Received, ToPool
<1>4. CASE Elsewhere
  BY <1>4 DEF Elsewhere
<1> QED
  BY StreamSteps, <1>1, <1>2, <1>3, <1>4

LEMMA PlanHoldsStep ==
  ASSUME DataTypes, CountTypes, RunStates, RunStates', PlanHolds, [Next]_vars
  PROVE  PlanHolds'
<1>1. CASE UNCHANGED <<tree, changed, plan, digests>> /\ (conn' = "idle" <=> conn = "idle")
  BY <1>1 DEF PlanHolds, RunStates
<1>2. CASE OpenArchive
  BY <1>2 DEF OpenArchive, PlanHolds, Restrict
<1>3. ASSUME NEW f \in Files, Remove(f) \/ \E c \in Contents : Rewrite(f, c)
      PROVE  PlanHolds'
  <2>1. UNCHANGED <<phase, plan>> /\ changed' = changed \cup {f}
    BY <1>3 DEF Remove, Rewrite, Edited, clientVars
  <2>2. \A g \in DOMAIN tree \ {f} : g \in DOMAIN tree' /\ tree'[g] = tree[g]
    BY <1>3 DEF Remove, Rewrite, Restrict
  <2> QED
    BY <2>1, <2>2 DEF PlanHolds
<1> QED
  BY PlanSteps, <1>1, <1>2, <1>3

LEMMA KeptIsWantedStep ==
  ASSUME StreamTypes, BulkStates, RunStates, KeptIsWanted, [Next]_vars
  PROVE  KeptIsWanted'
<1> USE DEF KeptIsWanted
<1>1. CASE UNCHANGED <<member, plan>>
  BY <1>1
<1>2. CASE ScanTree \/ SkipEntry \/ OpenFails \/ OpenEntry \/ CopyBlock \/ EndEntry \/ Return
      \/ CopyFails
  BY <1>1, <1>2, HandlerFrame DEF clientVars
<1>3. CASE OpenArchive
  <2>1. conn = "idle" /\ UNCHANGED member
    BY <1>3 DEF OpenArchive, RunStates
  <2>2. member = Idle
    BY <2>1 DEF BulkStates
  <2> QED
    BY <2>1, <2>2 DEF Idle
<1>4. CASE AnsweredBusy \/ ArchiveBreaks \/ ReadEnd
  BY <1>4 DEF AnsweredBusy, ArchiveBreaks, ReadEnd, ToPool, Idle
<1>5. CASE ReadHeader
  BY <1>5 DEF ReadHeader, Received
<1>6. CASE ReadBlock
  BY <1>6 DEF ReadBlock, Received, StreamTypes
<1>9. CASE DiskFails \/ EndMember
  BY <1>9 DEF DiskFails, EndMember, Idle, StreamTypes
<1>7. CASE \E f \in Files : Remove(f) \/ \E c \in Contents : Rewrite(f, c)
  BY <1>7, <1>1 DEF Remove, Rewrite, Edited, clientVars
<1>8. CASE Elsewhere \/ Answered
  BY <1>8, <1>1 DEF Elsewhere, Answered, clientVars
<1> QED
  BY StreamSteps, <1>2, <1>3, <1>4, <1>5, <1>6, <1>7, <1>8, <1>9

(***************************************************************************)
(* How the members of the stream move: one item more at its end, or one    *)
(* less at its head.                                                       *)
(***************************************************************************)
LEMMA StreamGrows ==
  ASSUME StreamTypes, NEW x \in Item, wire' = Append(wire, x), UNCHANGED member
  PROVE  /\ \A h \in 0 .. Len(wire) :
              /\ Begins(h)' <=> Begins(h)
              /\ Of(h)' = Of(h) /\ Had(h)' = Had(h) /\ Due(h)' = Due(h)
              /\ \A i \in 0 .. Len(wire) : Blocks(h, i)' <=> Blocks(h, i)
              /\ Blocks(h, Len(wire))' <=> Blocks(h, Len(wire)) /\ x.kind = "block"
         /\ Begins(Len(wire))' <=> x.kind = "header"
<1>1. /\ Len(wire) \in Nat /\ Len(wire') = Len(wire) + 1
      /\ wire'[Len(wire) + 1] = x
      /\ \A i \in 1 .. Len(wire) : wire'[i] = wire[i]
  BY OneMore
<1>2. ASSUME NEW h \in 0 .. Len(wire)
      PROVE  /\ Begins(h)' <=> Begins(h)
             /\ Of(h)' = Of(h) /\ Had(h)' = Had(h) /\ Due(h)' = Due(h)
  BY <1>1 DEF Begins, Of, Had, Due
<1>3. ASSUME NEW h \in 0 .. Len(wire), NEW i \in 0 .. Len(wire)
      PROVE  Blocks(h, i)' <=> Blocks(h, i)
  BY <1>1 DEF Blocks
<1>4. ASSUME NEW h \in 0 .. Len(wire)
      PROVE  Blocks(h, Len(wire))' <=> Blocks(h, Len(wire)) /\ x.kind = "block"
  <2>1. ASSUME NEW k \in h + 1 .. Len(wire) + 1
        PROVE  k \in h + 1 .. Len(wire) \/ k = Len(wire) + 1
    BY <1>1
  <2>2. ASSUME NEW k \in h + 1 .. Len(wire)
        PROVE  k \in h + 1 .. Len(wire) + 1 /\ wire'[k] = wire[k]
    BY <1>1
  <2>3. Len(wire) + 1 \in h + 1 .. Len(wire) + 1
    BY <1>1
  <2> QED
    BY <2>1, <2>2, <2>3, <1>1, Zenon DEF Blocks
<1>5. Begins(Len(wire))' <=> x.kind = "header"
  <2>1. Len(wire) + 1 \in 1 .. Len(wire') /\ Len(wire) + 1 # 0
    BY <1>1
  <2> QED
    BY <2>1, <1>1, Zenon DEF Begins
<1> QED
  BY <1>2, <1>3, <1>4, <1>5

LEMMA StreamShrinks ==
  ASSUME StreamTypes, wire # <<>>, wire' = Tail(wire)
  PROVE  /\ \A h \in 1 .. Len(wire') :
              /\ Begins(h)' <=> Begins(h + 1)
              /\ Of(h)' = Of(h + 1) /\ Had(h)' = 0 /\ Had(h + 1) = 0 /\ Due(h)' = Due(h + 1)
         /\ \A h, i \in 0 .. Len(wire') : Blocks(h, i)' <=> Blocks(h + 1, i + 1)
         /\ wire[1].kind = "block" => \A i \in 1 .. Len(wire) : Blocks(0, i) <=> Blocks(1, i)
<1>1. /\ Len(wire) \in Nat /\ Len(wire') = Len(wire) - 1
      /\ \A i \in 1 .. Len(wire') : wire'[i] = wire[i + 1]
  BY HeadAndTail
<1>2. ASSUME NEW h \in 1 .. Len(wire')
      PROVE  /\ Begins(h)' <=> Begins(h + 1)
             /\ Of(h)' = Of(h + 1) /\ Had(h)' = 0 /\ Had(h + 1) = 0 /\ Due(h)' = Due(h + 1)
  BY <1>1 DEF Begins, Of, Had, Due
<1>3. ASSUME NEW h \in 0 .. Len(wire'), NEW i \in 0 .. Len(wire')
      PROVE  Blocks(h, i)' <=> Blocks(h + 1, i + 1)
  <2>1. ASSUME Blocks(h, i)', NEW k \in (h + 1) + 1 .. i + 1
        PROVE  wire[k].kind = "block"
    <3>1. k - 1 \in h + 1 .. i /\ k - 1 \in 1 .. Len(wire') /\ (k - 1) + 1 = k
      BY <1>1
    <3>2. wire'[k - 1].kind = "block"
      BY <2>1, <3>1 DEF Blocks
    <3> QED
      BY <3>1, <3>2, <1>1
  <2>2. ASSUME Blocks(h + 1, i + 1), NEW k \in h + 1 .. i
        PROVE  wire'[k].kind = "block"
    <3>1. k + 1 \in (h + 1) + 1 .. i + 1 /\ k \in 1 .. Len(wire')
      BY <1>1
    <3>2. wire[k + 1].kind = "block"
      BY <2>2, <3>1 DEF Blocks
    <3> QED
      BY <3>1, <3>2, <1>1
  <2> QED
    BY <2>1, <2>2 DEF Blocks
<1>4. ASSUME wire[1].kind = "block", NEW i \in 1 .. Len(wire)
      PROVE  Blocks(0, i) <=> Blocks(1, i)
  <2>1. 0 + 1 .. i = (1 + 1 .. i) \cup {1}
    BY <1>1
  <2> QED
    BY <2>1, <1>4 DEF Blocks
<1> QED
  BY <1>2, <1>3, <1>4

LEMMA StreamStays ==
  ASSUME StreamTells, GotTells, UNCHANGED <<wire, member, plan>>, changed \subseteq changed'
  PROVE  StreamTells' /\ GotTells'
<1>1. \A f, k, b : Tells(f, k, b) => Tells(f, k, b)'
  BY DEF Tells
<1>2. \A h, i : /\ Begins(h)' <=> Begins(h)
                /\ Blocks(h, i)' <=> Blocks(h, i)
                /\ Of(h)' = Of(h) /\ Had(h)' = Had(h) /\ Due(h)' = Due(h)
  BY DEF Begins, Blocks, Of, Had, Due
<1>3. ASSUME NEW h \in 0 .. Len(wire'), NEW i \in 1 .. Len(wire'),
             h < i, Begins(h)', Blocks(h, i)'
      PROVE  i - h <= Due(h)' /\ Tells(Of(h), Had(h) + (i - h), wire[i].data)'
  <2>1. i - h <= Due(h) /\ Tells(Of(h), Had(h) + (i - h), wire[i].data)
    BY <1>2, <1>3 DEF StreamTells
  <2> QED
    BY <2>1, <1>2 DEF Tells
<1>4. GotTells'
  BY DEF GotTells, Tells
<1> QED
  BY <1>3, <1>4 DEF StreamTells

\* The handler adds a header or the end of the stream.
LEMMA StreamTellsMore ==
  ASSUME StreamTypes, StreamTells, NEW x \in Item, x.kind # "block",
         wire' = Append(wire, x), UNCHANGED <<member, plan, changed>>
  PROVE  StreamTells'
<1>1. Len(wire) \in Nat /\ Len(wire') = Len(wire) + 1
      /\ \A i \in 1 .. Len(wire) : wire'[i] = wire[i]
  BY OneMore
<1>2. ASSUME NEW h \in 0 .. Len(wire'), NEW i \in 1 .. Len(wire'),
             h < i, Begins(h)', Blocks(h, i)'
      PROVE  i - h <= Due(h)' /\ Tells(Of(h), Had(h) + (i - h), wire[i].data)'
  <2>1. h \in 0 .. Len(wire)
    BY <1>1, <1>2
  <2>2. i # Len(wire')
    <3>1. ASSUME i = Len(wire') PROVE Blocks(h, Len(wire))'
      BY <1>2, <3>1
    <3> QED
      BY <3>1, <2>1, StreamGrows
  <2>3. i \in 1 .. Len(wire) /\ i \in 0 .. Len(wire)
    BY <2>2, <1>1
  <2>4. /\ Begins(h) /\ Blocks(h, i)
        /\ Of(h)' = Of(h) /\ Had(h)' = Had(h) /\ Due(h)' = Due(h)
    BY <1>2, <2>1, <2>3, StreamGrows
  <2>5. i - h <= Due(h) /\ Tells(Of(h), Had(h) + (i - h), wire[i].data)
    BY <1>2, <2>1, <2>3, <2>4 DEF StreamTells
  <2> QED
    BY <2>3, <2>4, <2>5, <1>1 DEF Tells
<1> QED
  BY <1>2 DEF StreamTells

\* Only one member is at the end of the stream.
LEMMA OneLast ==
  ASSUME StreamTypes, NEW h1 \in 0 .. Len(wire), NEW h2 \in 0 .. Len(wire),
         Begins(h1), Blocks(h1, Len(wire)), Begins(h2), Blocks(h2, Len(wire))
  PROVE  h1 = h2
<1>1. Len(wire) \in Nat
  BY DEF StreamTypes
<1>2. ASSUME NEW a \in 0 .. Len(wire), NEW b \in 0 .. Len(wire), a < b,
             Begins(b), Blocks(a, Len(wire))
      PROVE  FALSE
  <2>1. b \in a + 1 .. Len(wire) /\ b # 0
    BY <1>1, <1>2
  <2>2. wire[b].kind = "block"
    BY <1>2, <2>1 DEF Blocks
  <2> QED
    BY <1>2, <2>1, <2>2 DEF Begins
<1>3. h1 < h2 \/ h2 < h1 \/ h1 = h2
  BY <1>1
<1> QED
  BY <1>2, <1>3

\* A block that is copied is one its member still expects, at its place in the file.
LEMMA CopiedBlock ==
  ASSUME SlotsInductive, DataTypes, StreamTypes, BulkStates, RunStates, TarTells, OwedIsDue,
         CopyBlock
  PROVE  \A h \in 0 .. Len(wire) :
           Begins(h) /\ Blocks(h, Len(wire)) =>
             /\ Of(h) = tar.open /\ Had(h) + (Len(wire) - h) = tar.at
             /\ Due(h) = (Len(wire) - h) + tar.owed
<1>1. /\ handler[Bulk] = "serving" /\ conn # "closed"
      /\ tar.open # NoFile /\ tar.owed > 0
  BY DEF CopyBlock, Writing, Streaming, Handling, ClientGone, Closed
<1>2. PICK g \in 0 .. Len(wire) :
        /\ Begins(g) /\ Blocks(g, Len(wire))
        /\ Of(g) = tar.open /\ Had(g) + (Len(wire) - g) = tar.at
  BY <1>1 DEF TarTells
<1>3. Due(g) = (Len(wire) - g) + tar.owed
  BY <1>1, <1>2 DEF OwedIsDue
<1>4. ASSUME NEW h \in 0 .. Len(wire), Begins(h), Blocks(h, Len(wire))
      PROVE  h = g
  BY <1>2, <1>4, OneLast
<1> QED
  BY <1>2, <1>3, <1>4, Zenon

LEMMA StreamTellsBlock ==
  ASSUME SlotsInductive, DataTypes, StreamTypes, BulkStates, RunStates,
         StreamTells, TarTells, OwedIsDue, CopyBlock
  PROVE  StreamTells'
<1> DEFINE x == [kind |-> "block", data |-> tar.data[tar.at + 1]]
<1>1. /\ UNCHANGED <<member, plan, changed>> /\ wire' = Append(wire, x)
      /\ tar.at < Len(tar.data) /\ tar.owed > 0 /\ tar.open # NoFile
  BY DEF CopyBlock, Writing, Streaming, Handling, Closed, treeVars, clientVars
<1>2. x \in Item
  <2>1. tar.at + 1 \in 1 .. Len(tar.data) /\ tar.data \in Seq(Nat)
    BY <1>1 DEF StreamTypes
  <2>2. tar.data[tar.at + 1] \in Nat
    BY <2>1
  <2> QED
    BY <2>2 DEF Item
<1>3. x.kind = "block" /\ x.data = tar.data[tar.at + 1]
  OBVIOUS
<1> HIDE DEF x
<1>4. /\ Len(wire) \in Nat /\ Len(wire') = Len(wire) + 1
      /\ wire'[Len(wire) + 1] = x
      /\ \A i \in 1 .. Len(wire) : wire'[i] = wire[i]
  BY <1>1, <1>2, OneMore
<1>5. ASSUME NEW h \in 0 .. Len(wire'), NEW i \in 1 .. Len(wire'),
             h < i, Begins(h)', Blocks(h, i)'
      PROVE  i - h <= Due(h)' /\ Tells(Of(h), Had(h) + (i - h), wire[i].data)'
  <2>1. h \in 0 .. Len(wire)
    BY <1>4, <1>5
  <2>2. Begins(h) /\ Of(h)' = Of(h) /\ Had(h)' = Had(h) /\ Due(h)' = Due(h)
    BY <1>1, <1>2, <1>5, <2>1, StreamGrows
  <2>3. CASE i \in 1 .. Len(wire)
    <3>1. Blocks(h, i)
      BY <1>1, <1>2, <1>5, <2>1, <2>3, StreamGrows
    <3>2. i - h <= Due(h) /\ Tells(Of(h), Had(h) + (i - h), wire[i].data)
      BY <1>5, <2>1, <2>2, <2>3, <3>1 DEF StreamTells
    <3> QED
      BY <1>1, <1>4, <2>2, <2>3, <3>2 DEF Tells
  <2>4. CASE i = Len(wire) + 1
    <3>1. Blocks(h, Len(wire))'
      BY <1>4, <1>5, <2>4
    <3>2. Blocks(h, Len(wire))
      BY <1>1, <1>2, <2>1, <3>1, StreamGrows
    <3>3. /\ Of(h) = tar.open /\ Had(h) + (Len(wire) - h) = tar.at
          /\ Due(h) = (Len(wire) - h) + tar.owed
      BY <2>1, <2>2, <3>2, CopiedBlock
    <3>4. Had(h) \in Nat /\ tar.owed \in Nat
      BY DEF Had, StreamTypes
    <3>5. i - h <= Due(h) /\ Had(h) + (i - h) = tar.at + 1
      BY <1>1, <1>4, <2>1, <2>4, <3>3, <3>4
    <3>6. Tells(tar.open, tar.at + 1, tar.data[tar.at + 1])
      BY DEF TarTells, Tells
    <3>7. wire'[i].data = tar.data[tar.at + 1]
      BY <1>3, <1>4, <2>4
    <3> QED
      BY <1>1, <2>2, <3>3, <3>5, <3>6, <3>7 DEF Tells
  <2> QED
    BY <1>4, <2>3, <2>4
<1> QED
  BY <1>5 DEF StreamTells

\* The client reads an item: what was at h + 1 is at h, and the member that is
\* unpacked now stands for the header or for the member before.
LEMMA ReadHeaderMoves ==
  ASSUME StreamTypes, BulkStates, ReadHeader
  PROVE  /\ wire # <<>> /\ wire' = Tail(wire) /\ wire[1] \in Item /\ wire[1].kind = "header"
         /\ Begins(1) /\ member = Idle
         /\ Begins(0)' /\ Of(0)' = Of(1) /\ Had(0)' = 0 /\ Had(1) = 0 /\ Due(0)' = Due(1)
         /\ member'.got = <<>> /\ member'.keep = (Of(1) \in DOMAIN plan)
<1>1. /\ wire # <<>> /\ wire' = Tail(wire) /\ Head(wire).kind = "header" /\ member = Idle
      /\ member' = [file |-> Head(wire).file, need |-> Head(wire).size, got |-> <<>>,
                    keep |-> Head(wire).file \in DOMAIN plan]
  BY DEF ReadHeader, Reading, Received
<1>2. Head(wire) = wire[1] /\ wire[1] \in Item /\ 1 \in 1 .. Len(wire)
  BY <1>1, HeadAndTail
<1>3. member'.file = wire[1].file /\ member'.need = wire[1].size /\ member'.got = <<>>
      /\ member'.keep = (wire[1].file \in DOMAIN plan)
  BY <1>1, <1>2
<1>4. Begins(1) /\ Begins(0)'
  BY <1>1, <1>2 DEF Begins
<1>5. /\ Of(0)' = wire[1].file /\ Of(1) = wire[1].file
      /\ Due(0)' = wire[1].size /\ Due(1) = wire[1].size
      /\ Had(0)' = 0 /\ Had(1) = 0
  BY <1>3 DEF Of, Due, Had
<1> QED
  BY <1>1, <1>2, <1>3, <1>4, <1>5

LEMMA ReadBlockMoves ==
  ASSUME StreamTypes, StreamTells, ReadBlock
  PROVE  /\ wire # <<>> /\ wire' = Tail(wire) /\ wire[1] \in Item /\ wire[1].kind = "block"
         /\ Begins(0) /\ Begins(0)' /\ Of(0)' = Of(0)
         /\ Had(0)' = Had(0) + 1 /\ Due(0)' = Due(0) - 1 /\ Due(0) >= 1
         /\ member'.keep = member.keep
         /\ Len(member'.got) = Len(member.got) + 1 /\ Len(member.got) \in Nat
         /\ member'.got[Len(member.got) + 1] = wire[1].data
         /\ \A k \in 1 .. Len(member.got) : member'.got[k] = member.got[k]
         /\ Tells(member.file, Len(member.got) + 1, wire[1].data)
<1>1. /\ wire # <<>> /\ wire' = Tail(wire) /\ Head(wire).kind = "block"
      /\ member' = [[member EXCEPT !.need = member.need - 1]
                      EXCEPT !.got = Append(member.got, Head(wire).data)]
  BY DEF ReadBlock, Reading, Received
<1>2. Head(wire) = wire[1] /\ wire[1] \in Item
  BY <1>1, HeadAndTail
<1>3. /\ member.need >= 1 /\ wire[1].data \in Nat
      /\ Tells(member.file, Len(member.got) + 1, wire[1].data)
  BY <1>1, <1>2, BlockIsDue
<1>4. /\ member'.file = member.file /\ member'.need = member.need - 1
      /\ member'.keep = member.keep /\ member'.got = Append(member.got, wire[1].data)
  BY <1>1, <1>2 DEF StreamTypes
<1>5. member.got \in Seq(Nat)
  BY DEF StreamTypes
<1>6. /\ Len(member'.got) = Len(member.got) + 1 /\ Len(member.got) \in Nat
      /\ member'.got[Len(member.got) + 1] = wire[1].data
      /\ \A k \in 1 .. Len(member.got) : member'.got[k] = member.got[k]
  BY <1>3, <1>4, <1>5
<1>7. Begins(0) /\ Begins(0)'
  BY DEF Begins
<1>8. /\ Of(0)' = Of(0) /\ Had(0)' = Had(0) + 1 /\ Due(0)' = Due(0) - 1 /\ Due(0) >= 1
  BY <1>3, <1>4, <1>6 DEF Of, Had, Due
<1> QED
  BY <1>1, <1>2, <1>3, <1>4, <1>6, <1>7, <1>8

LEMMA StreamTellsRead ==
  ASSUME StreamTypes, BulkStates, StreamTells, GotTells, ReadHeader \/ ReadBlock
  PROVE  StreamTells' /\ GotTells'
<1>1. UNCHANGED <<plan, changed>> /\ wire # <<>> /\ wire' = Tail(wire)
  BY ReadHeaderMoves, ReadBlockMoves DEF ReadHeader, ReadBlock, Received, treeVars
<1>2. /\ Len(wire) \in Nat /\ Len(wire') = Len(wire) - 1
      /\ \A i \in 1 .. Len(wire') : wire'[i] = wire[i + 1]
  BY <1>1, HeadAndTail
<1>3. ASSUME NEW h \in 0 .. Len(wire'), NEW i \in 1 .. Len(wire'),
             h < i, Begins(h)', Blocks(h, i)'
      PROVE  i - h <= Due(h)' /\ Tells(Of(h), Had(h) + (i - h), wire[i].data)'
  <2>1. /\ h + 1 \in 0 .. Len(wire) /\ i + 1 \in 1 .. Len(wire) /\ 0 \in 0 .. Len(wire)
        /\ h + 1 < i + 1 /\ 0 < i + 1 /\ (i + 1) - (h + 1) = i - h
        /\ i \in 0 .. Len(wire') /\ h \in 0 .. Len(wire')
    BY <1>2, <1>3
  <2>2. Blocks(h + 1, i + 1)
    BY <1>1, <1>3, <2>1, StreamShrinks
  <2>3. CASE h # 0
    <3>1. h \in 1 .. Len(wire')
      BY <2>1, <2>3, <1>2
    <3>2. /\ Begins(h + 1) /\ Of(h)' = Of(h + 1) /\ Due(h)' = Due(h + 1)
          /\ Had(h)' = 0 /\ Had(h + 1) = 0
      BY <1>1, <1>3, <3>1, StreamShrinks
    <3>3. /\ (i + 1) - (h + 1) <= Due(h + 1)
          /\ Tells(Of(h + 1), Had(h + 1) + ((i + 1) - (h + 1)), wire[i + 1].data)
      BY <2>1, <2>2, <3>2 DEF StreamTells
    <3> QED
      BY <1>1, <1>2, <2>1, <3>2, <3>3 DEF Tells
  <2>4. CASE h = 0 /\ ReadHeader
    <3>1. /\ Begins(1) /\ Of(0)' = Of(1) /\ Had(0)' = 0 /\ Had(1) = 0 /\ Due(0)' = Due(1)
      BY <2>4, ReadHeaderMoves
    <3>2. (i + 1) - 1 = i - h /\ h + 1 = 1
      BY <2>4
    <3>3. i - h <= Due(1) /\ Tells(Of(1), Had(1) + (i - h), wire[i + 1].data)
      <4>1. (i + 1) - 1 <= Due(1) /\ Tells(Of(1), Had(1) + ((i + 1) - 1), wire[i + 1].data)
        BY <2>1, <2>2, <3>1, <3>2 DEF StreamTells
      <4> QED
        BY <4>1, <3>2
    <3> QED
      BY <1>1, <1>2, <2>4, <3>1, <3>3 DEF Tells
  <2>5. CASE h = 0 /\ ReadBlock
    <3>1. /\ Begins(0) /\ Of(0)' = Of(0) /\ Had(0)' = Had(0) + 1 /\ Due(0)' = Due(0) - 1
          /\ wire[1].kind = "block"
      BY <2>5, ReadBlockMoves
    <3>2. Blocks(0, i + 1)
      BY <1>1, <2>1, <2>2, <2>5, <3>1, StreamShrinks
    <3>3. (i + 1) - 0 <= Due(0) /\ Tells(Of(0), Had(0) + ((i + 1) - 0), wire[i + 1].data)
      BY <2>1, <3>1, <3>2 DEF StreamTells
    <3>4. Had(0) \in Nat /\ Due(0) \in Nat
      BY DEF Had, Due, StreamTypes
    <3>5. i - h <= Due(0)' /\ Had(0)' + (i - h) = Had(0) + ((i + 1) - 0)
      BY <3>1, <3>3, <3>4, <2>5
    <3> QED
      BY <1>1, <1>2, <2>5, <3>1, <3>3, <3>5 DEF Tells
  <2> QED
    BY <2>3, <2>4, <2>5
<1>4. GotTells'
  <2>1. CASE ReadHeader
    BY <2>1, ReadHeaderMoves DEF GotTells
  <2>2. CASE ReadBlock
    <3>1. /\ Len(member'.got) = Len(member.got) + 1 /\ Len(member.got) \in Nat
          /\ member'.got[Len(member.got) + 1] = wire[1].data
          /\ \A k \in 1 .. Len(member.got) : member'.got[k] = member.got[k]
          /\ Tells(member.file, Len(member.got) + 1, wire[1].data)
          /\ member'.file = member.file
      BY <2>2, ReadBlockMoves DEF Of
    <3> QED
      BY <3>1, <1>1 DEF GotTells, Tells
  <2> QED
    BY <2>1, <2>2
<1> QED
  BY <1>3, <1>4 DEF StreamTells

LEMMA StreamTellsEnd ==
  ASSUME StreamTypes, StreamTells, EndMember
  PROVE  StreamTells' /\ GotTells'
<1>1. /\ member.need = 0 /\ member' = Idle /\ UNCHANGED <<wire, plan, changed>>
  BY DEF EndMember, treeVars
<1>2. GotTells'
  BY <1>1 DEF GotTells, Idle
<1>3. ASSUME NEW h \in 0 .. Len(wire'), NEW i \in 1 .. Len(wire'),
             h < i, Begins(h)', Blocks(h, i)'
      PROVE  i - h <= Due(h)' /\ Tells(Of(h), Had(h) + (i - h), wire[i].data)'
  <2>1. Blocks(h, i) /\ Begins(h) /\ h \in 0 .. Len(wire) /\ i \in 1 .. Len(wire)
    BY <1>1, <1>3 DEF Blocks, Begins
  <2>2. i - h <= Due(h) /\ Tells(Of(h), Had(h) + (i - h), wire[i].data)
    BY <1>3, <2>1 DEF StreamTells
  <2>3. h # 0
    BY <1>1, <1>3, <2>2 DEF Due
  <2>4. Of(h)' = Of(h) /\ Had(h)' = Had(h) /\ Due(h)' = Due(h)
    BY <1>1, <2>3 DEF Of, Had, Due
  <2> QED
    BY <1>1, <2>2, <2>4 DEF Tells
<1> QED
  BY <1>2, <1>3 DEF StreamTells

LEMMA StreamTellsNothing ==
  ASSUME wire' = <<>>, member' = Idle \/ member'.got = <<>>
  PROVE  StreamTells' /\ GotTells'
  BY DEF StreamTells, GotTells, Idle

LEMMA StreamTellsDiskFails ==
  ASSUME StreamTypes, StreamTells, GotTells, DiskFails
  PROVE  StreamTells' /\ GotTells'
<1>1. /\ member'.file = member.file /\ member'.need = member.need /\ member'.got = member.got
      /\ UNCHANGED <<wire, plan, changed>>
  BY DEF DiskFails, StreamTypes, treeVars
<1>2. \A h : Of(h)' = Of(h) /\ Had(h)' = Had(h) /\ Due(h)' = Due(h)
  BY <1>1 DEF Of, Had, Due
<1>3. \A h, i : (Begins(h)' <=> Begins(h)) /\ (Blocks(h, i)' <=> Blocks(h, i))
  BY <1>1 DEF Begins, Blocks
<1>4. GotTells'
  BY <1>1 DEF GotTells, Tells
<1>5. ASSUME NEW h \in 0 .. Len(wire'), NEW i \in 1 .. Len(wire'),
             h < i, Begins(h)', Blocks(h, i)'
      PROVE  i - h <= Due(h)' /\ Tells(Of(h), Had(h) + (i - h), wire[i].data)'
  <2>1. i - h <= Due(h) /\ Tells(Of(h), Had(h) + (i - h), wire[i].data)
    BY <1>1, <1>3, <1>5 DEF StreamTells
  <2> QED
    BY <1>1, <1>2, <2>1 DEF Tells
<1> QED
  BY <1>4, <1>5 DEF StreamTells

LEMMA StreamTellsStep ==
  ASSUME SlotsInductive, DataTypes, CountTypes, StreamTypes, BulkStates, RunStates,
         StreamTells, GotTells, TarTells, OwedIsDue, [Next]_vars
  PROVE  StreamTells' /\ GotTells'
<1>1. CASE Elsewhere
  BY <1>1, StreamStays DEF Elsewhere
<1>2. CASE ScanTree \/ SkipEntry \/ OpenFails \/ EndEntry
  BY <1>2, StreamStays
     DEF ScanTree, SkipEntry, OpenFails, EndEntry, Streaming, Handling, treeVars, clientVars
<1>3. CASE OpenEntry
  <2>1. UNCHANGED <<member, plan, changed>> /\ handler[Bulk] = "serving"
    BY <1>3 DEF OpenEntry, Writing, Streaming, Handling, treeVars, clientVars
  <2>2. Entry \in DOMAIN scan /\ tar.next \in 1 .. Len(Order)
        /\ wire' = Append(wire, [kind |-> "header", file |-> Entry, size |-> scan[Entry]])
    BY <1>3, OrderIs DEF OpenEntry, StreamTypes
  <2>3. Entry \in Files /\ scan[Entry] \in Nat
    <3>1. \A c \in Contents : Len(c) \in Nat
      BY ArchiveAssumption
    <3>2. Partial(scan, {Len(c) : c \in Contents})
      BY <2>1 DEF BulkStates, DataTypes
    <3> QED
      BY <2>2, <3>1, <3>2, PartialIs
  <2> HIDE DEF Entry
  <2>4. [kind |-> "header", file |-> Entry, size |-> scan[Entry]] \in Item
    BY <2>3 DEF Item
  <2>5. StreamTells'
    BY <2>1, <2>2, <2>4, StreamTellsMore
  <2> QED
    BY <2>1, <2>5 DEF GotTells, Tells
<1>4. CASE CopyBlock
  <2>1. UNCHANGED <<member, plan, changed>>
    BY <1>4 DEF CopyBlock, Writing, Streaming, Handling, treeVars, clientVars
  <2> QED
    BY <1>4, <2>1, StreamTellsBlock DEF GotTells, Tells
<1>5. CASE Return \/ CopyFails
  <2>1. UNCHANGED <<member, plan, changed, conn>>
    BY <1>5 DEF Return, CopyFails, Returned, Streaming, Handling, treeVars, clientVars
  <2>2. CASE conn = "closed"
    BY <1>5, <2>1, <2>2, StreamTellsNothing DEF Return, CopyFails, Returned, ClientGone, RunStates
  <2>3. CASE conn # "closed"
    <3>1. wire' = Append(wire, [kind |-> "end"]) /\ [kind |-> "end"] \in Item
      BY <1>5, <2>3 DEF Return, CopyFails, Returned, ClientGone, Item
    <3>2. StreamTells'
      BY <2>1, <3>1, StreamTellsMore
    <3> QED
      BY <2>1, <3>2 DEF GotTells, Tells
  <2> QED
    BY <2>2, <2>3
<1>6. CASE OpenArchive
  <2>1. wire = <<>> /\ member = Idle /\ UNCHANGED <<wire, member>>
    BY <1>6 DEF OpenArchive, RunStates, BulkStates
  <2> QED
    BY <2>1, StreamTellsNothing
<1>7. CASE Answered
  BY <1>7, StreamStays DEF Answered, treeVars, clientVars
<1>8. CASE AnsweredBusy \/ ArchiveBreaks \/ ReadEnd
  BY <1>8, StreamTellsNothing DEF AnsweredBusy, ArchiveBreaks, ReadEnd, ToPool
<1>9. CASE ReadHeader \/ ReadBlock
  BY <1>9, StreamTellsRead
<1>10. CASE DiskFails \/ EndMember
  BY <1>10, StreamTellsDiskFails, StreamTellsEnd
<1>11. CASE \E f \in Files : Remove(f) \/ \E c \in Contents : Rewrite(f, c)
  BY <1>11, StreamStays DEF Remove, Rewrite, Edited, clientVars
<1> QED
  BY StreamSteps, <1>1, <1>2, <1>3, <1>4, <1>5, <1>6, <1>7, <1>8, <1>9, <1>10, <1>11

LEMMA OpenEntryIs ==
  ASSUME SlotsInductive, DataTypes, CountTypes, StreamTypes, BulkStates, OpenEntry
  PROVE  \E x \in Item :
           /\ x = [kind |-> "header", file |-> Entry, size |-> scan[Entry]]
           /\ x.kind = "header" /\ x.file = Entry /\ x.size = scan[Entry]
           /\ wire' = Append(wire, x)
           /\ UNCHANGED <<tree, changed, plan, digests, member, scan, conn, phase>>
           /\ handler[Bulk] = "serving" /\ conn \notin {"idle", "closed"}
           /\ Entry \in DOMAIN tree /\ Entry \in DOMAIN scan /\ Entry \in Files
           /\ tar.owed = 0 /\ tar.next <= Len(Order) /\ tar'.next = tar.next
           /\ tar'.open = Entry /\ tar'.data = tree[Entry] /\ tar'.at = 0
           /\ tar'.owed = scan[Entry]
<1>1. /\ UNCHANGED <<tree, changed, plan, digests, member, scan, conn, phase>>
      /\ handler[Bulk] = "serving" /\ conn \notin {"idle", "closed"}
  BY DEF OpenEntry, Writing, Streaming, Handling, ClientGone, treeVars, clientVars, BulkStates
<1>2. /\ Entry \in DOMAIN tree /\ Entry \in DOMAIN scan /\ tar.owed = 0
      /\ tar.next \in 1 .. Len(Order)
      /\ wire' = Append(wire, [kind |-> "header", file |-> Entry, size |-> scan[Entry]])
  BY OrderIs DEF OpenEntry, StreamTypes
<1>3. /\ tar'.open = Entry /\ tar'.data = tree[Entry] /\ tar'.at = 0
      /\ tar'.owed = scan[Entry] /\ tar'.next = tar.next
  BY DEF OpenEntry, StreamTypes
<1>4. Entry \in Files /\ scan[Entry] \in Nat
  <2>1. \A c \in Contents : Len(c) \in Nat
    BY ArchiveAssumption
  <2>2. Partial(scan, {Len(c) : c \in Contents})
    BY <1>1 DEF BulkStates, DataTypes
  <2> QED
    BY <1>2, <2>1, <2>2, PartialIs
<1> HIDE DEF Entry
<1>5. [kind |-> "header", file |-> Entry, size |-> scan[Entry]] \in Item
  BY <1>4 DEF Item
<1> QED
  BY <1>1, <1>2, <1>3, <1>4, <1>5

LEMMA CopyBlockIs ==
  ASSUME StreamTypes, CopyBlock
  PROVE  \E x \in Item :
           /\ x.kind = "block" /\ wire' = Append(wire, x)
           /\ UNCHANGED <<tree, changed, plan, digests, member, scan, conn, phase>>
           /\ tar.open # NoFile /\ tar.at < Len(tar.data) /\ tar.owed > 0
           /\ tar'.open = tar.open /\ tar'.data = tar.data /\ tar'.next = tar.next
           /\ tar'.at = tar.at + 1 /\ tar'.owed = tar.owed - 1
<1>1. /\ UNCHANGED <<tree, changed, plan, digests, member, scan, conn, phase>>
      /\ tar.open # NoFile /\ tar.at < Len(tar.data) /\ tar.owed > 0
      /\ wire' = Append(wire, [kind |-> "block", data |-> tar.data[tar.at + 1]])
      /\ tar' = [[tar EXCEPT !.at = tar.at + 1] EXCEPT !.owed = tar.owed - 1]
  BY DEF CopyBlock, Writing, Streaming, Handling, Closed, treeVars, clientVars
<1>2. tar.at + 1 \in 1 .. Len(tar.data) /\ tar.data \in Seq(Nat)
  BY <1>1 DEF StreamTypes
<1>3. [kind |-> "block", data |-> tar.data[tar.at + 1]] \in Item
  <2>1. tar.data[tar.at + 1] \in Nat
    BY <1>2
  <2> QED
    BY <2>1 DEF Item
<1>4. /\ tar'.open = tar.open /\ tar'.data = tar.data /\ tar'.next = tar.next
      /\ tar'.at = tar.at + 1 /\ tar'.owed = tar.owed - 1
  BY <1>1 DEF StreamTypes
<1> QED
  BY <1>1, <1>3, <1>4

\* The tree changes under an open file.
LEMMA WritersAndTar ==
  ASSUME StreamTypes, NEW f \in Files, Remove(f) \/ \E c \in Contents : Rewrite(f, c)
  PROVE  /\ UNCHANGED <<wire, member, plan, digests, scan, conn, phase, slotVars>>
         /\ changed' = changed \cup {f}
         /\ tar'.open = tar.open /\ tar'.next = tar.next
         /\ tar'.at = tar.at /\ tar'.owed = tar.owed
         /\ tar.open # f => tar'.data = tar.data
  BY DEF Remove, Rewrite, Edited, clientVars, StreamTypes

LEMMA TarTellsRead ==
  ASSUME SlotsInductive, StreamTypes, BulkStates, StreamTells, TarTells,
         ReadHeader \/ ReadBlock
  PROVE  TarTells'
<1>1. /\ UNCHANGED <<plan, changed, tar, conn>> /\ wire # <<>> /\ wire' = Tail(wire)
  BY ReadHeaderMoves, ReadBlockMoves DEF ReadHeader, ReadBlock, Received, treeVars, agentVars
<1>2. Len(wire) \in Nat /\ Len(wire') = Len(wire) - 1 /\ Len(wire) >= 1
  BY <1>1, HeadAndTail
<1>3. ASSUME tar.open # NoFile, conn # "closed", tar.owed > 0
      PROVE  \E h \in 0 .. Len(wire') :
               /\ Begins(h)' /\ Blocks(h, Len(wire))'
               /\ Of(h)' = tar.open /\ Had(h)' + (Len(wire') - h) = tar.at
  <2>1. PICK g \in 0 .. Len(wire) :
          /\ Begins(g) /\ Blocks(g, Len(wire))
          /\ Of(g) = tar.open /\ Had(g) + (Len(wire) - g) = tar.at
    BY <1>3 DEF TarTells
  <2>2. CASE g > 1
    <3>1. /\ g - 1 \in 1 .. Len(wire') /\ g - 1 \in 0 .. Len(wire') /\ (g - 1) + 1 = g
          /\ Len(wire') \in 0 .. Len(wire') /\ Len(wire') + 1 = Len(wire)
          /\ Len(wire') - (g - 1) = Len(wire) - g
      BY <1>2, <2>2
    <3> DEFINE h == g - 1
    <3> HIDE DEF h
    <3>2. h = g - 1
      BY DEF h
    <3>3. /\ h \in 1 .. Len(wire') /\ h \in 0 .. Len(wire') /\ h + 1 = g
          /\ Len(wire') - h = Len(wire) - g
      BY <3>1, <3>2
    <3>4. Begins(h)' /\ Of(h)' = Of(g) /\ Had(h)' = Had(g)
      BY <1>1, <2>1, <3>3, StreamShrinks
    <3>5. Blocks(h, Len(wire))'
      BY <1>1, <2>1, <3>1, <3>3, StreamShrinks
    <3> QED
      BY <2>1, <3>3, <3>4, <3>5
  <2>3. CASE g = 1
    <3>1. ReadHeader
      BY <2>1, <2>3, ReadBlockMoves DEF Begins
    <3>2. Begins(0)' /\ Of(0)' = Of(1) /\ Had(0)' = 0 /\ Had(1) = 0
      BY <3>1, ReadHeaderMoves
    <3>3. 0 \in 0 .. Len(wire') /\ Len(wire') \in 0 .. Len(wire') /\ Len(wire') + 1 = Len(wire)
          /\ 0 + 1 = 1
      BY <1>2
    <3>4. Blocks(0, Len(wire))'
      BY <1>1, <2>1, <2>3, <3>3, StreamShrinks
    <3>5. Had(0)' + (Len(wire') - 0) = tar.at
      BY <2>1, <2>3, <3>2, <1>2
    <3> QED
      BY <2>1, <2>3, <3>2, <3>3, <3>4, <3>5
  <2>4. CASE g = 0
    <3>1. ReadBlock
      BY <2>1, <2>4, <1>3, ReadHeaderMoves DEF Of, Idle
    <3>2. /\ Begins(0)' /\ Of(0)' = Of(0) /\ Had(0)' = Had(0) + 1
          /\ wire[1].kind = "block"
      BY <3>1, ReadBlockMoves
    <3>3. 0 \in 0 .. Len(wire') /\ Len(wire') \in 0 .. Len(wire') /\ Len(wire') + 1 = Len(wire)
          /\ 0 + 1 = 1 /\ Len(wire) \in 1 .. Len(wire)
      BY <1>2
    <3>4. Blocks(1, Len(wire))
      BY <1>1, <2>1, <2>4, <3>2, <3>3, StreamShrinks
    <3>5. Blocks(0, Len(wire))'
      BY <1>1, <3>3, <3>4, StreamShrinks
    <3>6. Had(0) \in Nat
      BY DEF Had, StreamTypes
    <3>7. Had(0)' + (Len(wire') - 0) = tar.at
      BY <2>1, <2>4, <3>2, <3>6, <1>2
    <3> QED
      BY <2>1, <2>4, <3>2, <3>3, <3>5, <3>7
  <2> QED
    BY <1>2, <2>2, <2>3, <2>4
<1> QED
  BY <1>1, <1>3 DEF TarTells

LEMMA TarTellsStep ==
  ASSUME SlotsInductive, DataTypes, CountTypes, StreamTypes, BulkStates, RunStates, PlanHolds,
         StreamTells, TarTells, OwedIsDue, [Next]_vars
  PROVE  TarTells'
<1>1. NoFile \notin DOMAIN plan
  BY NamesAssumption, PartialIs DEF DataTypes
<1>2. CASE UNCHANGED <<tar, wire, member, plan, changed, conn>>
  BY <1>2 DEF TarTells, Begins, Blocks, Of, Had
<1>3. CASE SkipEntry \/ OpenFails \/ EndEntry \/ Return \/ CopyFails
  <2>1. tar'.open = NoFile /\ UNCHANGED plan
    BY <1>3 DEF SkipEntry, OpenFails, EndEntry, Return, CopyFails, Returned, Closed, Streaming,
                Handling, StreamTypes, clientVars
  <2> QED
    BY <2>1, <1>1 DEF TarTells
<1>4. CASE OpenEntry
  <2>1. PICK x \in Item :
          /\ x.kind = "header" /\ x.file = Entry /\ wire' = Append(wire, x)
          /\ UNCHANGED <<tree, changed, plan, digests, member, scan, conn, phase>>
          /\ conn \notin {"idle", "closed"}
          /\ tar'.open = Entry /\ tar'.data = tree[Entry] /\ tar'.at = 0
    BY <1>4, OpenEntryIs
  <2> HIDE DEF Entry
  <2>2. tar'.open \in DOMAIN plan \ changed => tar'.data = plan[tar'.open]
    BY <2>1 DEF PlanHolds, RunStates
  <2>3. /\ Len(wire) \in Nat /\ Len(wire') = Len(wire) + 1
        /\ wire'[Len(wire) + 1] = x
    BY <2>1, OneMore
  <2>4. Begins(Len(wire))'
    BY <2>1, StreamGrows
  <2>5. Blocks(Len(wire), Len(wire))'
    BY <2>3 DEF Blocks
  <2>6. Of(Len(wire))' = Entry /\ Had(Len(wire))' = 0
    BY <2>1, <2>3 DEF Of, Had
  <2>7. Len(wire') \in 0 .. Len(wire') /\ Len(wire') - Len(wire') = 0
    BY <2>3
  <2> QED
    BY <2>1, <2>2, <2>4, <2>5, <2>6, <2>7 DEF TarTells
<1>5. CASE CopyBlock
  <2>1. PICK x \in Item :
          /\ x.kind = "block" /\ wire' = Append(wire, x)
          /\ UNCHANGED <<tree, changed, plan, digests, member, scan, conn, phase>>
          /\ tar.open # NoFile /\ tar.owed > 0
          /\ tar'.open = tar.open /\ tar'.data = tar.data /\ tar'.at = tar.at + 1
    BY <1>5, CopyBlockIs
  <2>2. conn # "closed"
    BY <1>5 DEF CopyBlock, Writing, ClientGone
  <2>3. PICK h \in 0 .. Len(wire) :
          /\ Begins(h) /\ Blocks(h, Len(wire))
          /\ Of(h) = tar.open /\ Had(h) + (Len(wire) - h) = tar.at
    BY <2>1, <2>2 DEF TarTells
  <2>4. /\ Begins(h)' /\ Of(h)' = Of(h) /\ Had(h)' = Had(h) /\ Blocks(h, Len(wire))'
    BY <2>1, <2>3, StreamGrows
  <2>5. Len(wire) \in Nat /\ Len(wire') = Len(wire) + 1
    BY <2>1, OneMore
  <2>6. Had(h) \in Nat
    BY DEF Had, StreamTypes
  <2>7. h \in 0 .. Len(wire') /\ Had(h)' + (Len(wire') - h) = tar'.at
    BY <2>1, <2>3, <2>4, <2>5, <2>6
  <2> QED
    BY <2>1, <2>3, <2>4, <2>7 DEF TarTells
<1>6. CASE OpenArchive
  <2>1. UNCHANGED tar /\ tar.open = NoFile
    BY <1>6 DEF OpenArchive, RunStates, BulkStates, agentVars
  <2>2. tar'.open \notin DOMAIN plan'
    <3>1. DOMAIN plan' \subseteq DOMAIN tree
      BY <1>6 DEF OpenArchive, Restrict
    <3> QED
      BY <2>1, <3>1, NamesAssumption, PartialIs DEF DataTypes
  <2> QED
    BY <2>1, <2>2 DEF TarTells
<1>7. CASE Answered
  <2>1. UNCHANGED <<tar, wire, member, plan, changed>> /\ conn # "closed"
    BY <1>7 DEF Answered, treeVars, agentVars, clientVars
  <2> QED
    BY <2>1 DEF TarTells, Begins, Blocks, Of, Had
<1>8. CASE AnsweredBusy \/ ArchiveBreaks \/ ReadEnd
  <2>1. UNCHANGED <<tar, plan, changed>> /\ conn' = "closed"
    BY <1>8 DEF AnsweredBusy, ArchiveBreaks, ReadEnd, ToPool, treeVars, agentVars
  <2> QED
    BY <2>1 DEF TarTells
<1>9. CASE ReadHeader \/ ReadBlock
  BY <1>9, TarTellsRead
<1>10. CASE DiskFails
  <2>1. /\ UNCHANGED <<tar, wire, plan, changed, conn>>
        /\ member'.file = member.file /\ member'.got = member.got
    BY <1>10 DEF DiskFails, StreamTypes, treeVars, agentVars
  <2> QED
    BY <2>1 DEF TarTells, Begins, Blocks, Of, Had
<1>11. CASE EndMember
  <2>1. /\ UNCHANGED <<tar, wire, plan, changed, conn>> /\ member.need = 0
    BY <1>11 DEF EndMember, treeVars, agentVars
  <2>2. ASSUME tar.open # NoFile, conn # "closed", tar.owed > 0, NEW h \in 0 .. Len(wire),
               Begins(h), Blocks(h, Len(wire)), Of(h) = tar.open
        PROVE  h # 0
    <3>1. Due(h) = (Len(wire) - h) + tar.owed
      BY <2>2 DEF OwedIsDue, BulkStates
    <3>2. Len(wire) \in Nat /\ tar.owed \in Nat
      BY DEF StreamTypes
    <3> QED
      BY <2>1, <2>2, <3>1, <3>2 DEF Due
  <2>3. \A h : h # 0 => Of(h)' = Of(h) /\ Had(h)' = Had(h)
    BY <2>1 DEF Of, Had
  <2>4. \A h : (Begins(h)' <=> Begins(h)) /\ (Blocks(h, Len(wire))' <=> Blocks(h, Len(wire)))
    BY <2>1 DEF Begins, Blocks
  <2> QED
    BY <2>1, <2>2, <2>3, <2>4 DEF TarTells
<1>12. ASSUME NEW f \in Files, Remove(f) \/ \E c \in Contents : Rewrite(f, c)
       PROVE  TarTells'
  <2>1. /\ UNCHANGED <<wire, member, plan, conn>> /\ changed' = changed \cup {f}
        /\ tar'.open = tar.open /\ tar'.at = tar.at /\ tar'.owed = tar.owed
        /\ tar.open # f => tar'.data = tar.data
    BY <1>12, WritersAndTar
  <2> QED
    BY <2>1 DEF TarTells, Begins, Blocks, Of, Had
<1>13. CASE Elsewhere \/ ScanTree
  BY <1>13, <1>2 DEF Elsewhere, ScanTree, treeVars, clientVars
<1> QED
  BY StreamSteps, <1>3, <1>4, <1>5, <1>6, <1>7, <1>8, <1>9, <1>10, <1>11, <1>12, <1>13

LEMMA OwedIsDueRead ==
  ASSUME SlotsInductive, StreamTypes, BulkStates, StreamTells, OwedIsDue,
         handler'[Bulk] = handler[Bulk], ReadHeader \/ ReadBlock
  PROVE  OwedIsDue'
<1>1. /\ UNCHANGED <<tar, conn>> /\ wire # <<>> /\ wire' = Tail(wire)
  BY ReadHeaderMoves, ReadBlockMoves DEF ReadHeader, ReadBlock, Received, agentVars
<1>2. Len(wire) \in Nat /\ Len(wire') = Len(wire) - 1 /\ Len(wire) >= 1
  BY <1>1, HeadAndTail
<1>3. tar.owed \in Nat
  BY DEF StreamTypes
<1>4. ASSUME handler[Bulk] = "serving", conn # "closed", NEW h \in 0 .. Len(wire'),
             Begins(h)', Blocks(h, Len(wire))', Of(h)' # NoFile
      PROVE  Due(h)' = (Len(wire') - h) + tar.owed
  <2>1. /\ h + 1 \in 0 .. Len(wire) /\ 0 \in 0 .. Len(wire) /\ Len(wire') + 1 = Len(wire)
        /\ Len(wire') \in 0 .. Len(wire') /\ Len(wire) - (h + 1) = Len(wire') - h
        /\ Len(wire) \in 1 .. Len(wire) /\ h \in 0 .. Len(wire')
    BY <1>2
  <2>2. Blocks(h + 1, Len(wire))
    BY <1>1, <1>4, <2>1, StreamShrinks
  <2>3. CASE h # 0
    <3>1. h \in 1 .. Len(wire')
      BY <1>2, <2>3
    <3>2. Begins(h + 1) /\ Of(h)' = Of(h + 1) /\ Due(h)' = Due(h + 1)
      BY <1>1, <1>4, <3>1, StreamShrinks
    <3> QED
      BY <1>4, <2>1, <2>2, <3>2 DEF OwedIsDue
  <2>4. CASE h = 0 /\ ReadHeader
    <3>1. Begins(1) /\ Of(0)' = Of(1) /\ Due(0)' = Due(1) /\ h + 1 = 1
      BY <2>4, ReadHeaderMoves
    <3>2. Due(1) = (Len(wire) - 1) + tar.owed
      BY <1>4, <2>1, <2>2, <2>4, <3>1 DEF OwedIsDue
    <3> QED
      BY <1>2, <1>3, <2>4, <3>1, <3>2
  <2>5. CASE h = 0 /\ ReadBlock
    <3>1. /\ Begins(0) /\ Of(0)' = Of(0) /\ Due(0)' = Due(0) - 1 /\ h + 1 = 1
          /\ wire[1].kind = "block"
      BY <2>5, ReadBlockMoves
    <3>2. Blocks(0, Len(wire))
      BY <1>1, <2>1, <2>2, <3>1, StreamShrinks
    <3>3. Due(0) = (Len(wire) - 0) + tar.owed
      BY <1>4, <2>1, <2>5, <3>1, <3>2 DEF OwedIsDue
    <3> QED
      BY <1>2, <1>3, <2>5, <3>1, <3>3
  <2> QED
    BY <2>3, <2>4, <2>5
<1> QED
  BY <1>1, <1>4 DEF OwedIsDue

LEMMA OwedIsDueStep ==
  ASSUME SlotsInductive, DataTypes, CountTypes, StreamTypes, BulkStates, RunStates,
         StreamTells, TarTells, OwedIsDue, [Next]_vars
  PROVE  OwedIsDue'
<1>1. CASE handler'[Bulk] # "serving"
  BY <1>1 DEF OwedIsDue
<1>2. CASE handler'[Bulk] = "serving" /\ handler[Bulk] \in {"none", "waiting"}
  <2>1. UNCHANGED <<wire, member>>
    BY <1>2, BulkNext DEF Elsewhere, AskSlot, clientVars
  <2>2. wire = <<>> /\ member = Idle
    BY <1>2 DEF BulkStates
  <2>3. \A h \in 0 .. Len(wire') : Of(h)' = NoFile
    BY <2>1, <2>2 DEF Of, Idle
  <2> QED
    BY <2>3 DEF OwedIsDue
<1>3. CASE handler'[Bulk] = "serving" /\ handler[Bulk] = "serving"
  <2>1. CASE UNCHANGED <<wire, member, conn>> /\ tar'.owed = tar.owed
    BY <1>3, <2>1 DEF OwedIsDue, Begins, Blocks, Of, Due
  <2>2. CASE SkipEntry \/ OpenFails \/ EndEntry
    <3>1. UNCHANGED <<wire, member, conn>> /\ tar'.owed = tar.owed
      BY <2>2 DEF SkipEntry, OpenFails, EndEntry, Streaming, Handling, StreamTypes, clientVars
    <3> QED
      BY <2>1, <3>1
  <2>3. CASE OpenEntry
    <3>1. PICK x \in Item :
            /\ x.kind = "header" /\ x.size = scan[Entry] /\ wire' = Append(wire, x)
            /\ UNCHANGED member /\ tar'.owed = scan[Entry]
      BY <2>3, OpenEntryIs
    <3>2. /\ Len(wire) \in Nat /\ Len(wire') = Len(wire) + 1 /\ wire'[Len(wire) + 1] = x
      BY <3>1, OneMore
    <3>3. scan[Entry] \in Nat
      BY <3>1 DEF Item
    <3>4. ASSUME NEW h \in 0 .. Len(wire'), Blocks(h, Len(wire))'
          PROVE  h = Len(wire')
      <4>1. CASE h \in 0 .. Len(wire)
        BY <3>1, <3>4, <4>1, StreamGrows
      <4> QED
        BY <3>2, <4>1
    <3>5. Due(Len(wire))' = x.size
      BY <3>2 DEF Due
    <3>6. Due(Len(wire))' = (Len(wire') - Len(wire')) + tar'.owed
      BY <3>1, <3>2, <3>3, <3>5
    <3> QED
      BY <3>4, <3>6 DEF OwedIsDue
  <2>4. CASE CopyBlock
    <3>1. PICK x \in Item :
            /\ x.kind = "block" /\ wire' = Append(wire, x)
            /\ UNCHANGED <<member, conn>>
            /\ tar.owed > 0 /\ tar'.owed = tar.owed - 1
      BY <2>4, CopyBlockIs
    <3>2. /\ Len(wire) \in Nat /\ Len(wire') = Len(wire) + 1 /\ wire'[Len(wire) + 1] = x
      BY <3>1, OneMore
    <3>3. tar.owed \in Nat
      BY DEF StreamTypes
    <3>4. ASSUME NEW h \in 0 .. Len(wire'), Begins(h)', Blocks(h, Len(wire))'
          PROVE  Due(h)' = (Len(wire') - h) + tar'.owed
      <4>1. CASE h = Len(wire')
        <5>1. Begins(Len(wire))'
          BY <3>4, <4>1
        <5> QED
          BY <3>1, <5>1, StreamGrows
      <4>2. CASE h # Len(wire')
        <5>1. h \in 0 .. Len(wire)
          BY <3>2, <4>2
        <5>2. Begins(h) /\ Blocks(h, Len(wire)) /\ Due(h)' = Due(h)
          BY <3>1, <3>4, <5>1, StreamGrows
        <5>3. Due(h) = (Len(wire) - h) + tar.owed
          BY <2>4, <5>1, <5>2, CopiedBlock
        <5> QED
          BY <3>1, <3>2, <3>3, <5>1, <5>2, <5>3
      <4> QED
        BY <4>1, <4>2
    <3> QED
      BY <3>4 DEF OwedIsDue
  <2>5. CASE Return \/ CopyFails
    BY <1>3, <2>5, BulkReleases DEF Return, CopyFails, Returned
  <2>6. CASE OpenArchive
    BY <1>3, <2>6 DEF OpenArchive, BulkStates, RunStates
  <2>7. CASE Answered
    <3>1. UNCHANGED <<tar, wire, member>> /\ conn # "closed"
      BY <2>7 DEF Answered, agentVars, clientVars
    <3> QED
      BY <1>3, <3>1 DEF OwedIsDue, Begins, Blocks, Of, Due
  <2>8. CASE AnsweredBusy \/ ArchiveBreaks \/ ReadEnd
    <3>1. conn' = "closed"
      BY <2>8 DEF AnsweredBusy, ArchiveBreaks, ReadEnd, ToPool
    <3> QED
      BY <3>1 DEF OwedIsDue
  <2>9. CASE ReadHeader \/ ReadBlock
    BY <1>3, <2>9, OwedIsDueRead
  <2>10. CASE DiskFails
    <3>1. /\ UNCHANGED <<tar, wire, conn>>
          /\ member'.file = member.file /\ member'.need = member.need
      BY <2>10 DEF DiskFails, StreamTypes, agentVars
    <3> QED
      BY <1>3, <3>1 DEF OwedIsDue, Begins, Blocks, Of, Due
  <2>11. CASE EndMember
    <3>1. /\ UNCHANGED <<tar, wire, conn>> /\ member' = Idle
      BY <2>11 DEF EndMember, agentVars
    <3>2. Of(0)' = NoFile /\ \A h : h # 0 => Of(h)' = Of(h) /\ Due(h)' = Due(h)
      BY <3>1 DEF Of, Due, Idle
    <3>3. \A h : (Begins(h)' <=> Begins(h)) /\ (Blocks(h, Len(wire))' <=> Blocks(h, Len(wire)))
      BY <3>1 DEF Begins, Blocks
    <3> QED
      BY <1>3, <3>1, <3>2, <3>3 DEF OwedIsDue
  <2>12. CASE \E f \in Files : Remove(f) \/ \E c \in Contents : Rewrite(f, c)
    <3>1. UNCHANGED <<wire, member, conn>> /\ tar'.owed = tar.owed
      BY <2>12, WritersAndTar
    <3> QED
      BY <2>1, <3>1
  <2>13. CASE Elsewhere \/ ScanTree
    BY <2>1, <2>13 DEF Elsewhere, ScanTree, clientVars
  <2> QED
    BY StreamSteps, <2>2, <2>3, <2>4, <2>5, <2>6, <2>7, <2>8, <2>9, <2>10, <2>11, <2>12, <2>13
<1> QED
  BY BulkNext, <1>1, <1>2, <1>3

(***************************************************************************)
(* What is installed.                                                      *)
(***************************************************************************)
LEMMA InstallSteps ==
  ASSUME [Next]_vars
  PROVE  \/ UNCHANGED <<local, row>>
         \/ /\ EndMember /\ member.keep /\ Fits(member.file, member.got)
            /\ Install(member.file, member.got)
         \/ \E f \in Files : Arrives(f)
<1> USE DEF clientVars
<1>1. CASE ScanTree \/ SkipEntry \/ OpenFails \/ OpenEntry \/ CopyBlock \/ EndEntry \/ Return
      \/ CopyFails
  BY <1>1, HandlerFrame
<1>2. CASE OpenArchive \/ Answered \/ AnsweredBusy \/ ArchiveBreaks
  BY <1>2 DEF OpenArchive, Answered, AnsweredBusy, ArchiveBreaks, ToPool
<1>3. CASE ReadHeader \/ ReadBlock \/ ReadEnd \/ DiskFails
  BY <1>3 DEF ReadHeader, ReadBlock, ReadEnd, DiskFails, Received, ToPool
<1>4. CASE EndMember
  BY <1>4 DEF EndMember
<1>5. CASE \E f \in Files : Remove(f) \/ \E c \in Contents : Rewrite(f, c)
  BY <1>5 DEF Remove, Rewrite, Edited
<1>6. CASE AskSlot \/ RefuseArchive \/ Others \/ EndPool \/ UNCHANGED vars
  BY <1>6 DEF AskSlot, RefuseArchive, Others, EndPool, vars
<1>7. CASE \E r \in Rivals : RivalAsks(r) \/ RivalReads(r)
  BY <1>7 DEF RivalAsks, RivalReads
<1>8. ASSUME NEW f \in Files, Fetch(f) \/ Misfits(f) \/ Denied(f) \/ Refused(f) \/ AttemptBreaks(f)
      PROVE  UNCHANGED <<local, row>>
  BY <1>8 DEF Fetch, Misfits, Denied, Refused, AttemptBreaks
<1> QED
  BY StepCases, <1>1, <1>2, <1>3, <1>4, <1>5, <1>6, <1>7, <1>8

\* A member that fits its entry is what the plan describes, unless the file changed.
LEMMA GotIsPlanned ==
  ASSUME DataTypes, StreamTypes, GotTells, member.file \in DOMAIN plan,
         Fits(member.file, member.got)
  PROVE  \/ member.got = plan[member.file]
         \/ member.file \in changed \ digests /\ Len(member.got) = Len(plan[member.file])
<1> DEFINE f == member.file
<1>1. Len(member.got) = Len(plan[f]) /\ (f \in digests => member.got = plan[f])
  BY DEF Fits
<1>2. CASE f \in digests \/ f \in changed
  BY <1>1, <1>2
<1>3. CASE f \notin digests /\ f \notin changed
  <2>1. \A k \in 1 .. Len(member.got) : member.got[k] = plan[f][k]
    BY <1>3 DEF GotTells, Tells
  <2>2. plan[f] \in Seq(Nat) /\ member.got \in Seq(Nat)
    BY PartialIs, ArchiveAssumption DEF DataTypes, StreamTypes
  <2>3. member.got = plan[f]
    BY <1>1, <2>1, <2>2, SeqEqual
  <2> QED
    BY <2>3
<1> QED
  BY <1>2, <1>3

LEMMA InstallKeeps ==
  ASSUME RowsMatchFiles, InstalledAsPlanned, RowsArePlanned,
         NEW f \in DOMAIN plan, NEW c, Install(f, c), Fits(f, c),
         c = plan[f] \/ (f \in changed \ digests /\ Len(c) = Len(plan[f])),
         UNCHANGED <<plan, digests, changed>>
  PROVE  RowsMatchFiles' /\ InstalledAsPlanned' /\ RowsArePlanned'
<1>1. /\ DOMAIN local' = DOMAIN local \cup {f}
      /\ \A g \in DOMAIN local' : local'[g] = IF g = f THEN c ELSE local[g]
      /\ DOMAIN row' = DOMAIN row \cup {f}
      /\ \A g \in DOMAIN row' :
           row'[g] = IF g # f THEN row[g] ELSE IF f \in digests THEN plan[f] ELSE c
  BY DEF Install
<1>2. f \in digests => c = plan[f]
  BY DEF Fits
<1>3. RowsMatchFiles'
  BY <1>1, <1>2 DEF RowsMatchFiles
<1>4. InstalledAsPlanned'
  BY <1>1 DEF InstalledAsPlanned
<1>5. RowsArePlanned'
  BY <1>1 DEF RowsArePlanned
<1> QED
  BY <1>3, <1>4, <1>5

LEMMA InstalledStep ==
  ASSUME SlotsInductive, DataTypes, CountTypes, StreamTypes, BulkStates, RunStates, PlanHolds,
         GotTells, KeptIsWanted, RowsArePlanned, RowsMatchFiles, InstalledAsPlanned,
         [Next]_vars
  PROVE  RowsMatchFiles' /\ InstalledAsPlanned' /\ RowsArePlanned'
<1>1. CASE UNCHANGED <<local, row>>
  <2>1. CASE OpenArchive
    <3>1. local' = <<>> /\ row' = <<>>
      BY <1>1, <2>1 DEF OpenArchive, RunStates
    <3> QED
      BY <3>1 DEF RowsMatchFiles, InstalledAsPlanned, RowsArePlanned
  <2>2. CASE UNCHANGED <<plan, digests>> /\ changed \subseteq changed'
    BY <1>1, <2>2 DEF RowsMatchFiles, InstalledAsPlanned, RowsArePlanned
  <2>3. ASSUME NEW f \in Files, Remove(f) \/ \E c \in Contents : Rewrite(f, c)
        PROVE  UNCHANGED <<plan, digests>> /\ changed \subseteq changed'
    BY <2>3, WritersAndTar
  <2> QED
    BY PlanSteps, <2>1, <2>2, <2>3
<1>2. CASE /\ EndMember /\ member.keep /\ Fits(member.file, member.got)
           /\ Install(member.file, member.got)
  <2>1. member.file \in DOMAIN plan /\ UNCHANGED <<plan, digests, changed>>
    BY <1>2 DEF EndMember, KeptIsWanted, treeVars
  <2> QED
    BY <1>2, <2>1, GotIsPlanned, InstallKeeps
<1>3. ASSUME NEW f \in Files, Arrives(f)
      PROVE  RowsMatchFiles' /\ InstalledAsPlanned' /\ RowsArePlanned'
  <2>1. /\ pool[f] = "asked" /\ f \in DOMAIN tree /\ Fits(f, tree[f]) /\ Install(f, tree[f])
        /\ UNCHANGED <<plan, digests, changed>>
    BY <1>3 DEF Arrives, Served, treeVars
  <2>2. f \in DOMAIN plan /\ phase # "start"
    BY <2>1 DEF RunStates
  <2>3. tree[f] = plan[f] \/ (f \in changed \ digests /\ Len(tree[f]) = Len(plan[f]))
    BY <2>1, <2>2 DEF PlanHolds, Fits
  <2> QED
    BY <2>1, <2>2, <2>3, InstallKeeps
<1> QED
  BY InstallSteps, <1>1, <1>2, <1>3

\* The pool moves one file at a time, and a file that failed stays failed.
LEMMA PoolSteps ==
  ASSUME [Next]_vars
  PROVE  \/ UNCHANGED poolVars
         \/ \E f \in Files :
              Fetch(f) \/ Arrives(f) \/ Misfits(f) \/ Denied(f) \/ Refused(f) \/ AttemptBreaks(f)
<1>1. CASE ScanTree \/ SkipEntry \/ OpenFails \/ OpenEntry \/ CopyBlock \/ EndEntry \/ Return
      \/ CopyFails
  BY <1>1, HandlerFrame
<1>2. CASE OpenArchive \/ Answered \/ AnsweredBusy \/ ArchiveBreaks
  BY <1>2 DEF OpenArchive, Answered, AnsweredBusy, ArchiveBreaks, ToPool
<1>3. CASE ReadHeader \/ ReadBlock \/ ReadEnd \/ DiskFails \/ EndMember
  BY <1>3 DEF ReadHeader, ReadBlock, ReadEnd, DiskFails, EndMember, Received, ToPool
<1>4. CASE \E f \in Files : Remove(f) \/ \E c \in Contents : Rewrite(f, c)
  BY <1>4 DEF Remove, Rewrite, Edited
<1>5. CASE AskSlot \/ RefuseArchive \/ Others \/ EndPool \/ UNCHANGED vars
  BY <1>5 DEF AskSlot, RefuseArchive, Others, EndPool, vars
<1>6. CASE \E r \in Rivals : RivalAsks(r) \/ RivalReads(r)
  BY <1>6 DEF RivalAsks, RivalReads
<1> QED
  BY StepCases, <1>1, <1>2, <1>3, <1>4, <1>5, <1>6

LEMMA PoolMoves ==
  ASSUME CountTypes, NEW f \in Files,
         Fetch(f) \/ Arrives(f) \/ Misfits(f) \/ Denied(f) \/ Refused(f) \/ AttemptBreaks(f)
  PROVE  /\ pool[f] # "failed" /\ \A g \in Files \ {f} : pool'[g] = pool[g]
         /\ pool'[f] = "failed" => Misfits(f) \/ trouble'
<1>1. pool[f] # "failed"
  BY DEF Fetch, Arrives, Misfits, Denied, Served, Refused, AttemptBreaks
<1>2. ASSUME AttemptFails(f) PROVE \A g \in Files \ {f} : pool'[g] = pool[g]
  BY <1>2 DEF AttemptFails, CountTypes
<1>3. \A g \in Files \ {f} : pool'[g] = pool[g]
  <2>1. CASE Fetch(f) \/ Arrives(f) \/ Denied(f)
    BY <2>1 DEF Fetch, Arrives, Denied, CountTypes
  <2>2. CASE Misfits(f)
    <3>1. AttemptFails(f) \/ pool' = [pool EXCEPT ![f] = "failed"]
      BY <2>2 DEF Misfits
    <3> QED
      BY <1>2, <3>1 DEF CountTypes
  <2> QED
    BY <1>2, <2>1, <2>2 DEF Refused, AttemptBreaks
<1>4. CASE Fetch(f) \/ Arrives(f)
  <2>1. pool'[f] # "failed"
    BY <1>4 DEF Fetch, Arrives, CountTypes
  <2> QED
    BY <1>1, <1>3, <2>1
<1>5. CASE Denied(f) \/ Refused(f) \/ AttemptBreaks(f)
  <2>1. trouble'
    BY <1>5, Zenon DEF Denied, Refused, AttemptBreaks
  <2> QED
    BY <1>1, <1>3, <2>1
<1> QED
  BY <1>1, <1>3, <1>4, <1>5

LEMMA EndSteps ==
  ASSUME phase' = "end", [Next]_vars
  PROVE  phase = "end" \/ EndPool
<1> USE DEF clientVars
<1>1. CASE ScanTree \/ SkipEntry \/ OpenFails \/ OpenEntry \/ CopyBlock \/ EndEntry \/ Return
      \/ CopyFails
  BY <1>1, HandlerFrame
<1>2. CASE OpenArchive \/ Answered \/ AnsweredBusy \/ ArchiveBreaks
  BY <1>2 DEF OpenArchive, Answered, AnsweredBusy, ArchiveBreaks, ToPool
<1>3. CASE ReadHeader \/ ReadBlock \/ ReadEnd \/ DiskFails \/ EndMember
  BY <1>3 DEF ReadHeader, ReadBlock, ReadEnd, DiskFails, EndMember, Received, ToPool
<1>4. CASE \E f \in Files : Remove(f) \/ \E c \in Contents : Rewrite(f, c)
  BY <1>4 DEF Remove, Rewrite, Edited
<1>5. CASE AskSlot \/ RefuseArchive \/ Others \/ EndPool \/ UNCHANGED vars
  BY <1>5 DEF AskSlot, RefuseArchive, Others, vars
<1>6. CASE \E r \in Rivals : RivalAsks(r) \/ RivalReads(r)
  BY <1>6 DEF RivalAsks, RivalReads
<1>7. ASSUME NEW f \in Files,
             Fetch(f) \/ Arrives(f) \/ Misfits(f) \/ Denied(f) \/ Refused(f) \/ AttemptBreaks(f)
      PROVE  phase = "end"
  BY <1>7 DEF Fetch, Arrives, Misfits, Denied, Served, Refused, AttemptBreaks
<1> QED
  BY StepCases, <1>1, <1>2, <1>3, <1>4, <1>5, <1>6, <1>7

LEMMA NothingForgottenStep ==
  ASSUME DataTypes, CountTypes, StreamTypes, RunStates, PlanHolds, NothingForgotten,
         [Next]_vars
  PROVE  NothingForgotten'
<1>1. ASSUME NEW f \in Files, pool[f] = "failed"
      PROVE  pool'[f] = "failed"
  <2>1. CASE UNCHANGED poolVars
    BY <1>1, <2>1 DEF poolVars
  <2>2. ASSUME NEW g \in Files,
               Fetch(g) \/ Arrives(g) \/ Misfits(g) \/ Denied(g) \/ Refused(g) \/ AttemptBreaks(g)
        PROVE  pool'[f] = "failed"
    BY <1>1, <2>2, PoolMoves
  <2> QED
    BY PoolSteps, <2>1, <2>2
<1>2. DOMAIN row \subseteq DOMAIN row'
  BY InstallSteps DEF Install, Arrives
<1>3. ASSUME phase' = "end", NEW f \in DOMAIN plan'
      PROVE  f \in DOMAIN row' \/ pool'[f] = "failed"
  <2>1. CASE EndPool
    BY <1>3, <2>1 DEF EndPool, Left, poolVars
  <2>2. CASE phase = "end"
    <3>1. UNCHANGED plan
      <4>1. ~ OpenArchive
        BY <2>2 DEF OpenArchive
      <4>2. ASSUME NEW g \in Files, Remove(g) \/ \E c \in Contents : Rewrite(g, c)
            PROVE  UNCHANGED plan
        BY <4>2, WritersAndTar
      <4> QED
        BY <4>1, <4>2, PlanSteps
    <3>2. f \in Files
      BY <3>1, PartialIs DEF DataTypes
    <3>3. f \in DOMAIN row \/ pool[f] = "failed"
      BY <1>3, <2>2, <3>1 DEF NothingForgotten
    <3> QED
      BY <1>1, <1>2, <3>2, <3>3
  <2> QED
    BY <1>3, <2>1, <2>2, EndSteps
<1>4. ASSUME NEW f \in Files, pool'[f] = "failed"
      PROVE  f \in changed' \/ trouble'
  <2>1. CASE pool[f] = "failed"
    <3>1. f \in changed \/ trouble
      BY <2>1 DEF NothingForgotten
    <3>2. ~ OpenArchive
      BY <2>1 DEF OpenArchive, RunStates
    <3>3. changed \subseteq changed'
      <4>1. ASSUME NEW g \in Files, Remove(g) \/ \E c \in Contents : Rewrite(g, c)
            PROVE  changed \subseteq changed'
        BY <4>1, WritersAndTar
      <4> QED
        BY <3>2, <4>1, PlanSteps
    <3> QED
      BY <3>1, <3>3, TroubleStays
  <2>2. CASE pool[f] # "failed"
    <3>1. PICK g \in Files :
            Fetch(g) \/ Arrives(g) \/ Misfits(g) \/ Denied(g) \/ Refused(g) \/ AttemptBreaks(g)
      BY <1>4, <2>2, PoolSteps DEF poolVars
    <3>2. g = f /\ (Misfits(f) \/ trouble')
      BY <1>4, <2>2, <3>1, PoolMoves
    <3>3. CASE Misfits(f)
      <4>1. /\ pool[f] = "asked" /\ UNCHANGED changed
            /\ f \notin DOMAIN tree \/ ~ Fits(f, tree[f])
        BY <3>3 DEF Misfits, Denied, Served, treeVars
      <4>2. f \in DOMAIN plan /\ phase # "start"
        BY <4>1 DEF RunStates
      <4> QED
        BY <4>1, <4>2 DEF PlanHolds, Fits
    <3> QED
      BY <3>2, <3>3
  <2> QED
    BY <2>1, <2>2
<1> QED
  BY <1>3, <1>4 DEF NothingForgotten

LEMMA UnopenedGrows ==
  ASSUME [Next]_vars
  PROVE  \/ UNCHANGED unopened
         \/ unopened' = unopened \cup {Entry} /\ Entry \in DOMAIN tree
<1>1. CASE Elsewhere \/ ScanTree \/ SkipEntry \/ OpenEntry \/ CopyBlock \/ EndEntry \/ Return
  BY <1>1 DEF Elsewhere, ScanTree, SkipEntry, OpenEntry, CopyBlock, EndEntry, Return, Writing,
              Streaming
<1>2. CASE OpenArchive \/ Answered \/ AnsweredBusy \/ ArchiveBreaks
  BY <1>2 DEF OpenArchive, Answered, AnsweredBusy, ArchiveBreaks, ToPool, agentVars
<1>3. CASE ReadHeader \/ ReadBlock \/ ReadEnd \/ DiskFails \/ EndMember
  BY <1>3 DEF ReadHeader, ReadBlock, ReadEnd, DiskFails, EndMember, Received, ToPool, agentVars
<1>4. CASE \E f \in Files : Remove(f) \/ \E c \in Contents : Rewrite(f, c)
  BY <1>4 DEF Remove, Rewrite, Edited
<1>5. CASE OpenFails \/ CopyFails
  BY <1>5 DEF OpenFails, CopyFails
<1> QED
  BY StreamSteps, <1>1, <1>2, <1>3, <1>4, <1>5

LEMMA UnopenedStep ==
  ASSUME DataTypes, UnopenedAreFiles, [Next]_vars
  PROVE  UnopenedAreFiles'
<1>1. DOMAIN tree \subseteq Files
  BY PartialIs DEF DataTypes
<1> QED
  BY <1>1, UnopenedGrows DEF UnopenedAreFiles

LEMMA ArchiveStart == Init => ArchiveInductive
<1> SUFFICES ASSUME Init PROVE ArchiveInductive
  OBVIOUS
<1> USE Numbers DEF Init
<1>1. SlotsInductive
  BY SlotsStart
<1>2. DataTypes
  <2>1. Partial(tree, Contents)
    BY PartialIs, ArchiveAssumption
  <2>2. \A S : Partial(<<>>, S)
    BY PartialIs
  <2> QED
    BY <2>1, <2>2, Zenon DEF DataTypes
<1>3. CountTypes
  <2>1. pool \in [Files -> {"idle", "asked", "retry", "ok", "failed"}]
    OBVIOUS
  <2>2. tries \in [Files -> 0 .. Attempts]
    OBVIOUS
  <2>3. edits \in 0 .. MaxEdits /\ faults \in 0 .. MaxFaults
    OBVIOUS
  <2>4. /\ phase \in {"start", "bulk", "pool", "end"}
        /\ conn \in {"idle", "asked", "body", "closed"} /\ trouble \in BOOLEAN
    OBVIOUS
  <2> QED
    BY <2>1, <2>2, <2>3, <2>4, Zenon DEF CountTypes
<1>4. StreamTypes
  <2>1. 1 \in 1 .. Len(Order) + 1
    BY OrderIs
  <2> QED
    BY <2>1 DEF StreamTypes, Idle
<1>5. handler[Bulk] = "none"
  BY RequestNames DEF SlotsInit
<1>6. BulkStates /\ TarPlace
  BY <1>5 DEF BulkStates, TarPlace
<1>7. RunStates
  BY DEF RunStates
<1>8. PlanHolds
  BY DEF PlanHolds
<1>9. StreamTells /\ GotTells
  BY DEF StreamTells, GotTells, Idle
<1>10. TarTells
  BY NamesAssumption DEF TarTells
<1>11. OwedIsDue
  BY <1>5 DEF OwedIsDue
<1>12. KeptIsWanted /\ RowsArePlanned /\ RowsMatchFiles /\ InstalledAsPlanned
  BY DEF KeptIsWanted, Idle, RowsArePlanned, RowsMatchFiles, InstalledAsPlanned
<1>13. NothingForgotten /\ UnopenedAreFiles
  BY DEF NothingForgotten, UnopenedAreFiles
<1> QED
  BY <1>1, <1>2, <1>3, <1>4, <1>6, <1>7, <1>8, <1>9, <1>10, <1>11, <1>12, <1>13
     DEF ArchiveInductive

LEMMA ArchiveStep == ArchiveInductive /\ [Next]_vars => ArchiveInductive'
<1> SUFFICES ASSUME ArchiveInductive, [Next]_vars PROVE ArchiveInductive'
  OBVIOUS
<1>1. /\ SlotsInductive /\ DataTypes /\ CountTypes /\ StreamTypes
      /\ BulkStates /\ TarPlace /\ RunStates
      /\ PlanHolds /\ StreamTells /\ GotTells /\ TarTells /\ OwedIsDue
      /\ KeptIsWanted /\ RowsArePlanned /\ UnopenedAreFiles /\ RowsMatchFiles
      /\ InstalledAsPlanned /\ NothingForgotten
  BY DEF ArchiveInductive
<1>2. SlotsInductive' /\ CountTypes'
  BY <1>1, SlotsStep, CountTypesStep
<1>3. DataTypes' /\ StreamTypes'
  BY <1>1, DataTypesStep, StreamTypesStep
<1>4. BulkStates' /\ TarPlace' /\ RunStates'
  BY <1>1, BulkStatesStep, TarPlaceStep, RunStatesStep
<1>5. PlanHolds' /\ KeptIsWanted'
  BY <1>1, <1>4, PlanHoldsStep, KeptIsWantedStep
<1>6. StreamTells' /\ GotTells'
  BY <1>1, StreamTellsStep
<1>7. TarTells' /\ OwedIsDue'
  BY <1>1, TarTellsStep, OwedIsDueStep
<1>8. RowsMatchFiles' /\ InstalledAsPlanned' /\ RowsArePlanned'
  BY <1>1, InstalledStep
<1>9. NothingForgotten' /\ UnopenedAreFiles'
  BY <1>1, NothingForgottenStep, UnopenedStep
<1> QED
  BY <1>2, <1>3, <1>4, <1>5, <1>6, <1>7, <1>8, <1>9 DEF ArchiveInductive

LEMMA ArchiveAlways == Spec => []ArchiveInductive
  BY ArchiveStart, ArchiveStep, PTL DEF Spec

\* The tokens in the channel are the handlers at work, whoever waits is in its
\* queue, and nobody waits while a slot is free (server.go acquire and the
\* deferred release of handleFile and handleArchive).
THEOREM ArchiveSlotsExact == Spec => []SlotsExact
<1>1. ArchiveInductive => SlotsExact
  BY DEF ArchiveInductive, SlotsInductive, SlotsExact, Serving, Waiting, Queue
<1> QED
  BY <1>1, ArchiveAlways, PTL

\* Journal rows are true of the files, by whichever way these came (sync.go
\* download, writeFromArchive), and everything keeps its type.
THEOREM ArchiveRowsTrue == Spec => []ArchiveInv
<1>1. ArchiveInductive => TypeOK
  BY DEF ArchiveInductive, SlotsInductive, DataTypes, CountTypes, StreamTypes, BulkStates,
         UnopenedAreFiles, TypeOK
<1>2. ArchiveInductive => ArchiveInv
  BY <1>1 DEF ArchiveInductive, ArchiveInv
<1> QED
  BY <1>2, ArchiveAlways, PTL

\* What is installed is what the plan describes, unless its entry had no digest and
\* the file changed to one of the same size (sync.go writeFromArchive).
THEOREM ArchiveInstallsPlan == Spec => []InstalledAsPlanned
<1>1. ArchiveInductive => InstalledAsPlanned
  BY DEF ArchiveInductive
<1> QED
  BY <1>1, ArchiveAlways, PTL

\* Every planned file is in place or failed when the run ends, and it fails only if
\* it changed or something went wrong (sync.go bulkTransfer, downloadAll).
THEOREM ArchiveForgetsNothing == Spec => []NothingForgotten
<1>1. ArchiveInductive => NothingForgotten
  BY DEF ArchiveInductive
<1> QED
  BY <1>1, ArchiveAlways, PTL


(***************************************************************************)
(* Quiet runs.                                                             *)
(***************************************************************************)
LEMMA ReturnIs ==
  ASSUME SlotsInductive, StreamTypes, BulkStates, RunStates, Return
  PROVE  /\ UNCHANGED <<tree, changed, plan, digests, member, scan, conn, phase, row, trouble>>
         /\ handler[Bulk] = "serving" /\ handler'[Bulk] = "over" /\ ReturnDue
         /\ tar'.next = tar.next /\ tar'.open = NoFile /\ tar'.owed = tar.owed
         /\ \/ conn = "closed" /\ UNCHANGED wire /\ wire = <<>>
            \/ /\ conn # "closed"
               /\ \E x \in Item : x.kind = "end" /\ wire' = Append(wire, x)
<1>1. /\ UNCHANGED <<tree, changed, plan, digests, member, scan, conn, phase, row, trouble>>
      /\ ReturnDue /\ tar' = [tar EXCEPT !.open = NoFile]
      /\ wire' = IF conn = "closed" THEN <<>> ELSE Append(wire, [kind |-> "end"])
  BY DEF Return, Returned, Streaming, Handling, ClientGone, treeVars, clientVars
<1>2. handler[Bulk] = "serving" /\ handler'[Bulk] = "over"
  BY BulkReleases DEF Return, Returned
<1>3. tar'.next = tar.next /\ tar'.open = NoFile /\ tar'.owed = tar.owed
  BY <1>1 DEF StreamTypes
<1>4. [kind |-> "end"] \in Item /\ [kind |-> "end"].kind = "end"
  BY DEF Item
<1> QED
  BY <1>1, <1>2, <1>3, <1>4 DEF RunStates

LEMMA CopyFailsIs ==
  ASSUME SlotsInductive, StreamTypes, BulkStates, RunStates, CopyFails
  PROVE  /\ UNCHANGED <<tree, changed, plan, digests, member, scan, conn, phase, row>>
         /\ handler[Bulk] = "serving" /\ handler'[Bulk] = "over" /\ trouble'
         /\ tar'.next = tar.next /\ tar'.open = NoFile /\ tar'.owed = tar.owed
         /\ \/ conn = "closed" /\ UNCHANGED wire /\ wire = <<>>
            \/ /\ conn # "closed"
               /\ \E x \in Item : x.kind = "end" /\ wire' = Append(wire, x)
<1>1. /\ UNCHANGED <<tree, changed, plan, digests, member, scan, conn, phase, row>>
      /\ trouble' /\ tar' = [tar EXCEPT !.open = NoFile]
      /\ wire' = IF conn = "closed" THEN <<>> ELSE Append(wire, [kind |-> "end"])
  BY DEF CopyFails, Returned, Handling, ClientGone, treeVars, clientVars
<1>2. handler[Bulk] = "serving" /\ handler'[Bulk] = "over"
  BY BulkReleases DEF CopyFails, Returned
<1>3. tar'.next = tar.next /\ tar'.open = NoFile /\ tar'.owed = tar.owed
  BY <1>1 DEF StreamTypes
<1>4. [kind |-> "end"] \in Item /\ [kind |-> "end"].kind = "end"
  BY DEF Item
<1> QED
  BY <1>1, <1>2, <1>3, <1>4 DEF RunStates

LEMMA PromisesAreScannedStep ==
  ASSUME SlotsInductive, DataTypes, CountTypes, StreamTypes, BulkStates, RunStates,
         StreamTells, PromisesAreScanned, [Next]_vars
  PROVE  PromisesAreScanned'
<1>0. Len(wire) \in Nat /\ NoFile \notin Files
  BY NamesAssumption DEF StreamTypes
<1>1. CASE UNCHANGED <<wire, member, scan>>
  BY <1>1 DEF PromisesAreScanned, Begins, Of, Had, Due
<1>2. CASE wire' = <<>> /\ member' = Idle
  <2>1. \A h \in 0 .. Len(wire') : Of(h)' = NoFile
    BY <1>2 DEF Of, Idle
  <2> QED
    BY <2>1 DEF PromisesAreScanned
<1>3. CASE Elsewhere \/ SkipEntry \/ OpenFails \/ EndEntry \/ OpenArchive \/ Answered
  BY <1>1, <1>3
     DEF Elsewhere, SkipEntry, OpenFails, EndEntry, OpenArchive, Answered, Streaming, Handling,
         agentVars, clientVars
<1>4. CASE \E f \in Files : Remove(f) \/ \E c \in Contents : Rewrite(f, c)
  BY <1>1, <1>4, WritersAndTar
<1>5. CASE ScanTree
  <2>1. scan = NoFile /\ UNCHANGED <<wire, member>>
    BY <1>5 DEF ScanTree, clientVars
  <2>2. wire = <<>> /\ member = Idle
    BY <2>1 DEF BulkStates
  <2> QED
    BY <1>2, <2>1, <2>2
<1>6. CASE AnsweredBusy \/ ArchiveBreaks \/ ReadEnd
  BY <1>2, <1>6 DEF AnsweredBusy, ArchiveBreaks, ReadEnd, ToPool
\* The handler's stream grows.
<1>7. ASSUME NEW x \in Item, wire' = Append(wire, x), UNCHANGED <<member, scan>>,
             x.kind = "header" => x.file \in DOMAIN scan /\ x.size = scan[x.file]
      PROVE  PromisesAreScanned'
  <2>1. /\ Len(wire') = Len(wire) + 1 /\ wire'[Len(wire) + 1] = x
    BY <1>7, OneMore
  <2>2. ASSUME NEW h \in 0 .. Len(wire'), Begins(h)', Of(h)' # NoFile
        PROVE  Of(h)' \in DOMAIN scan' /\ Had(h)' + Due(h)' = scan'[Of(h)']
    <3>1. CASE h \in 0 .. Len(wire)
      <4>1. /\ Begins(h) /\ Of(h)' = Of(h) /\ Had(h)' = Had(h) /\ Due(h)' = Due(h)
        BY <1>7, <2>2, <3>1, StreamGrows
      <4> QED
        BY <1>7, <2>2, <3>1, <4>1 DEF PromisesAreScanned
    <3>2. CASE h = Len(wire')
      <4>1. Begins(Len(wire))'
        BY <2>2, <3>2
      <4>2. x.kind = "header"
        BY <1>7, <4>1, StreamGrows
      <4>3. h # 0 /\ wire'[h] = x
        BY <1>0, <2>1, <3>2
      <4>4. Of(h)' = x.file /\ Had(h)' = 0 /\ Due(h)' = x.size
        BY <4>3 DEF Of, Had, Due
      <4>5. x.size \in Nat
        BY <4>2 DEF Item
      <4> QED
        BY <1>7, <4>2, <4>4, <4>5
    <3> QED
      BY <1>0, <2>1, <3>1, <3>2
  <2> QED
    BY <2>2 DEF PromisesAreScanned
<1>8. CASE OpenEntry
  <2>1. \E x \in Item :
          /\ x.file = Entry /\ x.size = scan[Entry] /\ Entry \in DOMAIN scan
          /\ wire' = Append(wire, x) /\ UNCHANGED <<member, scan>>
    BY <1>8, OpenEntryIs
  <2> QED
    BY <1>7, <2>1
<1>9. CASE CopyBlock
  <2>1. \E x \in Item :
          x.kind = "block" /\ wire' = Append(wire, x) /\ UNCHANGED <<member, scan>>
    BY <1>9, CopyBlockIs
  <2> QED
    BY <1>7, <2>1
<1>10. CASE Return \/ CopyFails
  <2>1. UNCHANGED <<wire, member, scan>>
        \/ \E x \in Item :
             x.kind = "end" /\ wire' = Append(wire, x) /\ UNCHANGED <<member, scan>>
    BY <1>10, ReturnIs, CopyFailsIs
  <2> QED
    BY <1>1, <1>7, <2>1
\* The client reads it.
<1>11. CASE ReadHeader \/ ReadBlock
  <2>1. UNCHANGED scan /\ wire # <<>> /\ wire' = Tail(wire)
    BY <1>11, ReadHeaderMoves, ReadBlockMoves DEF ReadHeader, ReadBlock, Received, agentVars
  <2>2. Len(wire') = Len(wire) - 1 /\ 1 \in 0 .. Len(wire) /\ 0 \in 0 .. Len(wire)
    BY <2>1, HeadAndTail
  <2>3. ASSUME NEW h \in 0 .. Len(wire'), Begins(h)', Of(h)' # NoFile
        PROVE  Of(h)' \in DOMAIN scan' /\ Had(h)' + Due(h)' = scan'[Of(h)']
    <3>1. CASE h # 0
      <4>1. h \in 1 .. Len(wire') /\ h + 1 \in 0 .. Len(wire)
        BY <1>0, <2>2, <3>1
      <4>2. /\ Begins(h + 1) /\ Of(h)' = Of(h + 1) /\ Had(h)' = 0 /\ Had(h + 1) = 0
            /\ Due(h)' = Due(h + 1)
        BY <2>1, <2>3, <4>1, StreamShrinks
      <4> QED
        BY <2>1, <2>3, <4>1, <4>2 DEF PromisesAreScanned
    <3>2. CASE h = 0 /\ ReadHeader
      <4>1. /\ Begins(1) /\ Of(0)' = Of(1) /\ Had(0)' = 0 /\ Had(1) = 0 /\ Due(0)' = Due(1)
        BY <3>2, ReadHeaderMoves
      <4> QED
        BY <2>1, <2>2, <2>3, <3>2, <4>1 DEF PromisesAreScanned
    <3>3. CASE h = 0 /\ ReadBlock
      <4>1. /\ Begins(0) /\ Of(0)' = Of(0)
            /\ Had(0)' = Had(0) + 1 /\ Due(0)' = Due(0) - 1
        BY <3>3, ReadBlockMoves
      <4>2. Had(0) \in Nat /\ Due(0) \in Nat
        BY DEF Had, Due, StreamTypes
      <4>3. Of(0) \in DOMAIN scan /\ Had(0) + Due(0) = scan[Of(0)]
        BY <2>2, <2>3, <3>3, <4>1 DEF PromisesAreScanned
      <4>4. Had(0)' + Due(0)' = Had(0) + Due(0)
        BY <4>1, <4>2
      <4> QED
        BY <2>1, <3>3, <4>1, <4>3, <4>4
    <3> QED
      BY <1>11, <3>1, <3>2, <3>3
  <2> QED
    BY <2>3 DEF PromisesAreScanned
<1>12. CASE DiskFails
  <2>1. /\ UNCHANGED <<wire, scan>> /\ member'.file = member.file
        /\ member'.need = member.need /\ member'.got = member.got
    BY <1>12 DEF DiskFails, StreamTypes, agentVars
  <2> QED
    BY <2>1 DEF PromisesAreScanned, Begins, Of, Had, Due
<1>13. CASE EndMember
  <2>1. UNCHANGED <<wire, scan>> /\ member' = Idle
    BY <1>13 DEF EndMember, agentVars
  <2>2. Of(0)' = NoFile
    BY <2>1 DEF Of, Idle
  <2>3. \A h : h # 0 => Of(h)' = Of(h) /\ Had(h)' = Had(h) /\ Due(h)' = Due(h)
                        /\ (Begins(h)' <=> Begins(h))
    BY <2>1 DEF Of, Had, Due, Begins
  <2> QED
    BY <2>1, <2>2, <2>3 DEF PromisesAreScanned
<1> QED
  BY StreamSteps, <1>3, <1>4, <1>5, <1>6, <1>8, <1>9, <1>10, <1>11, <1>12, <1>13

LEMMA IdleIsWholeStep ==
  ASSUME StreamTypes, StreamTells, IdleIsWhole, [Next]_vars
  PROVE  IdleIsWhole'
<1> USE DEF IdleIsWhole
<1>1. CASE UNCHANGED member
  BY <1>1
<1>2. CASE member' = Idle
  BY <1>2
<1>3. CASE ScanTree \/ SkipEntry \/ OpenFails \/ OpenEntry \/ CopyBlock \/ EndEntry \/ Return
      \/ CopyFails
  BY <1>1, <1>3, HandlerFrame DEF clientVars
<1>4. CASE Elsewhere \/ OpenArchive \/ Answered
  BY <1>1, <1>4 DEF Elsewhere, OpenArchive, Answered, clientVars
<1>5. CASE AnsweredBusy \/ ArchiveBreaks \/ ReadEnd \/ EndMember
  BY <1>2, <1>5 DEF AnsweredBusy, ArchiveBreaks, ReadEnd, EndMember, ToPool
<1>6. CASE \E f \in Files : Remove(f) \/ \E c \in Contents : Rewrite(f, c)
  BY <1>1, <1>6, WritersAndTar
<1>7. CASE ReadHeader
  <2>1. wire # <<>> /\ Head(wire).kind = "header" /\ member'.file = Head(wire).file
    BY <1>7 DEF ReadHeader, Reading
  <2>2. Head(wire) \in Item
    BY <1>7, <2>1, HeadAndTail DEF ReadHeader, Received
  <2>3. member'.file \in Files
    BY <2>1, <2>2 DEF Item
  <2> QED
    BY <2>3, NamesAssumption
<1>8. CASE ReadBlock
  <2>1. member'.file = member.file /\ member.need >= 1
    BY <1>8, BlockIsDue DEF ReadBlock, Reading, StreamTypes
  <2> QED
    BY <2>1 DEF Idle
<1>9. CASE DiskFails
  <2>1. member'.file = member.file /\ member.keep
    BY <1>9 DEF DiskFails, StreamTypes
  <2> QED
    BY <2>1 DEF Idle
<1> QED
  BY StreamSteps, <1>3, <1>4, <1>5, <1>6, <1>7, <1>8, <1>9

LEMMA EndIsLastStep ==
  ASSUME SlotsInductive, DataTypes, CountTypes, StreamTypes, BulkStates, RunStates,
         EndIsLast, [Next]_vars
  PROVE  EndIsLast'
<1>0. Len(wire) \in Nat
  BY DEF StreamTypes
<1>1. handler[Bulk] = "over" => handler'[Bulk] = "over"
  BY BulkNext
<1>2. CASE UNCHANGED wire
  BY <1>1, <1>2 DEF EndIsLast
<1>3. CASE wire' = <<>>
  BY <1>3 DEF EndIsLast
<1>4. CASE wire # <<>> /\ wire' = Tail(wire)
  <2>1. /\ Len(wire') = Len(wire) - 1 /\ \A i \in 1 .. Len(wire') : wire'[i] = wire[i + 1]
    BY <1>4, HeadAndTail
  <2>2. ASSUME NEW i \in 1 .. Len(wire'), wire'[i].kind = "end"
        PROVE  i = Len(wire') /\ handler'[Bulk] = "over"
    <3>1. i + 1 \in 1 .. Len(wire) /\ wire[i + 1].kind = "end"
      BY <1>0, <2>1, <2>2
    <3>2. i + 1 = Len(wire) /\ handler[Bulk] = "over"
      BY <3>1 DEF EndIsLast
    <3> QED
      BY <1>0, <1>1, <2>1, <3>2
  <2> QED
    BY <2>2 DEF EndIsLast
<1>5. ASSUME handler[Bulk] = "serving", NEW x \in Item, wire' = Append(wire, x),
             x.kind = "end" => handler'[Bulk] = "over"
      PROVE  EndIsLast'
  <2>1. /\ Len(wire') = Len(wire) + 1 /\ wire'[Len(wire) + 1] = x
        /\ \A i \in 1 .. Len(wire) : wire'[i] = wire[i]
    BY <1>5, OneMore
  <2>2. ASSUME NEW i \in 1 .. Len(wire'), wire'[i].kind = "end"
        PROVE  i = Len(wire') /\ handler'[Bulk] = "over"
    <3>1. ~ i \in 1 .. Len(wire)
      BY <1>5, <2>1, <2>2 DEF EndIsLast
    <3>2. i = Len(wire) + 1
      BY <1>0, <2>1, <3>1
    <3> QED
      BY <1>5, <2>1, <2>2, <3>2
  <2> QED
    BY <2>2 DEF EndIsLast
<1>6. CASE Elsewhere \/ ScanTree \/ SkipEntry \/ OpenFails \/ EndEntry \/ OpenArchive \/ Answered
           \/ DiskFails \/ EndMember
  BY <1>2, <1>6
     DEF Elsewhere, ScanTree, SkipEntry, OpenFails, EndEntry, OpenArchive, Answered, DiskFails,
         EndMember
<1>7. CASE \E f \in Files : Remove(f) \/ \E c \in Contents : Rewrite(f, c)
  BY <1>2, <1>7, WritersAndTar
<1>8. CASE AnsweredBusy \/ ArchiveBreaks \/ ReadEnd
  BY <1>3, <1>8 DEF AnsweredBusy, ArchiveBreaks, ReadEnd, ToPool
<1>9. CASE ReadHeader \/ ReadBlock
  BY <1>4, <1>9 DEF ReadHeader, ReadBlock, Reading, Received
<1>10. CASE OpenEntry
  <2>1. handler[Bulk] = "serving"
        /\ \E x \in Item : x.kind = "header" /\ wire' = Append(wire, x)
    BY <1>10, OpenEntryIs
  <2> QED
    BY <1>5, <2>1
<1>11. CASE CopyBlock
  <2>1. \E x \in Item : x.kind = "block" /\ wire' = Append(wire, x)
    BY <1>11, CopyBlockIs
  <2>2. handler[Bulk] = "serving"
    BY <1>11 DEF CopyBlock, Writing, Streaming, Handling
  <2> QED
    BY <1>5, <2>1, <2>2
<1>12. CASE Return \/ CopyFails
  <2>1. /\ handler[Bulk] = "serving" /\ handler'[Bulk] = "over"
        /\ UNCHANGED wire \/ \E x \in Item : x.kind = "end" /\ wire' = Append(wire, x)
    BY <1>12, ReturnIs, CopyFailsIs
  <2> QED
    BY <1>2, <1>5, <2>1
<1> QED
  BY StreamSteps, <1>6, <1>7, <1>8, <1>9, <1>10, <1>11, <1>12

LEMMA ScanSteps ==
  ASSUME [Next]_vars
  PROVE  UNCHANGED scan \/ ScanTree
<1>1. CASE Elsewhere \/ SkipEntry \/ OpenFails \/ OpenEntry \/ CopyBlock \/ EndEntry \/ Return
      \/ CopyFails
  BY <1>1 DEF Elsewhere, SkipEntry, OpenFails, OpenEntry, CopyBlock, EndEntry, Return,
              CopyFails, Returned, Writing, Streaming, Handling
<1>2. CASE OpenArchive \/ Answered \/ AnsweredBusy \/ ArchiveBreaks
  BY <1>2 DEF OpenArchive, Answered, AnsweredBusy, ArchiveBreaks, ToPool, agentVars
<1>3. CASE ReadHeader \/ ReadBlock \/ ReadEnd \/ DiskFails \/ EndMember
  BY <1>3 DEF ReadHeader, ReadBlock, ReadEnd, DiskFails, EndMember, Received, ToPool, agentVars
<1>4. CASE \E f \in Files : Remove(f) \/ \E c \in Contents : Rewrite(f, c)
  BY <1>4 DEF Remove, Rewrite, Edited
<1> QED
  BY StreamSteps, <1>1, <1>2, <1>3, <1>4

\* A run that is quiet after a step was quiet before it, or the step is the one
\* that makes the plan or the walk.
LEMMA QuietBefore ==
  ASSUME CountTypes, StreamTypes, RunStates, RunStates', Quiet', ~ OpenArchive, ~ ScanTree,
        [Next]_vars
  PROVE  /\ Quiet /\ UNCHANGED <<tree, changed, plan, digests, scan>>
         /\ ~ trouble'
         /\ ~ \E f \in Files : Remove(f) \/ \E c \in Contents : Rewrite(f, c)
<1>1. ~ trouble' /\ changed' = {} /\ phase' # "start"
      /\ scan' = [f \in DOMAIN tree' |-> Len(tree'[f])]
  BY DEF Quiet
<1>2. ASSUME NEW f \in Files, Remove(f) \/ \E c \in Contents : Rewrite(f, c)
      PROVE  FALSE
  <2>1. changed' = changed \cup {f}
    BY <1>2, WritersAndTar
  <2> QED
    BY <1>1, <2>1
<1>3. UNCHANGED <<tree, changed, plan, digests>> /\ (conn' = "idle" <=> conn = "idle")
  BY <1>2, PlanSteps
<1>4. UNCHANGED scan
  BY ScanSteps
<1>5. ~ trouble
  BY <1>1, TroubleStays, Zenon
<1>6. phase # "start"
  BY <1>1, <1>3 DEF RunStates
<1> QED
  BY <1>1, <1>2, <1>3, <1>4, <1>5, <1>6 DEF Quiet

LEMMA PhaseSteps ==
  ASSUME StreamTypes, [Next]_vars
  PROVE  \/ UNCHANGED phase
         \/ OpenArchive
         \/ phase' = "pool" /\ (AnsweredBusy \/ ArchiveBreaks \/ ReadEnd)
         \/ phase = "pool" /\ phase' = "end" /\ EndPool
<1> USE DEF clientVars
<1>1. CASE ScanTree \/ SkipEntry \/ OpenFails \/ OpenEntry \/ CopyBlock \/ EndEntry \/ Return
      \/ CopyFails
  BY <1>1, HandlerFrame
<1>2. CASE AnsweredBusy \/ ArchiveBreaks \/ ReadEnd
  BY <1>2 DEF AnsweredBusy, ArchiveBreaks, ReadEnd, ToPool
<1>3. CASE Answered \/ ReadHeader \/ ReadBlock \/ DiskFails \/ EndMember
  BY <1>3 DEF Answered, ReadHeader, ReadBlock, DiskFails, EndMember, Received
<1>4. CASE \E f \in Files : Remove(f) \/ \E c \in Contents : Rewrite(f, c)
  BY <1>4, WritersAndTar
<1>5. CASE AskSlot \/ RefuseArchive \/ Others \/ UNCHANGED vars
  BY <1>5 DEF AskSlot, RefuseArchive, Others, vars
<1>6. CASE EndPool
  BY <1>6 DEF EndPool
<1>7. CASE \E r \in Rivals : RivalAsks(r) \/ RivalReads(r)
  BY <1>7 DEF RivalAsks, RivalReads
<1>8. ASSUME NEW f \in Files,
             Fetch(f) \/ Arrives(f) \/ Misfits(f) \/ Denied(f) \/ Refused(f) \/ AttemptBreaks(f)
      PROVE  UNCHANGED phase
  BY <1>8 DEF Fetch, Arrives, Misfits, Denied, Served, Refused, AttemptBreaks
<1> QED
  BY StepCases, <1>1, <1>2, <1>3, <1>4, <1>5, <1>6, <1>7, <1>8

\* Before the handler works, nothing of a quiet run is on its way.
LEMMA QuietBegins ==
  ASSUME DataTypes', StreamTypes', BulkStates', handler'[Bulk] \in {"none", "waiting"}
  PROVE  QuietHandler' /\ QuietStream'
<1>1. /\ tar'.next = 1 /\ tar'.owed = 0 /\ tar'.open = NoFile
      /\ wire' = <<>> /\ member' = Idle
  BY DEF BulkStates
<1>2. NoFile \notin DOMAIN plan'
  BY PartialIs, NamesAssumption DEF DataTypes, Partial
<1>3. QuietHandler'
  BY <1>1 DEF QuietHandler
<1>4. QuietStream'
  BY <1>1, <1>2 DEF QuietStream, Idle
<1> QED
  BY <1>3, <1>4

\* In a quiet run every file of the plan is as the plan, the walk and the tree say.
LEMMA QuietFiles ==
  ASSUME DataTypes, PlanHolds, Quiet, NEW f \in DOMAIN plan
  PROVE  /\ f \in Files /\ f # NoFile /\ f \in DOMAIN tree /\ f \in DOMAIN scan
         /\ tree[f] = plan[f] /\ scan[f] = Len(plan[f]) /\ plan[f] \in Seq(Nat)
<1>1. f \in Files /\ plan[f] \in Contents
  BY PartialIs DEF DataTypes
<1>2. f \in DOMAIN tree /\ tree[f] = plan[f]
  BY DEF PlanHolds, Quiet
<1> QED
  BY <1>1, <1>2, ArchiveAssumption, NamesAssumption DEF Quiet

LEMMA QuietStreamGrows ==
  ASSUME StreamTypes, QuietStream, NEW x \in Item, wire' = Append(wire, x),
         UNCHANGED <<member, plan, row>>, unopened \subseteq unopened',
         x.kind # "block" =>
           \A h \in 0 .. Len(wire) :
             Begins(h) /\ Blocks(h, Len(wire)) /\ Of(h) # NoFile => Due(h) = Len(wire) - h
  PROVE  QuietStream' /\ \A f : OnItsWay(f) => OnItsWay(f)'
<1>1. /\ Len(wire) \in Nat /\ Len(wire') = Len(wire) + 1 /\ wire'[Len(wire) + 1] = x
      /\ \A i \in 1 .. Len(wire) : wire'[i] = wire[i]
  BY OneMore
<1>2. ASSUME NEW f, OnItsWay(f)
      PROVE  OnItsWay(f)'
  <2>1. CASE f \in DOMAIN row \cup unopened
    BY <2>1 DEF OnItsWay
  <2>2. ASSUME NEW h \in 0 .. Len(wire), Begins(h), Of(h) = f
        PROVE  OnItsWay(f)'
    <3>1. Begins(h)' /\ Of(h)' = f /\ h \in 0 .. Len(wire')
      BY <1>1, <2>2, StreamGrows
    <3> QED
      BY <3>1 DEF OnItsWay
  <2> QED
    BY <1>2, <2>1, <2>2 DEF OnItsWay
<1>3. ASSUME NEW h \in 0 .. Len(wire'), NEW i \in 1 .. Len(wire'), h < i,
             Begins(h)', Blocks(h, i - 1)', Of(h)' # NoFile, wire'[i].kind # "block"
      PROVE  Due(h)' = (i - 1) - h
  <2>1. h \in 0 .. Len(wire) /\ i - 1 \in 0 .. Len(wire)
    BY <1>1, <1>3
  <2>2. Begins(h) /\ Blocks(h, i - 1) /\ Of(h) # NoFile /\ Due(h)' = Due(h)
    BY <1>3, <2>1, StreamGrows
  <2>3. CASE i \in 1 .. Len(wire)
    BY <1>1, <1>3, <2>1, <2>2, <2>3 DEF QuietStream
  <2>4. CASE i = Len(wire) + 1
    <3>1. i - 1 = Len(wire) /\ x.kind # "block"
      BY <1>1, <1>3, <2>4
    <3>2. Blocks(h, Len(wire))
      BY <2>2, <3>1
    <3> QED
      BY <2>1, <2>2, <3>1, <3>2
  <2> QED
    BY <1>1, <2>3, <2>4
<1>4. QuietStream'
  BY <1>3 DEF QuietStream
<1> QED
  BY <1>2, <1>4

LEMMA QuietStreamRead ==
  ASSUME DataTypes, StreamTypes, BulkStates, StreamTells, QuietStream, ReadHeader \/ ReadBlock,
         unopened \subseteq unopened'
  PROVE  QuietStream' /\ \A f \in Files : OnItsWay(f) => OnItsWay(f)'
<1>1. UNCHANGED <<plan, row>> /\ wire # <<>> /\ wire' = Tail(wire)
  BY ReadHeaderMoves, ReadBlockMoves DEF ReadHeader, ReadBlock, Received
<1>2. /\ Len(wire) \in Nat /\ Len(wire') = Len(wire) - 1 /\ Len(wire) >= 1
      /\ \A i \in 1 .. Len(wire') : wire'[i] = wire[i + 1]
  BY <1>1, HeadAndTail
<1>3. ASSUME NEW h \in 0 .. Len(wire'), NEW i \in 1 .. Len(wire'), h < i,
             Begins(h)', Blocks(h, i - 1)', Of(h)' # NoFile, wire'[i].kind # "block"
      PROVE  Due(h)' = (i - 1) - h
  <2>1. /\ h + 1 \in 0 .. Len(wire) /\ i + 1 \in 1 .. Len(wire) /\ h + 1 < i + 1
        /\ i - 1 \in 0 .. Len(wire') /\ (i - 1) + 1 = (i + 1) - 1 /\ i \in 1 .. Len(wire)
        /\ i = (i + 1) - 1 /\ 0 \in 0 .. Len(wire) /\ 0 < i + 1
    BY <1>2, <1>3
  <2>2. Blocks(h + 1, (i + 1) - 1) /\ wire[i + 1].kind # "block"
    <3>1. Blocks(h + 1, (i - 1) + 1)
      BY <1>1, <1>3, <2>1, StreamShrinks
    <3> QED
      BY <1>2, <1>3, <2>1, <3>1
  <2>3. CASE h # 0
    <3>1. h \in 1 .. Len(wire')
      BY <1>2, <2>3
    <3>2. Begins(h + 1) /\ Of(h)' = Of(h + 1) /\ Due(h)' = Due(h + 1)
      BY <1>1, <1>3, <3>1, StreamShrinks
    <3>3. Due(h + 1) = ((i + 1) - 1) - (h + 1)
      BY <1>3, <2>1, <2>2, <3>2 DEF QuietStream
    <3> QED
      BY <1>2, <3>2, <3>3
  <2>4. CASE h = 0 /\ ReadHeader
    <3>1. Begins(1) /\ Of(0)' = Of(1) /\ Due(0)' = Due(1) /\ h + 1 = 1
      BY <2>4, ReadHeaderMoves
    <3>2. Due(1) = ((i + 1) - 1) - 1
      BY <1>3, <2>1, <2>2, <2>4, <3>1 DEF QuietStream
    <3> QED
      BY <1>2, <2>4, <3>1, <3>2
  <2>5. CASE h = 0 /\ ReadBlock
    <3>1. /\ Begins(0) /\ Of(0)' = Of(0) /\ Due(0)' = Due(0) - 1 /\ h + 1 = 1
          /\ wire[1].kind = "block"
      BY <2>5, ReadBlockMoves
    <3>2. Blocks(1, i)
      BY <2>1, <2>2, <3>1
    <3>3. Blocks(0, i)
      BY <1>1, <2>1, <3>1, <3>2, StreamShrinks
    <3>4. Due(0) = ((i + 1) - 1) - 0
      BY <1>3, <2>1, <2>2, <2>5, <3>1, <3>3 DEF QuietStream
    <3> QED
      BY <1>2, <2>5, <3>1, <3>4
  <2> QED
    BY <2>3, <2>4, <2>5
<1>4. member'.file \in DOMAIN plan => member'.keep
  <2>1. CASE ReadHeader
    <3>1. member'.keep = (Of(1) \in DOMAIN plan) /\ Of(0)' = Of(1)
      BY <2>1, ReadHeaderMoves
    <3>2. member'.file = Of(0)'
      BY DEF Of
    <3> QED
      BY <3>1, <3>2
  <2>2. CASE ReadBlock
    <3>1. member'.keep = member.keep /\ Of(0)' = Of(0)
      BY <2>2, ReadBlockMoves
    <3>2. member'.file = member.file
      BY <3>1 DEF Of
    <3> QED
      BY <3>1, <3>2 DEF QuietStream
  <2> QED
    BY <2>1, <2>2
<1>5. QuietStream'
  BY <1>1, <1>3, <1>4 DEF QuietStream
<1>6. ASSUME NEW f \in Files, OnItsWay(f)
      PROVE  OnItsWay(f)'
  <2>1. CASE f \in DOMAIN row \cup unopened
    BY <1>1, <2>1 DEF OnItsWay
  <2>2. ASSUME NEW h \in 0 .. Len(wire), Begins(h), Of(h) = f
        PROVE  OnItsWay(f)'
    <3>1. CASE h > 1
      <4>1. h - 1 \in 1 .. Len(wire') /\ h - 1 \in 0 .. Len(wire') /\ (h - 1) + 1 = h
        BY <1>2, <2>2, <3>1
      <4>2. Begins(h - 1)' /\ Of(h - 1)' = Of(h)
        <5> DEFINE g == h - 1
        <5>1. g \in 1 .. Len(wire') /\ g + 1 = h
          BY <4>1
        <5> HIDE DEF g
        <5>2. Begins(g)' /\ Of(g)' = Of(h)
          BY <1>1, <2>2, <5>1, StreamShrinks
        <5> QED
          BY <5>2 DEF g
      <4> QED
        BY <2>2, <4>1, <4>2 DEF OnItsWay
    <3>2. CASE h = 1
      <4>1. ReadHeader
        BY <2>2, <3>2, ReadBlockMoves DEF Begins
      <4>2. Begins(0)' /\ Of(0)' = Of(1) /\ 0 \in 0 .. Len(wire')
        BY <1>2, <4>1, ReadHeaderMoves
      <4> QED
        BY <2>2, <3>2, <4>2 DEF OnItsWay
    <3>3. CASE h = 0
      <4>1. member # Idle
        BY <2>2, <3>3, NamesAssumption DEF Of, Idle
      <4>2. ReadBlock
        BY <4>1, ReadHeaderMoves
      <4>3. Begins(0)' /\ Of(0)' = Of(0) /\ 0 \in 0 .. Len(wire')
        BY <1>2, <4>2, ReadBlockMoves
      <4> QED
        BY <2>2, <3>3, <4>3 DEF OnItsWay
    <3> QED
      BY <1>2, <3>1, <3>2, <3>3
  <2> QED
    BY <1>6, <2>1, <2>2 DEF OnItsWay
<1> QED
  BY <1>5, <1>6

\* A wanted member of a quiet run is complete as planned: it is installed.
LEMMA QuietMember ==
  ASSUME DataTypes, StreamTypes, BulkStates, PlanHolds, StreamTells, GotTells,
         PromisesAreScanned, QuietStream, Quiet, EndMember
  PROVE  /\ UNCHANGED <<tar, wire, plan>> /\ member' = Idle
         /\ DOMAIN row \subseteq DOMAIN row'
         /\ member.file \in DOMAIN plan => member.file \in DOMAIN row'
<1> DEFINE f == member.file
<1>1. f # NoFile /\ member.need = 0 /\ UNCHANGED <<tar, wire, plan>> /\ member' = Idle
  BY DEF EndMember, agentVars
<1>2. ASSUME f \in DOMAIN plan
      PROVE  member.keep /\ Fits(f, member.got)
  <2>1. /\ f \in DOMAIN tree /\ scan[f] = Len(plan[f]) /\ plan[f] \in Seq(Nat)
    BY <1>2, QuietFiles
  <2>2. /\ Begins(0) /\ Of(0) = f /\ Had(0) = Len(member.got) /\ Due(0) = member.need
        /\ 0 \in 0 .. Len(wire)
    BY DEF Begins, Of, Had, Due, StreamTypes
  <2>3. Had(0) + Due(0) = scan[f]
    BY <1>1, <2>2 DEF PromisesAreScanned
  <2>4. member.got \in Seq(Nat) /\ Len(member.got) = Len(plan[f])
    BY <1>1, <2>1, <2>2, <2>3 DEF StreamTypes
  <2>5. \A k \in 1 .. Len(member.got) : member.got[k] = plan[f][k]
    BY <1>2 DEF GotTells, Tells, Quiet
  <2>6. member.got = plan[f]
    BY <2>1, <2>4, <2>5, SeqEqual
  <2>7. member.keep
    BY <1>2 DEF QuietStream
  <2> QED
    BY <2>6, <2>7 DEF Fits
<1>3. CASE member.keep /\ Fits(f, member.got)
  <2>1. Install(f, member.got)
    BY <1>3 DEF EndMember
  <2> QED
    BY <1>1, <2>1 DEF Install
<1>4. CASE ~ (member.keep /\ Fits(f, member.got))
  BY <1>1, <1>2, <1>4 DEF EndMember
<1> QED
  BY <1>3, <1>4

\* While the archive of a quiet run is read, nothing of the plan is lost: what the
\* handler passed is installed or on its way, and every member is whole.
LEMMA QuietBulkStep ==
  ASSUME QuietInductive, ArchiveInductive', [Next]_vars, Quiet', phase' = "bulk"
  PROVE  QuietHandler' /\ QuietStream'
<1>0. /\ SlotsInductive /\ DataTypes /\ CountTypes /\ StreamTypes /\ BulkStates
      /\ TarPlace /\ RunStates /\ PlanHolds /\ StreamTells /\ GotTells /\ OwedIsDue
      /\ PromisesAreScanned /\ EndIsLast
      /\ DataTypes' /\ StreamTypes' /\ BulkStates' /\ RunStates'
  BY DEF QuietInductive, ArchiveInductive
<1>1. CASE OpenArchive \/ ScanTree
  <2>1. handler[Bulk] = "none" /\ UNCHANGED slotVars
    BY <1>0, <1>1 DEF OpenArchive, ScanTree, BulkStates, RunStates
  <2>2. handler'[Bulk] = "none"
    BY <2>1 DEF slotVars
  <2> QED
    BY <1>0, <2>2, QuietBegins
<1>2. CASE ~ OpenArchive /\ ~ ScanTree
  <2>1. /\ Quiet /\ UNCHANGED <<tree, changed, plan, digests, scan>> /\ ~ trouble'
        /\ ~ \E f \in Files : Remove(f) \/ \E c \in Contents : Rewrite(f, c)
    BY <1>0, <1>2, QuietBefore
  <2>2. phase = "bulk" /\ ~ (AnsweredBusy \/ ArchiveBreaks \/ ReadEnd)
    <3>1. ~ (AnsweredBusy \/ ArchiveBreaks \/ ReadEnd)
      BY DEF AnsweredBusy, ArchiveBreaks, ReadEnd, ToPool
    <3> QED
      BY <1>0, <1>2, <3>1, PhaseSteps
  <2>3. QuietHandler /\ QuietStream
    BY <2>1, <2>2 DEF QuietInductive
  <2>4. conn # "closed" /\ conn # "idle"
    BY <1>0, <2>2 DEF RunStates
  <2>5. \A f \in DOMAIN plan : f \in Files /\ f \in DOMAIN tree /\ f \in DOMAIN scan
    BY <1>0, <2>1, QuietFiles
  <2>6. Len(Order) \in Nat /\ tar.next \in Nat /\ tar.at \in Nat /\ tar.owed \in Nat
        /\ Len(tar.data) \in Nat /\ Len(wire) \in Nat
    <3>1. tar.data \in Seq(Nat) /\ wire \in Seq(Item) /\ tar.next \in 1 .. Len(Order) + 1
          /\ tar.at \in Nat /\ tar.owed \in Nat
      BY <1>0 DEF StreamTypes
    <3> QED
      BY <3>1, OrderIs
  <2>7. DOMAIN row \subseteq DOMAIN row' /\ unopened \subseteq unopened'
    BY InstallSteps, UnopenedGrows DEF Install, Arrives
  \* What the tar writer owes is due; it owes nothing when the member is complete.
  <2>8. ASSUME handler[Bulk] = "serving", tar.owed = 0, NEW h \in 0 .. Len(wire),
               Begins(h), Blocks(h, Len(wire)), Of(h) # NoFile
        PROVE  Due(h) = Len(wire) - h
    <3>1. Due(h) = (Len(wire) - h) + tar.owed
      BY <1>0, <2>4, <2>8 DEF OwedIsDue
    <3> QED
      BY <2>6, <2>8, <3>1
  <2>9. handler[Bulk] = "serving" => \A i \in 1 .. Len(wire) : wire[i].kind # "end"
    BY <1>0 DEF EndIsLast
  <2>10. CASE UNCHANGED <<tar, wire, member>>
    <3>1. \A f : OnItsWay(f) => OnItsWay(f)'
      BY <2>7, <2>10 DEF OnItsWay, Begins, Of
    <3>2. QuietHandler'
      BY <2>1, <2>3, <2>10, <3>1 DEF QuietHandler
    <3>3. QuietStream'
      BY <2>1, <2>3, <2>10 DEF QuietStream, Begins, Blocks, Of, Due
    <3> QED
      BY <3>2, <3>3
  <2>11. CASE SkipEntry \/ OpenFails
    <3>1. /\ UNCHANGED <<wire, member, row>> /\ handler[Bulk] = "serving"
          /\ tar.open = NoFile
          /\ Entry \notin DOMAIN scan \cap DOMAIN tree \/ Entry \in unopened'
          /\ tar' = [tar EXCEPT !.next = tar.next + 1]
      BY <2>11 DEF SkipEntry, OpenFails, Streaming, Handling, Closed, clientVars
    <3>2. tar'.next = tar.next + 1 /\ tar'.open = NoFile /\ tar'.owed = tar.owed
      BY <1>0, <3>1 DEF StreamTypes
    <3>3. Order[tar.next] \notin DOMAIN plan \/ Order[tar.next] \in unopened'
      BY <2>5, <3>1 DEF Entry
    <3>4. \A f : OnItsWay(f) => OnItsWay(f)'
      BY <2>7, <3>1 DEF OnItsWay, Begins, Of
    <3>5. ASSUME NEW i \in 1 .. tar'.next - 1, Order[i] \in DOMAIN plan'
          PROVE  OnItsWay(Order[i])'
      <4>1. i \in 1 .. tar.next - 1 \/ i = tar.next
        BY <2>6, <3>2
      <4>2. CASE Order[i] \in unopened'
        BY <4>2 DEF OnItsWay
      <4>3. CASE i \in 1 .. tar.next - 1
        BY <2>1, <2>3, <3>4, <3>5, <4>3 DEF QuietHandler
      <4> QED
        BY <2>1, <3>3, <3>5, <4>1, <4>2, <4>3
    <3>6. QuietHandler'
      BY <2>3, <2>9, <3>1, <3>2, <3>5 DEF QuietHandler
    <3>7. QuietStream'
      BY <2>1, <2>3, <3>1 DEF QuietStream, Begins, Blocks, Of, Due
    <3> QED
      BY <3>6, <3>7
  <2>12. CASE EndEntry
    <3>1. /\ UNCHANGED <<wire, member, row>> /\ handler[Bulk] = "serving"
          /\ tar.open # NoFile /\ tar.at >= Len(tar.data)
          /\ tar' = [[tar EXCEPT !.open = NoFile] EXCEPT !.next = tar.next + 1]
      BY <2>12 DEF EndEntry, Streaming, Handling, Closed, clientVars
    <3>2. tar'.next = tar.next + 1 /\ tar'.open = NoFile /\ tar'.owed = tar.owed
      BY <1>0, <3>1 DEF StreamTypes
    <3>3. tar.at + tar.owed = Len(tar.data) /\ (tar.open \in DOMAIN plan => OnItsWay(tar.open))
      BY <2>3, <3>1 DEF QuietHandler
    <3>4. tar.owed = 0
      BY <2>6, <3>1, <3>3
    <3>5. Order[tar.next] = tar.open
      BY <1>0, <3>1 DEF TarPlace
    <3>6. \A f : OnItsWay(f) => OnItsWay(f)'
      BY <2>7, <3>1 DEF OnItsWay, Begins, Of
    <3>7. ASSUME NEW i \in 1 .. tar'.next - 1, Order[i] \in DOMAIN plan'
          PROVE  OnItsWay(Order[i])'
      <4>1. i \in 1 .. tar.next - 1 \/ i = tar.next
        BY <2>6, <3>2
      <4>2. CASE i = tar.next
        BY <2>1, <3>3, <3>5, <3>6, <3>7, <4>2
      <4>3. CASE i \in 1 .. tar.next - 1
        BY <2>1, <2>3, <3>6, <3>7, <4>3 DEF QuietHandler
      <4> QED
        BY <4>1, <4>2, <4>3
    <3>8. QuietHandler'
      BY <2>9, <3>1, <3>2, <3>4, <3>7 DEF QuietHandler
    <3>9. QuietStream'
      BY <2>1, <2>3, <3>1 DEF QuietStream, Begins, Blocks, Of, Due
    <3> QED
      BY <3>8, <3>9
  <2>13. CASE OpenEntry
    <3>1. PICK x \in Item :
            /\ x.kind = "header" /\ x.file = Entry /\ wire' = Append(wire, x)
            /\ UNCHANGED member /\ handler[Bulk] = "serving"
            /\ Entry \in DOMAIN tree /\ Entry \in Files
            /\ tar.owed = 0 /\ tar'.next = tar.next
            /\ tar'.open = Entry /\ tar'.data = tree[Entry] /\ tar'.at = 0
            /\ tar'.owed = scan[Entry]
      BY <1>0, <2>13, OpenEntryIs
    <3>2. UNCHANGED row
      BY <2>13 DEF OpenEntry, Writing, Streaming, Handling, clientVars
    <3>3. QuietStream' /\ \A f : OnItsWay(f) => OnItsWay(f)'
      BY <1>0, <2>1, <2>3, <2>7, <2>8, <3>1, <3>2, QuietStreamGrows
    <3>4. /\ Len(wire') = Len(wire) + 1 /\ wire'[Len(wire) + 1] = x
          /\ \A i \in 1 .. Len(wire) : wire'[i] = wire[i]
      BY <1>0, <3>1, OneMore
    <3>5. OnItsWay(tar.open)'
      <4>1. PICK h \in 0 .. Len(wire') :
              h = Len(wire) + 1 /\ h \in 1 .. Len(wire') /\ h # 0
        BY <2>6, <3>4
      <4>2. Begins(h)' /\ Of(h)' = tar'.open
        BY <3>1, <3>4, <4>1 DEF Begins, Of
      <4> QED
        BY <4>2 DEF OnItsWay
    <3>6. \A i \in 1 .. Len(wire') : wire'[i].kind # "end"
      <4>1. ASSUME NEW i \in 1 .. Len(wire') PROVE i \in 1 .. Len(wire) \/ i = Len(wire) + 1
        BY <2>6, <3>4
      <4> QED
        BY <2>9, <3>1, <3>4, <4>1
    <3>7. tar'.at + tar'.owed = Len(tar'.data)
      <4>1. scan[Entry] = Len(tree[Entry])
        BY <2>1, <3>1 DEF Quiet
      <4>2. Len(tree[Entry]) \in Nat
        BY <1>0, <3>1, PartialIs, ArchiveAssumption DEF DataTypes
      <4> QED
        BY <3>1, <4>1, <4>2
    <3>8. Entry # NoFile
      BY <3>1, NamesAssumption
    <3>9. QuietHandler'
      BY <2>1, <2>3, <3>1, <3>3, <3>5, <3>6, <3>7, <3>8 DEF QuietHandler
    <3> QED
      BY <3>3, <3>9
  <2>14. CASE CopyBlock
    <3>1. PICK x \in Item :
            /\ x.kind = "block" /\ wire' = Append(wire, x) /\ UNCHANGED member
            /\ tar.open # NoFile /\ tar.at < Len(tar.data) /\ tar.owed > 0
            /\ tar'.open = tar.open /\ tar'.data = tar.data /\ tar'.next = tar.next
            /\ tar'.at = tar.at + 1 /\ tar'.owed = tar.owed - 1
      BY <1>0, <2>14, CopyBlockIs
    <3>2. UNCHANGED row /\ handler[Bulk] = "serving"
      BY <2>14 DEF CopyBlock, Writing, Streaming, Handling, clientVars
    <3>3. QuietStream' /\ \A f : OnItsWay(f) => OnItsWay(f)'
      BY <1>0, <2>1, <2>3, <2>7, <3>1, <3>2, QuietStreamGrows
    <3>4. /\ Len(wire') = Len(wire) + 1 /\ wire'[Len(wire) + 1] = x
          /\ \A i \in 1 .. Len(wire) : wire'[i] = wire[i]
      BY <1>0, <3>1, OneMore
    <3>5. \A i \in 1 .. Len(wire') : wire'[i].kind # "end"
      <4>1. ASSUME NEW i \in 1 .. Len(wire') PROVE i \in 1 .. Len(wire) \/ i = Len(wire) + 1
        BY <2>6, <3>4
      <4> QED
        BY <2>9, <3>1, <3>2, <3>4, <4>1
    <3>6. tar'.at + tar'.owed = Len(tar'.data)
      <4>1. tar.at + tar.owed = Len(tar.data)
        BY <2>3, <3>1 DEF QuietHandler
      <4> QED
        BY <2>6, <3>1, <4>1
    <3>7. tar'.open \in DOMAIN plan' => OnItsWay(tar.open)'
      <4>1. tar.open \in DOMAIN plan => OnItsWay(tar.open)
        BY <2>3, <3>1 DEF QuietHandler
      <4>2. OnItsWay(tar.open) => \/ tar.open \in DOMAIN row' \cup unopened'
                                  \/ \E h \in 0 .. Len(wire') : Begins(h)' /\ Of(h)' = tar.open
        <5> DEFINE f == tar.open
        <5> HIDE DEF f
        <5>1. OnItsWay(f) => \/ f \in DOMAIN row' \cup unopened'
                             \/ \E h \in 0 .. Len(wire') : Begins(h)' /\ Of(h)' = f
          BY <3>3 DEF OnItsWay
        <5> QED
          BY <5>1 DEF f
      <4> QED
        BY <2>1, <3>1, <4>1, <4>2 DEF OnItsWay
    <3>8. QuietHandler'
      BY <2>1, <2>3, <3>1, <3>3, <3>5, <3>6, <3>7 DEF QuietHandler
    <3> QED
      BY <3>3, <3>8
  <2>15. CASE Return
    <3>1. /\ UNCHANGED <<member, row>> /\ handler[Bulk] = "serving" /\ ReturnDue
          /\ tar'.next = tar.next /\ tar'.open = NoFile /\ tar'.owed = tar.owed
          /\ \E x \in Item : x.kind = "end" /\ wire' = Append(wire, x)
      BY <1>0, <2>4, <2>15, ReturnIs
    <3>2. tar.open = NoFile /\ tar.owed = 0 /\ tar.next > Len(Order)
      <4>1. tar.open = NoFile => tar.owed = 0
        BY <2>3 DEF QuietHandler
      <4>2. tar.open # NoFile => tar.at + tar.owed = Len(tar.data)
        BY <2>3 DEF QuietHandler
      <4>3. tar.open # NoFile => ~ (tar.at < Len(tar.data) /\ tar.owed = 0)
        BY <2>6, <4>2
      <4>4. tar.open = NoFile /\ tar.next > Len(Order)
        BY <2>4, <2>6, <3>1, <4>1, <4>3 DEF ReturnDue, ClientGone, Closed
      <4> QED
        BY <4>1, <4>4
    <3>3. QuietStream' /\ \A f : OnItsWay(f) => OnItsWay(f)'
      BY <1>0, <2>1, <2>3, <2>7, <2>8, <3>1, <3>2, QuietStreamGrows
    <3>4. QuietHandler'
      BY <2>1, <2>3, <3>1, <3>2, <3>3 DEF QuietHandler
    <3> QED
      BY <3>3, <3>4
  <2>16. CASE ReadHeader \/ ReadBlock
    <3>1. UNCHANGED tar /\ wire # <<>> /\ wire' = Tail(wire)
      BY <2>16 DEF ReadHeader, ReadBlock, Reading, Received, agentVars
    <3>2. QuietStream' /\ \A f \in Files : OnItsWay(f) => OnItsWay(f)'
      BY <1>0, <2>3, <2>7, <2>16, QuietStreamRead
    <3>3. /\ Len(wire') = Len(wire) - 1
          /\ \A i \in 1 .. Len(wire') : wire'[i] = wire[i + 1]
      BY <1>0, <3>1, HeadAndTail
    <3>4. ASSUME NEW i \in 1 .. Len(wire'), wire'[i].kind = "end"
          PROVE  tar.next > Len(Order)
      <4>1. i + 1 \in 1 .. Len(wire) /\ wire[i + 1].kind = "end"
        BY <2>6, <3>3, <3>4
      <4> QED
        BY <2>3, <4>1 DEF QuietHandler
    <3>5. QuietHandler'
      BY <2>1, <2>3, <2>5, <3>1, <3>2, <3>4 DEF QuietHandler
    <3> QED
      BY <3>2, <3>5
  <2>17. CASE EndMember
    <3>1. /\ UNCHANGED <<tar, wire, plan>> /\ member' = Idle
          /\ member.file \in DOMAIN plan => member.file \in DOMAIN row'
      BY <1>0, <2>1, <2>3, <2>17, QuietMember
    <3>2. ASSUME NEW f \in DOMAIN plan, OnItsWay(f)
          PROVE  OnItsWay(f)'
      <4>1. CASE f \in DOMAIN row \cup unopened \/ f = member.file
        BY <2>7, <3>1, <3>2, <4>1 DEF OnItsWay
      <4>2. ASSUME NEW h \in 0 .. Len(wire), Begins(h), Of(h) = f, h # 0
            PROVE  OnItsWay(f)'
        <5>1. Begins(h)' /\ Of(h)' = f
          BY <3>1, <4>2 DEF Begins, Of
        <5> QED
          BY <3>1, <4>2, <5>1 DEF OnItsWay
      <4> QED
        BY <3>2, <4>1, <4>2 DEF OnItsWay, Of
    <3>3. QuietHandler'
      BY <2>1, <2>3, <3>1, <3>2 DEF QuietHandler
    <3>4. QuietStream'
      <4>1. Of(0)' = NoFile /\ member'.file \notin DOMAIN plan
        BY <2>5, <3>1, NamesAssumption DEF Of, Idle
      <4>2. \A h : /\ h # 0 => Of(h)' = Of(h) /\ Due(h)' = Due(h)
                   /\ Begins(h)' <=> Begins(h)
        BY <3>1 DEF Of, Due, Begins
      <4>3. \A h, i : Blocks(h, i)' <=> Blocks(h, i)
        BY <3>1 DEF Blocks
      <4> QED
        BY <2>1, <2>3, <3>1, <4>1, <4>2, <4>3 DEF QuietStream
    <3> QED
      BY <3>3, <3>4
  <2>18. CASE Elsewhere \/ Answered
    BY <2>10, <2>18 DEF Elsewhere, Answered, agentVars, clientVars
  <2>19. ~ DiskFails /\ ~ CopyFails
    BY <2>1 DEF DiskFails, CopyFails
  <2> QED
    BY StreamSteps, <1>2, <2>1, <2>2, <2>11, <2>12, <2>13, <2>14, <2>15, <2>16, <2>17,
       <2>18, <2>19
<1> QED
  BY <1>1, <1>2

\* After the archive of a quiet run everything is in place, and stays so: there is
\* nothing left for the pool.
LEMMA QuietEndStep ==
  ASSUME QuietInductive, ArchiveInductive', [Next]_vars, Quiet', phase' \in {"pool", "end"}
  PROVE  /\ DOMAIN plan' \ unopened' \subseteq DOMAIN row'
         /\ \A f \in Files \ unopened' : tries'[f] = 0
<1>0. /\ SlotsInductive /\ DataTypes /\ CountTypes /\ StreamTypes /\ BulkStates
      /\ RunStates /\ RowsArePlanned /\ EndIsLast /\ IdleIsWhole
      /\ RowsArePlanned' /\ RunStates'
  BY DEF QuietInductive, ArchiveInductive
<1>1. ~ OpenArchive /\ ~ ScanTree
  <2>1. ASSUME OpenArchive PROVE FALSE
    BY <2>1 DEF OpenArchive
  <2>2. ASSUME ScanTree PROVE FALSE
    <3>1. UNCHANGED phase /\ conn \in {"asked", "idle"}
      BY <2>2 DEF ScanTree, clientVars
    <3> QED
      BY <1>0, <3>1 DEF RunStates
  <2> QED
    BY <2>1, <2>2
<1>2. /\ Quiet /\ UNCHANGED <<tree, changed, plan, digests, scan>> /\ ~ trouble'
  BY <1>0, <1>1, QuietBefore
<1>3. CASE phase \in {"pool", "end"}
  <2>1. DOMAIN plan \ unopened \subseteq DOMAIN row /\ \A f \in Files \ unopened : tries[f] = 0
    BY <1>2, <1>3 DEF QuietInductive
  <2>2. ASSUME NEW f \in Files \ unopened PROVE ~ Fetch(f)
    BY <1>0, <2>1 DEF Fetch, Left, RunStates
  <2>3. ASSUME NEW f \in Files \ unopened PROVE tries'[f] = 0
    <3>1. ASSUME NEW g \in Files, Fetch(g) PROVE tries'[f] = 0
      <4>1. tries' = [tries EXCEPT ![g] = tries[g] + 1] /\ g # f
        BY <2>2, <2>3, <3>1 DEF Fetch
      <4> QED
        BY <2>1, <2>3, <4>1 DEF CountTypes
    <3>2. ASSUME NEW g \in Files,
                 Arrives(g) \/ Misfits(g) \/ Denied(g) \/ Refused(g) \/ AttemptBreaks(g)
          PROVE  UNCHANGED tries
      BY <3>2 DEF Arrives, Misfits, Denied, Served, Refused, AttemptBreaks
    <3> QED
      BY <2>1, <2>3, <3>1, <3>2, PoolSteps DEF poolVars
  <2>4. DOMAIN row \subseteq DOMAIN row' /\ unopened \subseteq unopened'
    BY InstallSteps, UnopenedGrows DEF Install, Arrives
  <2> QED
    BY <1>2, <2>1, <2>3, <2>4
<1>4. CASE phase \notin {"pool", "end"}
  <2>1. phase = "bulk" /\ (AnsweredBusy \/ ArchiveBreaks \/ ReadEnd)
    BY <1>0, <1>1, <1>2, <1>4, PhaseSteps DEF CountTypes, Quiet
  <2>2. ~ AnsweredBusy
    BY <1>0, <1>2 DEF AnsweredBusy, BulkStates, Quiet
  <2>3. ~ ArchiveBreaks
    BY <1>2 DEF ArchiveBreaks
  <2>4. ReadEnd
    BY <2>1, <2>2, <2>3
  <2>5. QuietHandler /\ QuietStream
    BY <1>2, <2>1 DEF QuietInductive
  <2>6. /\ wire # <<>> /\ Head(wire).kind = "end" /\ UNCHANGED <<plan, row, tries>>
        /\ member = Idle \/ member.need > 0
    BY <2>4 DEF ReadEnd, Reading, ToPool, poolVars
  <2>7. Len(wire) \in Nat /\ 1 \in 1 .. Len(wire) /\ wire[1].kind = "end"
    <3>1. wire \in Seq(Item)
      BY <1>0 DEF StreamTypes
    <3> QED
      BY <2>6, <3>1
  <2>8. member = Idle
    <3>1. Begins(0) /\ Blocks(0, 1 - 1) /\ 0 \in 0 .. Len(wire) /\ 0 < 1
      BY <2>7 DEF Begins, Blocks
    <3>2. Of(0) # NoFile => Due(0) = (1 - 1) - 0
      BY <2>5, <2>7, <3>1 DEF QuietStream
    <3> QED
      BY <1>0, <2>6, <3>2 DEF Of, Due, IdleIsWhole
  <2>9. Len(wire) = 1
    BY <1>0, <2>7 DEF EndIsLast
  <2>10. tar.next > Len(Order)
    BY <2>5, <2>7 DEF QuietHandler
  <2>11. ASSUME NEW f \in DOMAIN plan \ unopened PROVE f \in DOMAIN row
    <3>1. f \in Files
      BY <1>0, PartialIs DEF DataTypes
    <3>2. PICK i \in 1 .. Len(Order) : f = Order[i]
      BY <3>1, OrderIs
    <3>3. i \in 1 .. tar.next - 1
      BY <1>0, <2>10, <3>2, OrderIs DEF StreamTypes
    <3>4. OnItsWay(f)
      BY <2>5, <2>11, <3>2, <3>3 DEF QuietHandler
    <3>5. ASSUME NEW h \in 0 .. Len(wire), Begins(h), Of(h) = f
          PROVE  FALSE
      <4>1. h = 0 \/ h = 1
        BY <2>9
      <4>2. h # 1
        BY <2>7, <3>5 DEF Begins
      <4> QED
        BY <2>8, <3>1, <3>5, <4>1, <4>2, NamesAssumption DEF Of, Idle
    <3> QED
      BY <3>4, <3>5 DEF OnItsWay
  <2>12. DOMAIN plan \ unopened \subseteq DOMAIN row /\ unopened \subseteq unopened'
    BY <2>11, UnopenedGrows
  <2>13. \A f \in Files : tries[f] = 0
    BY <1>0, <2>1 DEF RunStates
  <2> QED
    BY <2>6, <2>12, <2>13
<1> QED
  BY <1>3, <1>4

LEMMA QuietStart == Init => QuietInductive
<1> SUFFICES ASSUME Init PROVE QuietInductive
  OBVIOUS
<1>1. ArchiveInductive
  BY ArchiveStart
<1>2. PromisesAreScanned /\ EndIsLast /\ IdleIsWhole
  BY DEF Init, PromisesAreScanned, EndIsLast, IdleIsWhole, Of, Idle
<1>3. ~ Quiet
  BY DEF Init, Quiet
<1> QED
  BY <1>1, <1>2, <1>3 DEF QuietInductive

LEMMA QuietStep == QuietInductive /\ [Next]_vars => QuietInductive'
<1> SUFFICES ASSUME QuietInductive, [Next]_vars PROVE QuietInductive'
  OBVIOUS
<1>1. ArchiveInductive'
  BY ArchiveStep DEF QuietInductive
<1>2. PromisesAreScanned' /\ EndIsLast' /\ IdleIsWhole'
  BY PromisesAreScannedStep, EndIsLastStep, IdleIsWholeStep DEF QuietInductive, ArchiveInductive
<1>3. Quiet' /\ phase' = "bulk" => QuietHandler' /\ QuietStream'
  BY <1>1, QuietBulkStep
<1>4. Quiet' /\ phase' \in {"pool", "end"} =>
        DOMAIN plan' \ unopened' \subseteq DOMAIN row' /\ \A f \in Files \ unopened' : tries'[f] = 0
  BY <1>1, QuietEndStep
<1> QED
  BY <1>1, <1>2, <1>3, <1>4 DEF QuietInductive

\* A tree that stays as the plan and the walk of the archive saw it arrives whole in
\* one request, and the pool fetches nothing but the very files that the agent could
\* not open (server.go handleArchive, sync.go bulkTransfer and writeFromArchive).
THEOREM ArchiveArrivesWhole == Spec => []QuietArchiveIsWhole
<1>1. QuietInductive => QuietArchiveIsWhole
  BY DEF QuietInductive, Quiet, QuietArchiveIsWhole
<1> QED
  BY <1>1, QuietStart, QuietStep, PTL DEF Spec
=============================================================================
