------------------------------- MODULE Archive -------------------------------
(***************************************************************************)
(* A cold start over the archive: the agent streams a tar of the subtree   *)
(* (internal/server/server.go, handleArchive), the client unpacks it       *)
(* member by member (internal/client/sync.go, bulkTransfer and             *)
(* writeFromArchive) and fetches what it did not bring with its pool of    *)
(* workers.  Both ways and another client compete for the transfer slots   *)
(* of module Slots, and the tree changes meanwhile.                        *)
(*                                                                         *)
(* A content is a sequence of blocks, and its digest is the sequence       *)
(* itself.  The sizes in the tar come from a manifest the agent makes for  *)
(* the archive, those the client checks from the manifest of its plan.     *)
(***************************************************************************)
EXTENDS Slots, Functions

CONSTANTS
  Order,          \* the published files, in the order of a manifest
  Contents,       \* contents a file may have, sequences of blocks
  Fresh,          \* bound: contents the files have at first
  InPlace,        \* writers rewrite a file in place (else rename over it)
  Ttl,            \* manifest_ttl is set: a stored manifest may serve the archive
  Workers,        \* sync.concurrency
  Attempts,       \* sync.retries + 1
  Rivals,         \* downloads of other clients
  Buffer,         \* bound: tar items between handler and client
  MaxEdits,       \* bound: changes of the tree
  MaxFaults,      \* bound: failures of network, disk and agent
  ArchiveReq, NoFile

Files == {Order[i] : i \in DOMAIN Order}
Bulk == <<ArchiveReq, 1>>

\* One request for the archive, one per attempt of a download, one per rival.
AllRequests == {Bulk} \cup (Files \X (1 .. Attempts)) \cup (Rivals \X {1})

ASSUME ArchiveAssumption ==
  /\ Requests = AllRequests
  /\ Order \in Seq(Files)
  /\ InPlace \in BOOLEAN /\ Ttl \in BOOLEAN
  /\ {Workers, Attempts, Buffer} \subseteq Nat \ {0}
  /\ {MaxEdits, MaxFaults} \subseteq Nat
  /\ Contents \subseteq Seq(Nat) /\ Fresh \subseteq Contents

\* Files, other clients and the archive itself ask in their own names.
ASSUME NamesAssumption ==
  /\ NoFile \notin Files
  /\ ArchiveReq \notin Files \cup Rivals
  /\ Files \cap Rivals = {}

VARIABLES
  tree,     \* published files and their contents
  scan,     \* archive manifest: file sizes of the walk, NoFile before it
  tar,      \* handleArchive: next entry, open file and its read position,
            \* bytes the tar writer still owes the member
  unopened, \* ghost: entries that were there but could not be opened
  wire,     \* tar items on the way to the client
  phase,    \* what the run is at
  plan,     \* wanted files with the contents their entries describe
  digests,  \* files whose entries carry a digest
  conn,     \* the client's end of the archive request
  member,   \* member being unpacked: file, bytes to come, blocks, kept or drained
  local,    \* destination files and their contents
  row,      \* journal rows: digest recorded for a file
  pool,     \* state of the individual download of a file
  tries,    \* attempts an individual download has begun
  edits, faults,
  changed,  \* ghost: files changed since the plan
  trouble   \* ghost: something failed, was refused or timed out

treeVars == <<tree, edits, changed>>
agentVars == <<scan, tar, unopened>>
clientVars == <<phase, plan, digests, member, local, row>>
poolVars == <<pool, tries>>
vars == <<slotVars, treeVars, agentVars, wire, conn, clientVars, poolVars, faults, trouble>>

Partial(g, values) == DOMAIN g \subseteq Files /\ Range(g) \subseteq values
Idle == [file |-> NoFile, need |-> 0, got |-> <<>>, keep |-> FALSE]

TypeOK ==
  /\ SlotsTypeOK
  /\ Partial(tree, Contents) /\ Partial(plan, Contents)
  /\ Partial(local, Seq(Nat)) /\ Partial(row, Seq(Nat))
  /\ scan = NoFile \/ Partial(scan, {Len(c) : c \in Contents})
  /\ tar.next \in 1 .. Len(Order) + 1 /\ tar.open \in Files \cup {NoFile}
  /\ tar.at \in Nat /\ tar.owed \in Nat
  /\ Len(wire) <= Buffer + 1
  /\ phase \in {"start", "bulk", "pool", "end"}
  /\ conn \in {"idle", "asked", "body", "closed"}
  /\ digests \subseteq Files /\ unopened \subseteq Files
  /\ member.file \in Files \cup {NoFile} /\ member.need \in Nat
  /\ pool \in [Files -> {"idle", "asked", "retry", "ok", "failed"}]
  /\ tries \in [Files -> 0 .. Attempts]
  /\ edits \in 0 .. MaxEdits /\ faults \in 0 .. MaxFaults

Init ==
  /\ SlotsInit
  /\ tree \in [Files -> Fresh]
  /\ scan = NoFile /\ unopened = {}
  /\ tar = [next |-> 1, open |-> NoFile, data |-> <<>>, at |-> 0, owed |-> 0]
  /\ wire = <<>> /\ conn = "idle"
  /\ phase = "start"
  /\ plan = <<>> /\ digests = {} /\ member = Idle
  /\ local = <<>> /\ row = <<>>
  /\ pool = [f \in Files |-> "idle"] /\ tries = [f \in Files |-> 0]
  /\ edits = 0 /\ faults = 0 /\ changed = {} /\ trouble = FALSE

(***************************************************************************)
(* The tree and its writers.                                               *)
(***************************************************************************)
Edited(f) ==
  /\ edits < MaxEdits /\ edits' = edits + 1
  /\ changed' = changed \cup {f}
  /\ UNCHANGED <<slotVars, scan, unopened, wire, conn, clientVars, poolVars, faults, trouble>>

\* An open handle reads what is written in place, and the old file otherwise.
Rewrite(f, c) ==
  /\ f \in DOMAIN tree /\ c # tree[f]
  /\ tree' = [tree EXCEPT ![f] = c]
  /\ tar' = IF InPlace /\ tar.open = f THEN [tar EXCEPT !.data = c] ELSE tar
  /\ Edited(f)

Remove(f) ==
  /\ f \in DOMAIN tree
  /\ tree' = Restrict(tree, DOMAIN tree \ {f})
  /\ UNCHANGED tar
  /\ Edited(f)

(***************************************************************************)
(* The agent: handleArchive.                                               *)
(***************************************************************************)
\* manifestFor under the key of the archive.  A manifest stored for another
\* client may be older than the request when manifest_ttl is set.
ScanTree ==
  /\ scan = NoFile
  /\ conn = "asked" \/ (Ttl /\ conn = "idle")
  /\ scan' = [f \in DOMAIN tree |-> Len(tree[f])]
  /\ UNCHANGED <<slotVars, treeVars, tar, unopened, wire, conn, clientVars, poolVars,
                 faults, trouble>>

\* The request has its manifest and asks for a slot, even if its client left.
AskSlot ==
  /\ scan # NoFile /\ conn # "idle"
  /\ Acquire(Bulk)
  /\ UNCHANGED <<treeVars, agentVars, wire, conn, clientVars, poolVars, faults, trouble>>

ClientGone == conn = "closed"
Entry == Order[tar.next]
Handling ==
  /\ handler[Bulk] = "serving"
  /\ UNCHANGED <<treeVars, scan, conn, clientVars, poolVars>>
Streaming == Handling /\ UNCHANGED <<unopened, faults, trouble>>
Fails == faults < MaxFaults /\ faults' = faults + 1
Writing == Streaming /\ ~ ClientGone /\ Len(wire) < Buffer /\ UNCHANGED slotVars
Closed == tar.open = NoFile

\* A file that is gone, or was not on the walk, gets no member.
SkipEntry ==
  /\ Streaming /\ UNCHANGED <<slotVars, wire>>
  /\ Closed /\ tar.next <= Len(Order)
  /\ Entry \notin DOMAIN scan \cap DOMAIN tree
  /\ tar' = [tar EXCEPT !.next = @ + 1]

\* Nor does one that is there but that the agent cannot open: no permission,
\* another process that does not share it, no file handle left.
OpenFails ==
  /\ Handling /\ UNCHANGED <<slotVars, wire, trouble>>
  /\ Closed /\ tar.next <= Len(Order)
  /\ Entry \in DOMAIN scan \cap DOMAIN tree
  /\ Fails
  /\ unopened' = unopened \cup {Entry}
  /\ tar' = [tar EXCEPT !.next = @ + 1]

\* WriteHeader with the size of the walk, if the member before is complete.
OpenEntry ==
  /\ Writing
  /\ Closed /\ tar.next <= Len(Order) /\ tar.owed = 0
  /\ Entry \in DOMAIN scan \cap DOMAIN tree
  /\ tar' = [tar EXCEPT !.open = Entry, !.data = tree[Entry], !.at = 0, !.owed = scan[Entry]]
  /\ wire' = Append(wire, [kind |-> "header", file |-> Entry, size |-> scan[Entry]])

CopyBlock ==
  /\ Writing
  /\ ~ Closed /\ tar.at < Len(tar.data) /\ tar.owed > 0
  /\ tar' = [tar EXCEPT !.at = @ + 1, !.owed = @ - 1]
  /\ wire' = Append(wire, [kind |-> "block", data |-> tar.data[tar.at + 1]])

\* io.Copy meets the end of the file, whether or not the member is complete.
EndEntry ==
  /\ Streaming /\ UNCHANGED <<slotVars, wire>>
  /\ ~ Closed /\ tar.at >= Len(tar.data)
  /\ tar' = [tar EXCEPT !.open = NoFile, !.next = @ + 1]

\* Mutant: the loop over the entries ends one early.
ReturnDueEarly ==
  \/ ClientGone
  \/ Closed /\ tar.next >= Len(Order)
  \/ Closed /\ tar.next <= Len(Order) /\ tar.owed > 0 /\ Entry \in DOMAIN scan \cap DOMAIN tree
  \/ ~ Closed /\ tar.at < Len(tar.data) /\ tar.owed = 0

\* The handler returns: after the last entry; at the header after a member
\* that came out short (missed writing); at a file that is longer than its
\* header (ErrWriteTooLong); when the client is gone.  tar and gzip are
\* closed on every path, so that the stream always looks like a whole one.
ReturnDue ==
  \/ ClientGone
  \/ Closed /\ tar.next > Len(Order)
  \/ Closed /\ tar.next <= Len(Order) /\ tar.owed > 0 /\ Entry \in DOMAIN scan \cap DOMAIN tree
  \/ ~ Closed /\ tar.at < Len(tar.data) /\ tar.owed = 0

Returned ==
  /\ Release(Bulk)
  /\ tar' = [tar EXCEPT !.open = NoFile]
  /\ wire' = IF ClientGone THEN <<>> ELSE Append(wire, [kind |-> "end"])

Return == Streaming /\ ReturnDue /\ Returned

\* io.Copy cannot read on: the handler returns with the member cut short.
CopyFails ==
  /\ Handling /\ UNCHANGED unopened
  /\ ~ Closed
  /\ Fails /\ trouble' = TRUE
  /\ Returned

RefuseArchive ==
  /\ Refuse(Bulk)
  /\ UNCHANGED <<treeVars, agentVars, wire, conn, clientVars, poolVars, faults>>
  /\ trouble' = TRUE

(***************************************************************************)
(* The client: bulkTransfer and writeFromArchive.                          *)
(***************************************************************************)
\* The plan of a cold start: some files are wanted, some entries carry digests,
\* and the run asks for the archive.
OpenArchive ==
  /\ phase = "start" /\ phase' = "bulk" /\ conn' = "asked"
  /\ \E want \in SUBSET DOMAIN tree \ {{}} : plan' = Restrict(tree, want)
  /\ digests' \in SUBSET DOMAIN plan'
  /\ changed' = {}
  /\ UNCHANGED <<slotVars, tree, edits, agentVars, wire, member, local, row,
                 poolVars, faults, trouble>>

\* The body is closed on every way out; what was under way is lost.
ToPool ==
  /\ phase' = "pool" /\ conn' = "closed" /\ wire' = <<>> /\ member' = Idle
  /\ UNCHANGED <<slotVars, treeVars, agentVars, plan, digests, local, row, poolVars>>

Answered ==
  /\ conn = "asked" /\ handler[Bulk] \in {"serving", "over"} /\ conn' = "body"
  /\ UNCHANGED <<slotVars, treeVars, agentVars, wire, clientVars, poolVars, faults, trouble>>

AnsweredBusy ==
  /\ conn = "asked" /\ handler[Bulk] = "busy"
  /\ ToPool /\ UNCHANGED <<faults, trouble>>

\* No answer in time, a failed walk, a broken stream: fall back to the pool.
ArchiveBreaks ==
  /\ conn \in {"asked", "body"}
  /\ Fails
  /\ trouble' = TRUE
  /\ ToPool

Reading == conn = "body" /\ wire # <<>>
Received ==
  /\ wire' = Tail(wire)
  /\ UNCHANGED <<slotVars, treeVars, agentVars, conn, phase, plan, digests, local, row,
                 poolVars, faults, trouble>>

ReadHeader ==
  /\ Reading /\ member = Idle /\ Head(wire).kind = "header"
  /\ LET h == Head(wire) IN
     member' = [file |-> h.file, need |-> h.size, got |-> <<>>, keep |-> h.file \in DOMAIN plan]
  /\ Received

ReadBlock ==
  /\ Reading /\ Head(wire).kind = "block"
  /\ member' = [member EXCEPT !.need = @ - 1, !.got = Append(@, Head(wire).data)]
  /\ Received

\* Mutant: only an end between two members is recognised.
ReadEndWhole ==
  /\ Reading /\ Head(wire).kind = "end"
  /\ member = Idle
  /\ ToPool /\ UNCHANGED <<faults, trouble>>

\* End of the stream, which may cut a member short.
ReadEnd ==
  /\ Reading /\ Head(wire).kind = "end"
  /\ member = Idle \/ member.need > 0
  /\ ToPool /\ UNCHANGED <<faults, trouble>>

\* The destination fails a member: the rest of it is drained.
DiskFails ==
  /\ member.keep
  /\ Fails
  /\ trouble' = TRUE
  /\ member' = [member EXCEPT !.keep = FALSE]
  /\ UNCHANGED <<slotVars, treeVars, agentVars, wire, conn, phase, plan, digests, local, row, poolVars>>

\* Mutant: the size is not compared.
FitsAnySize(f, c) == f \in digests => c = plan[f]

\* Size and, where the entry has one, digest of the plan's manifest.
Fits(f, c) ==
  /\ Len(c) = Len(plan[f])
  /\ f \in digests => c = plan[f]

\* Rename into place and journal row.
Install(f, c) ==
  /\ local' = [g \in DOMAIN local \cup {f} |-> IF g = f THEN c ELSE local[g]]
  /\ row' = [g \in DOMAIN row \cup {f} |->
               IF g # f THEN row[g] ELSE IF f \in digests THEN plan[f] ELSE c]

\* Mutant: a member is installed without the size and digest checks.
EndMemberUnchecked ==
  /\ member.file # NoFile /\ member.need = 0
  /\ member' = Idle
  /\ IF member.keep THEN Install(member.file, member.got) ELSE UNCHANGED <<local, row>>
  /\ UNCHANGED <<slotVars, treeVars, agentVars, wire, conn, phase, plan, digests,
                 poolVars, faults, trouble>>

\* A complete member is installed if it is wanted and fits its entry.
EndMember ==
  /\ member.file # NoFile /\ member.need = 0
  /\ member' = Idle
  /\ IF member.keep /\ Fits(member.file, member.got)
     THEN Install(member.file, member.got)
     ELSE UNCHANGED <<local, row>>
  /\ UNCHANGED <<slotVars, treeVars, agentVars, wire, conn, phase, plan, digests,
                 poolVars, faults, trouble>>

(***************************************************************************)
(* The pool: downloadAll for what the archive left, module Transfer as one *)
(* step per attempt.                                                       *)
(***************************************************************************)
Left == DOMAIN plan \ DOMAIN row
Busy == {f \in Files : pool[f] \in {"asked", "retry"}}
Req(f) == <<f, tries[f]>>

Fetch(f) ==
  /\ phase = "pool" /\ f \in Left /\ tries[f] < Attempts
  /\ pool[f] = "retry" \/ (pool[f] = "idle" /\ Cardinality(Busy) < Workers)
  /\ tries' = [tries EXCEPT ![f] = @ + 1]
  /\ pool' = [pool EXCEPT ![f] = "asked"]
  /\ Acquire(<<f, tries[f] + 1>>)
  /\ UNCHANGED <<treeVars, agentVars, wire, conn, clientVars, faults, trouble>>

AttemptFails(f) ==
  pool' = [pool EXCEPT ![f] = IF tries[f] < Attempts THEN "retry" ELSE "failed"]

Served(f) ==
  /\ pool[f] = "asked"
  /\ Release(Req(f))
  /\ UNCHANGED <<treeVars, agentVars, wire, conn, phase, plan, digests, member, tries,
                 faults, trouble>>

Arrives(f) ==
  /\ Served(f)
  /\ f \in DOMAIN tree /\ Fits(f, tree[f])
  /\ Install(f, tree[f])
  /\ pool' = [pool EXCEPT ![f] = "ok"]

\* Another digest is tried again, another size or a 404 is not.
Misfits(f) ==
  /\ Served(f)
  /\ UNCHANGED <<local, row>>
  /\ IF f \notin DOMAIN tree
     THEN pool' = [pool EXCEPT ![f] = "failed"]
     ELSE /\ ~ Fits(f, tree[f])
          /\ IF f \in digests THEN AttemptFails(f)
                              ELSE pool' = [pool EXCEPT ![f] = "failed"]

\* The file is there but not readable for the agent (403), or no regular file
\* (400): neither is tried again.
Denied(f) ==
  /\ pool[f] = "asked"
  /\ Release(Req(f))
  /\ Fails /\ trouble' = TRUE
  /\ pool' = [pool EXCEPT ![f] = "failed"]
  /\ UNCHANGED <<treeVars, agentVars, wire, conn, clientVars, tries>>

Refused(f) ==
  /\ pool[f] = "asked" /\ handler[Req(f)] = "busy"
  /\ AttemptFails(f)
  /\ trouble' = TRUE
  /\ UNCHANGED <<slotVars, treeVars, agentVars, wire, conn, clientVars, tries, faults>>

\* The client gives an attempt up; its handler may wait or work on.
AttemptBreaks(f) ==
  /\ pool[f] = "asked"
  /\ Fails
  /\ AttemptFails(f)
  /\ trouble' = TRUE
  /\ UNCHANGED <<slotVars, treeVars, agentVars, wire, conn, clientVars, tries>>

\* Mutant: the run does not wait for its workers.
EndPoolEarly ==
  /\ phase = "pool" /\ phase' = "end"
  /\ \A f \in Left : pool[f] # "idle"
  /\ UNCHANGED <<slotVars, treeVars, agentVars, wire, conn, plan, digests, member,
                 local, row, poolVars, faults, trouble>>

EndPool ==
  /\ phase = "pool" /\ phase' = "end"
  /\ \A f \in Left : pool[f] = "failed"
  /\ UNCHANGED <<slotVars, treeVars, agentVars, wire, conn, plan, digests, member,
                 local, row, poolVars, faults, trouble>>

(***************************************************************************)
(* Other handlers: those whose client left, and those of other clients.    *)
(***************************************************************************)
Deserted == {q \in Files \X (1 .. Attempts) : ~ (pool[q[1]] = "asked" /\ tries[q[1]] = q[2])}

\* A handler whose client left fails at its next write, and whoever waits for
\* a slot waits 30 s at most.
Others ==
  /\ UNCHANGED <<treeVars, agentVars, wire, conn, clientVars, poolVars, faults, trouble>>
  /\ \/ \E q \in Deserted : Release(q)
     \/ \E q \in Requests \ {Bulk} : Refuse(q)

\* The server has no write timeout: a client that stops reading keeps its slot.
RivalReads(r) ==
  /\ Release(<<r, 1>>)
  /\ UNCHANGED <<treeVars, agentVars, wire, conn, clientVars, poolVars, faults, trouble>>

\* Bound: another client comes before this one.
RivalAsks(r) ==
  /\ phase = "start"
  /\ Acquire(<<r, 1>>)
  /\ UNCHANGED <<treeVars, agentVars, wire, conn, clientVars, poolVars, faults, trouble>>

Agent ==
  \/ ScanTree \/ AskSlot \/ RefuseArchive
  \/ SkipEntry \/ OpenEntry \/ CopyBlock \/ EndEntry \/ Return \/ Others
Client ==
  \/ OpenArchive \/ Answered \/ AnsweredBusy
  \/ ReadHeader \/ ReadBlock \/ ReadEnd \/ EndMember \/ EndPool
Worker(f) == Fetch(f) \/ Arrives(f) \/ Misfits(f) \/ Refused(f)
Faults ==
  \/ OpenFails \/ CopyFails \/ ArchiveBreaks \/ DiskFails
  \/ \E f \in Files : Denied(f) \/ AttemptBreaks(f)
Writers == \E f \in Files : Remove(f) \/ \E c \in Contents : Rewrite(f, c)

Next ==
  \/ Agent \/ Client \/ Faults \/ Writers
  \/ \E f \in Files : Worker(f)
  \/ \E r \in Rivals : RivalAsks(r) \/ RivalReads(r)

Spec == Init /\ [][Next]_vars

\* The handlers of this client go on, those whose client left end, slots wait
\* 30 s at most, workers and unpacking go on.  Nothing makes a client ask,
\* another client read, a writer write or a fault happen.
FairSpec ==
  /\ Spec
  /\ WF_vars(Agent) /\ WF_vars(Client)
  /\ \A f \in Files : WF_vars(Worker(f))

(***************************************************************************)
(* Properties.                                                             *)
(***************************************************************************)
\* What was installed is what the plan describes, except where the entry has no
\* digest, the file changed since the plan and the size happens to fit: a
\* stream over a moving tree cannot do worse (sync.go writeFromArchive).
InstalledAsPlanned ==
  \A f \in DOMAIN local :
    \/ local[f] = plan[f]
    \/ f \in changed \ digests /\ Len(local[f]) = Len(plan[f])

\* A journal row written by the archive or the pool describes the file that is
\* there (sync.go download, writeFromArchive).
RowsMatchFiles == \A f \in DOMAIN row : f \in DOMAIN local /\ row[f] = local[f]

\* Rows are true of the files, whichever way these came, and everything keeps its type.
ArchiveInv == TypeOK /\ RowsMatchFiles

\* The archive is an optimisation (docs/PROTOCOL.md:123-126): whatever it drops,
\* every planned file is in place or failed at the end, and a file fails only
\* if it changed or something went wrong.
NothingForgotten ==
  /\ phase = "end" => \A f \in DOMAIN plan : f \in DOMAIN row \/ pool[f] = "failed"
  /\ \A f \in Files : pool[f] = "failed" => f \in changed \/ trouble

\* A tree that stays as the archive's walk and the plan saw it arrives whole in
\* one request: no member is lost and none is fetched a second time, except
\* the very files that the agent could not open (server.go:480-484).
QuietArchiveIsWhole ==
  /\ phase \in {"pool", "end"} /\ ~ trouble /\ handler[Bulk] # "busy"
  /\ changed = {} /\ scan = [f \in DOMAIN tree |-> Len(tree[f])]
  => DOMAIN plan \ unopened \subseteq DOMAIN row /\ \A f \in Files \ unopened : tries[f] = 0

\* A run that began ends, whoever holds the slots and does not give them back.
RunEnds == phase = "bulk" ~> phase = "end"

\* In the end nobody waits, and the slots that are taken are held by other
\* clients who do not read: handlers of this client give theirs back, the ones
\* it deserted included (server.go:439, 449, 509-523).
OthersHold == {q \in Rivals \X {1} : handler[q] = "serving"}
SlotsReturn == <>[](blocked = <<>> /\ sem = Cardinality(OthersHold))
=============================================================================
