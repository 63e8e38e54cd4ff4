------------------------------ MODULE SyncRun -------------------------------
(***************************************************************************)
(* The runs of one sync job (client/sync.go, plan.go, state.go): fetch the *)
(* manifest, compare it with the destination and the journal, realign      *)
(* stamps, download with a pool of workers, delete what the agent no       *)
(* longer has, save the journal.  Meanwhile the agent's files change,      *)
(* somebody edits the destination, and the process is cancelled or dies.   *)
(*                                                                         *)
(* A file is its size, its modification time and the digest of its         *)
(* content.  Times are seconds on one clock.  A transfer is one step,      *)
(* module Transfer opens it up.  Left out: a run that cannot reach the     *)
(* agent, gets a truncated manifest or is dry, which changes nothing; paths*)
(* that exclude rules match, which plan and mirror both pass over;         *)
(* directories and symbolic links.                                         *)
(***************************************************************************)
EXTENDS Naturals, FiniteSets

CONSTANTS Files, Contents,
          SizeOf,       \* the size of each content
          MaxSize,      \* sync.max_file_size_mb
          Verify,       \* verify: "sha256", "size-mtime" or "none"
          Digests,      \* manifest entries carry digests: "all", "some" or "none"
          KeepMTime,    \* preserve_mtime, on a file system that keeps times
          DeleteExtra,  \* local.delete_extra
          StopOnError,  \* sync.stop_on_error
          Workers,      \* sync.concurrency
          Bulk,         \* the archive path is enabled and the tree is large enough
          Flaky,        \* files the agent's walk may fail to read
          EditsInRun,   \* the destination may be edited during a run
          AgentGaps, LocalGaps,   \* seconds from one change to the next
          MaxAgentEdits, MaxLocalEdits, MaxCancels, MaxCrashes,   \* bounds
          None, NoSum, Torn

Tolerance == 2

Copy == [size : Nat, mtime : Nat, sum : Contents \cup {Torn}]
Entry == [size : Nat, mtime : Nat, sum : Contents \cup {Torn, NoSum}]

ASSUME RunAssumption ==
    /\ SizeOf \in [Contents -> Nat]
    /\ MaxSize \in Nat /\ Flaky \subseteq Files
    /\ Verify \in {"sha256", "size-mtime", "none"}
    /\ Digests \in {"all", "some", "none"}
    /\ {KeepMTime, DeleteExtra, StopOnError, Bulk, EditsInRun} \subseteq BOOLEAN
    /\ Workers \in Nat \ {0}
    /\ AgentGaps \subseteq Nat \ {0} /\ LocalGaps \subseteq Nat \ {0}
    /\ {MaxAgentEdits, MaxLocalEdits, MaxCancels, MaxCrashes} \subseteq Nat
    /\ NoSum \notin Contents \cup {Torn} /\ Torn \notin Contents
    /\ None \notin Entry

VARIABLES
    clock, edits,     \* time; how many changes, signals and deaths there were
    agent,            \* the published files
    local,            \* the destination
    journal,          \* State.Entries in memory
    saved,            \* the journal file
    man, asOf,        \* the manifest of the run, and when it was taken
    pc,               \* how far the run is
    undecided,        \* manifest entries buildPlan has yet to look at
    adopt, queue, extras,   \* the plan
    busy,             \* files being downloaded
    errors, stopped,  \* a file failed; the pool was told to stop
    ctxDone,          \* SIGTERM
    result,           \* LastResult
    settled           \* ghost: nothing changed since a run began ("maybe") that left
                      \* nothing to do ("yes")

worldVars == <<clock, edits, agent>>
planVars == <<undecided, adopt, queue, extras>>
poolVars == <<busy, errors, stopped>>
runVars == <<man, asOf, pc, planVars, poolVars, ctxDone, result>>
vars == <<worldVars, local, journal, saved, runVars, settled>>

TypeOK ==
    /\ {clock, asOf} \subseteq Nat
    /\ edits \in [agent : 0..MaxAgentEdits, local : 0..MaxLocalEdits,
                  cancel : 0..MaxCancels, crash : 0..MaxCrashes]
    /\ {agent, local} \subseteq [Files -> Copy \cup {None}]
    /\ {journal, saved, man} \subseteq [Files -> Entry \cup {None}]
    /\ pc \in {"idle", "plan", "adopt", "bulk", "fetch", "remove"}
    /\ undecided \cup adopt \cup queue \cup extras \cup busy \subseteq Files
    /\ {errors, stopped, ctxDone} \subseteq BOOLEAN
    /\ settled \in {"no", "maybe", "yes"}
    /\ result \in {"", "ok", "partial"}
    /\ Cardinality(busy) <= Workers
    /\ queue \cap busy = {}

Nothing == [f \in Files |-> None]
CopyOf(c, t) == [size |-> SizeOf[c], mtime |-> t, sum |-> c]

\* The destination may hold anything older than what the agent publishes.
Init ==
    /\ clock = Tolerance /\ asOf = 0
    /\ edits = [agent |-> 0, local |-> 0, cancel |-> 0, crash |-> 0]
    /\ agent \in [Files -> {None} \cup {CopyOf(c, Tolerance) : c \in Contents}]
    /\ local \in [Files -> {None} \cup {CopyOf(c, 0) : c \in Contents}]
    /\ journal = Nothing /\ saved = Nothing /\ man = Nothing
    /\ pc = "idle"
    /\ undecided = {} /\ adopt = {} /\ queue = {} /\ extras = {} /\ busy = {}
    /\ errors = FALSE /\ stopped = FALSE /\ ctxDone = FALSE
    /\ result = ""
    /\ settled = "no"

-----------------------------------------------------------------------------
(* The two ends change on their own.                                       *)

AgentEdit(f) ==
    /\ edits.agent < MaxAgentEdits
    /\ \E gap \in AgentGaps, c \in Contents :
         /\ clock' = clock + gap
         /\ agent' = [agent EXCEPT ![f] = CopyOf(c, clock + gap)]
    /\ edits' = [edits EXCEPT !.agent = @ + 1]
    /\ settled' = "no"
    /\ UNCHANGED <<local, journal, saved, runVars>>

AgentRemove(f) ==
    /\ edits.agent < MaxAgentEdits
    /\ agent[f] # None
    /\ agent' = [agent EXCEPT ![f] = None]
    /\ edits' = [edits EXCEPT !.agent = @ + 1]
    /\ settled' = "no"
    /\ UNCHANGED <<clock, local, journal, saved, runVars>>

LocalEdit(f) ==
    /\ edits.local < MaxLocalEdits
    /\ EditsInRun \/ pc = "idle"
    /\ \E gap \in LocalGaps, c \in Contents :
         /\ clock' = clock + gap
         /\ local' = [local EXCEPT ![f] = CopyOf(c, clock + gap)]
    /\ edits' = [edits EXCEPT !.local = @ + 1]
    /\ settled' = "no"
    /\ UNCHANGED <<agent, journal, saved, runVars>>

LocalRemove(f) ==
    /\ edits.local < MaxLocalEdits
    /\ EditsInRun \/ pc = "idle"
    /\ local[f] # None
    /\ local' = [local EXCEPT ![f] = None]
    /\ edits' = [edits EXCEPT !.local = @ + 1]
    /\ settled' = "no"
    /\ UNCHANGED <<clock, agent, journal, saved, runVars>>

World == \E f \in Files :
            AgentEdit(f) \/ AgentRemove(f) \/ LocalEdit(f) \/ LocalRemove(f)

-----------------------------------------------------------------------------
(* The plan.                                                               *)

\* What the manifest may say of a file the agent has: with its digest or
\* without, and nothing at all if the walk could not read it.
EntriesFor(f) ==
    IF agent[f] = None THEN {None}
    ELSE (IF Digests = "none" THEN {} ELSE {agent[f]})
         \cup (IF Digests = "all" THEN {} ELSE {[agent[f] EXCEPT !.sum = NoSum]})
         \cup (IF f \in Flaky THEN {None} ELSE {})

\* Mutation of StartRun: the pool's context outlives the run that cancelled it.
StartRunStaysStopped ==
    /\ pc = "idle"
    /\ ~ctxDone
    /\ man' \in {m \in [Files -> UNION {EntriesFor(f) : f \in Files}] :
                   \A f \in Files : m[f] \in EntriesFor(f)}
    /\ asOf' = clock
    /\ pc' = "plan"
    /\ undecided' = {f \in Files : man'[f] # None /\ man'[f].size <= MaxSize}
    /\ adopt' = {} /\ queue' = {} /\ extras' = {} /\ busy' = {}
    /\ errors' = FALSE
    /\ settled' = IF settled = "no" THEN "maybe" ELSE settled
    /\ UNCHANGED <<worldVars, local, journal, saved, stopped, ctxDone, result>>

\* RunOnce starts: the agent answers with a manifest of its tree.
StartRun ==
    /\ pc = "idle"
    /\ ~ctxDone
    /\ man' \in {m \in [Files -> UNION {EntriesFor(f) : f \in Files}] :
                   \A f \in Files : m[f] \in EntriesFor(f)}
    /\ asOf' = clock
    /\ pc' = "plan"
    /\ undecided' = {f \in Files : man'[f] # None /\ man'[f].size <= MaxSize}
    /\ adopt' = {} /\ queue' = {} /\ extras' = {} /\ busy' = {}
    /\ errors' = FALSE /\ stopped' = FALSE
    /\ settled' = IF settled = "no" THEN "maybe" ELSE settled
    /\ UNCHANGED <<worldVars, local, journal, saved, ctxDone, result>>

\* sameModTime: less than two seconds apart.
Near(a, b) == a < b + Tolerance /\ b < a + Tolerance

\* The row says that content like the entry's was put in place, and the local
\* stamp is still the one it was given.
JournalHit(e, f) ==
    /\ journal[f] # None
    /\ journal[f].sum # NoSum
    /\ journal[f].size = e.size
    /\ journal[f].mtime = e.mtime
    /\ Near(local[f].mtime, e.mtime)
    /\ e.sum = NoSum \/ journal[f].sum = e.sum

\* decide's tests.  The local file is hashed only when neither the row nor the
\* lack of a digest settles the matter (whyContentSame).
SameSize(f) == local[f] # None /\ local[f].size = man[f].size
SameTime(f) == Near(local[f].mtime, man[f].mtime)
SameContent(f) ==
    /\ Verify = "sha256"
    /\ man[f].sum # NoSum
    /\ ~JournalHit(man[f], f)
    /\ local[f].sum = man[f].sum

\* decide: the file is left alone.
Skip(f) ==
    /\ SameSize(f)
    /\ \/ Verify = "none"
       \/ Verify = "size-mtime" /\ SameTime(f)
       \/ Verify = "sha256" /\ JournalHit(man[f], f)
       \/ Verify = "sha256" /\ man[f].sum = NoSum /\ SameTime(f)
       \/ SameContent(f)

\* noteUpToDate: the row of a file that needs no transfer.
Noted(f) ==
    [size  |-> man[f].size,
     mtime |-> IF Verify = "none" THEN 0 ELSE local[f].mtime,
     sum   |-> IF Verify = "sha256" THEN man[f].sum ELSE NoSum]

\* One round of buildPlan's loop.
PlanFile(f) ==
    /\ pc = "plan"
    /\ f \in undecided
    /\ undecided' = undecided \ {f}
    /\ IF Skip(f)
       THEN /\ journal' = [journal EXCEPT ![f] = Noted(f)]
            /\ adopt' = IF SameContent(f) THEN adopt \cup {f} ELSE adopt
            /\ UNCHANGED queue
       ELSE /\ queue' = queue \cup {f}
            /\ UNCHANGED <<journal, adopt>>
    /\ UNCHANGED <<worldVars, local, saved, man, asOf, pc, extras, poolVars, ctxDone,
                   result, settled>>

\* Mutation of EndPlan: files without a journal row are taken for strangers.
EndPlanByJournal ==
    /\ pc = "plan"
    /\ undecided = {}
    /\ extras' = {f \in Files : local[f] # None /\ journal[f] = None}
    /\ pc' = "adopt"
    /\ UNCHANGED <<worldVars, local, journal, saved, man, asOf, undecided, adopt, queue,
                   poolVars, ctxDone, result, settled>>

\* findExtras: local files that the manifest does not list and no rule excludes.
EndPlan ==
    /\ pc = "plan"
    /\ undecided = {}
    /\ extras' = {f \in Files : local[f] # None /\ man[f] = None}
    /\ pc' = "adopt"
    /\ UNCHANGED <<worldVars, local, journal, saved, man, asOf, undecided, adopt, queue,
                   poolVars, ctxDone, result, settled>>

-----------------------------------------------------------------------------
(* The transfer.                                                           *)

\* Mutation of AdoptFile: the row is written, the stamp is not.
AdoptFileKeepsStamp(f) ==
    /\ pc = "adopt"
    /\ f \in adopt
    /\ adopt' = adopt \ {f}
    /\ journal' = [journal EXCEPT ![f] = man[f]]
    /\ UNCHANGED <<worldVars, local, saved, man, asOf, pc, undecided, queue, extras,
                   poolVars, ctxDone, result, settled>>

\* The stamp of a file whose content already matched is realigned.
AdoptFile(f) ==
    /\ pc = "adopt"
    /\ f \in adopt
    /\ adopt' = adopt \ {f}
    /\ IF KeepMTime /\ local[f] # None
       THEN /\ local' = [local EXCEPT ![f].mtime = man[f].mtime]
            /\ journal' = [journal EXCEPT ![f] = man[f]]
       ELSE UNCHANGED <<local, journal>>
    /\ UNCHANGED <<worldVars, saved, man, asOf, pc, undecided, queue, extras, poolVars,
                   ctxDone, result, settled>>

\* shouldBulk: only a destination without a single journal row.
EndAdopt ==
    /\ pc = "adopt"
    /\ adopt = {}
    /\ pc' = IF Bulk /\ queue # {} /\ journal = Nothing THEN "bulk" ELSE "fetch"
    /\ UNCHANGED <<worldVars, local, journal, saved, man, asOf, planVars, poolVars,
                   ctxDone, result, settled>>

\* What a transfer of f may bring: exactly the content of a known digest, else
\* whatever the agent has of that size, or a mixture if it changed meanwhile.
Arrives(f) ==
    LET now == IF agent[f] = None THEN {} ELSE {agent[f].sum}
    IN IF man[f].sum # NoSum
       THEN now \cap {man[f].sum}
       ELSE {c \in now : SizeOf[c] = man[f].size}
            \cup (IF agent[f] # None /\ agent[f].mtime # man[f].mtime THEN {Torn} ELSE {})

\* The staging file is stamped and renamed over the destination, and the row is
\* written.  A stamp that is not kept is that of the transfer, which comes well
\* after the change it brings.
PutInPlace(f, d) ==
    /\ local' = [local EXCEPT ![f] =
                   [size |-> man[f].size, sum |-> d,
                    mtime |-> IF KeepMTime THEN man[f].mtime ELSE clock + Tolerance]]
    /\ journal' = [journal EXCEPT ![f] =
                     [size |-> man[f].size, mtime |-> man[f].mtime, sum |-> d]]

\* A member of the archive stream that the plan asked for.
BulkMember(f) ==
    /\ pc = "bulk"
    /\ f \in queue
    /\ ~ctxDone
    /\ \E d \in Arrives(f) : PutInPlace(f, d)
    /\ queue' = queue \ {f}
    /\ UNCHANGED <<worldVars, saved, man, asOf, pc, undecided, adopt, extras, poolVars,
                   ctxDone, result, settled>>

\* The archive ends, breaks or never came; what is left goes file by file.
BulkEnds ==
    /\ pc = "bulk"
    /\ pc' = "fetch"
    /\ UNCHANGED <<worldVars, local, journal, saved, man, asOf, planVars, poolVars,
                   ctxDone, result, settled>>

\* Mutation of Take: the index is advanced after the lock is given up.
TakeUnlocked(f) ==
    /\ pc = "fetch"
    /\ f \in queue
    /\ ~ctxDone /\ ~stopped
    /\ queue' \in {queue, queue \ {f}}
    /\ busy' = busy \cup {f}
    /\ UNCHANGED <<worldVars, local, journal, saved, man, asOf, pc, undecided, adopt,
                   extras, errors, stopped, ctxDone, result, settled>>

\* A worker takes the next file of the queue.
Take(f) ==
    /\ pc = "fetch"
    /\ f \in queue
    /\ Cardinality(busy) < Workers
    /\ ~ctxDone /\ ~stopped
    /\ queue' = queue \ {f}
    /\ busy' = busy \cup {f}
    /\ UNCHANGED <<worldVars, local, journal, saved, man, asOf, pc, undecided, adopt,
                   extras, errors, stopped, ctxDone, result, settled>>

DownloadOk(f) ==
    /\ pc = "fetch"
    /\ f \in busy
    /\ \E d \in Arrives(f) : PutInPlace(f, d)
    /\ busy' = busy \ {f}
    /\ UNCHANGED <<worldVars, saved, man, asOf, pc, planVars, errors, stopped, ctxDone,
                   result, settled>>

\* Mutation of DownloadFails: the error is logged and not counted.
DownloadFailsSilently(f) ==
    /\ pc = "fetch"
    /\ f \in busy
    /\ busy' = busy \ {f}
    /\ UNCHANGED <<worldVars, local, journal, saved, man, asOf, pc, planVars, errors,
                   stopped, ctxDone, result, settled>>

\* The transfer of f fails for this run.
DownloadFails(f) ==
    /\ pc = "fetch"
    /\ f \in busy
    /\ busy' = busy \ {f}
    /\ errors' = TRUE
    /\ stopped' = (stopped \/ StopOnError)
    /\ UNCHANGED <<worldVars, local, journal, saved, man, asOf, pc, planVars, ctxDone,
                   result, settled>>

\* Every worker has found the queue empty, or the context done.
EndFetch ==
    /\ pc = "fetch"
    /\ busy = {}
    /\ queue = {} \/ ctxDone \/ stopped
    /\ pc' = "remove"
    /\ UNCHANGED <<worldVars, local, journal, saved, man, asOf, planVars, poolVars,
                   ctxDone, result, settled>>

-----------------------------------------------------------------------------
(* The end of a run.                                                       *)

\* removeExtras: the file goes, and its row with it.
RemoveExtra(f) ==
    /\ pc = "remove"
    /\ DeleteExtra
    /\ f \in extras
    /\ local[f] # None
    /\ extras' = extras \ {f}
    /\ local' = [local EXCEPT ![f] = None]
    /\ journal' = [journal EXCEPT ![f] = None]
    /\ UNCHANGED <<worldVars, saved, man, asOf, pc, undecided, adopt, queue, poolVars,
                   ctxDone, result, settled>>

\* The file is gone already, or cannot be deleted: a warning, its row stays.
RemoveFails(f) ==
    /\ pc = "remove"
    /\ DeleteExtra
    /\ f \in extras
    /\ extras' = extras \ {f}
    /\ UNCHANGED <<worldVars, local, journal, saved, man, asOf, pc, undecided, adopt,
                   queue, poolVars, ctxDone, result, settled>>

Pruned == [f \in Files |-> IF man[f] = None THEN None ELSE journal[f]]

\* The manifest describes the agent's files as they are.
UpToDate(f) ==
    IF agent[f] = None THEN man[f] = None
    ELSE man[f] \in {agent[f], [agent[f] EXCEPT !.sum = NoSum]}

\* Save: the journal file is replaced, or stays if that fails, which is only logged.
Save(j) == saved' \in {saved, j}

\* Journal rows of unpublished files go, the result is recorded, the journal is
\* written.
Finish ==
    /\ pc = "remove"
    /\ DeleteExtra => extras = {}
    /\ journal' = Pruned
    /\ Save(Pruned)
    /\ result' = IF errors THEN "partial" ELSE "ok"
    /\ pc' = "idle"
    /\ settled' = IF /\ settled # "no" /\ queue = {} /\ ~errors
                     /\ \A f \in Files : UpToDate(f)
                  THEN "yes" ELSE "no"
    /\ UNCHANGED <<worldVars, local, man, asOf, planVars, poolVars, ctxDone>>

\* SIGTERM.
Cancel ==
    /\ edits.cancel < MaxCancels
    /\ pc # "idle"
    /\ ~ctxDone
    /\ ctxDone' = TRUE
    /\ edits' = [edits EXCEPT !.cancel = @ + 1]
    /\ UNCHANGED <<clock, agent, local, journal, saved, man, asOf, pc, planVars, poolVars,
                   result, settled>>

\* The cancelled process exits; the next one starts from the journal file.
Restart ==
    /\ pc = "idle"
    /\ ctxDone
    /\ ctxDone' = FALSE
    /\ journal' = saved
    /\ UNCHANGED <<worldVars, local, saved, man, asOf, pc, planVars, poolVars, result,
                   settled>>

\* The process dies at any step of a run; rows not saved are lost.
Crash ==
    /\ pc # "idle"
    /\ edits.crash < MaxCrashes
    /\ edits' = [edits EXCEPT !.crash = @ + 1]
    /\ pc' = "idle"
    /\ journal' = saved
    /\ ctxDone' = FALSE
    /\ undecided' = {} /\ adopt' = {} /\ queue' = {} /\ extras' = {} /\ busy' = {}
    /\ UNCHANGED <<clock, agent, local, saved, man, asOf, errors, stopped, result,
                   settled>>

RunStep ==
    \/ StartRun \/ EndPlan \/ EndAdopt \/ BulkEnds \/ EndFetch \/ Finish \/ Restart
    \/ \E f \in Files : PlanFile(f) \/ AdoptFile(f) \/ BulkMember(f) \/ Take(f)

Next ==
    \/ World
    \/ RunStep
    \/ \E f \in Files : \/ DownloadOk(f) \/ DownloadFails(f)
                        \/ RemoveExtra(f) \/ RemoveFails(f)
    \/ Cancel
    \/ Crash

Spec == Init /\ [][Next]_vars

\* Runs follow each other and take their steps; a download or a deletion that is
\* tried in run after run gets through in the end.
Fairness ==
    /\ WF_vars(RunStep)
    /\ \A f \in Files :
          /\ WF_vars(DownloadOk(f) \/ DownloadFails(f)) /\ SF_vars(DownloadOk(f))
          /\ WF_vars(RemoveExtra(f) \/ RemoveFails(f)) /\ SF_vars(RemoveExtra(f))

FairSpec == Spec /\ Fairness

-----------------------------------------------------------------------------
(* Properties.                                                             *)

\* The journal never vouches for content the destination does not hold: where
\* decide would skip a file by its row against what the agent publishes now, the
\* two contents are equal, whatever was edited, deleted, cancelled or lost.
JournalTruthful ==
    \A f \in Files :
        agent[f] # None /\ local[f] # None /\ local[f].size = agent[f].size
            /\ JournalHit(agent[f], f) => local[f].sum = agent[f].sum

\* The state of a run is well-formed and its journal is truthful.
SyncInv == TypeOK /\ JournalTruthful

\* A run that ends "ok" and was not cancelled leaves, for every file of its
\* manifest, a copy of the listed size and, where a digest is listed, of that
\* digest.
OkMeansComplete ==
    [][Finish /\ result' = "ok" /\ ~ctxDone =>
         \A f \in Files : man[f] # None /\ man[f].size <= MaxSize =>
            /\ local[f] # None
            /\ local[f].size = man[f].size
            /\ man[f].sum # NoSum => local[f].sum = man[f].sum]_vars

\* Mirror mode deletes a file only if the agent has not had it since the run's
\* manifest was taken (sync.go:586), or its walk could not read it (scan.go:97).
DeletesOnlyUnpublished ==
    [][\A f \in Files : pc = "remove" /\ local[f] # None /\ local'[f] = None
                          => \/ agent[f] = None \/ agent[f].mtime > asOf
                             \/ f \in Flaky]_vars

\* A file edited between the plan and the realignment of its stamp (sync.go:233) looks
\* in every respect but its content like what the agent publishes.
Masked(f) ==
    /\ EditsInRun /\ KeepMTime /\ Verify = "sha256"
    /\ local[f] # None /\ agent[f] # None
    /\ local[f].size = agent[f].size /\ local[f].mtime = agent[f].mtime
    /\ local[f].sum # agent[f].sum

\* A run in and after which nothing changed is followed by runs that transfer nothing,
\* whichever digests their manifests carry, but to put right a masked file.
NoRedundantTransfer ==
    settled = "yes" => \A f \in queue \cup busy : Masked(f)

\* Once both ends are left alone, the destination becomes and stays a copy of
\* what the agent publishes.
Mirrored ==
    \A f \in Files :
        /\ agent[f] = None => (DeleteExtra => local[f] = None)
        /\ agent[f] # None /\ agent[f].size <= MaxSize
              => local[f] # None /\ (local[f].sum = agent[f].sum \/ Masked(f))

EventuallyMirrored == <>[]Mirrored
=============================================================================
