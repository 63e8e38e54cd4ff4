---------------------------- MODULE SyncRunProofs ----------------------------
(***************************************************************************)
(* Proofs about the runs of a job.  What the journal says is true because  *)
(* of when things happened: a row carries the time of the entry it was     *)
(* written for, a time is given to one version of a file only, and whoever *)
(* edits the destination does so at a time of their own.  The invariants   *)
(* below say that of every file, for its row in memory and its row on disk.*)
(***************************************************************************)
EXTENDS SyncRun, FiniteSetTheorems, TLAPS

\* preserve_mtime is on, and nobody edits the destination within the tolerance of
\* sameModTime after the file before was made (sync.go:35, plan.go decide).
StampsKept ==
  /\ KeepMTime
  /\ \A gap \in LocalGaps : gap >= Tolerance

\* The same of the agent's files: two changes are never within the tolerance.
ChangesApart ==
  /\ StampsKept
  /\ \A gap \in AgentGaps : gap >= Tolerance

(***************************************************************************)
(* Types and phases of a run.                                              *)
(***************************************************************************)
Phases ==
  /\ IsFiniteSet(busy)
  /\ pc # "plan" => undecided = {}
  /\ pc \notin {"plan", "adopt"} => adopt = {}
  /\ pc # "fetch" => busy = {}
  /\ undecided \cup adopt \cup queue \cup busy \subseteq {f \in Files : man[f] # None}
  /\ \A f \in extras : man[f] = None
  /\ adopt # {} => Verify = "sha256"
  /\ stopped => errors
  /\ pc = "remove" => queue = {} \/ ctxDone \/ errors

(***************************************************************************)
(* Times.                                                                  *)
(***************************************************************************)
\* Nothing is from the future.
Past(x) == x # None => x.mtime <= clock

\* An entry of a running run describes the agent's file, or this is newer than the run.
EntryIsFresh(f) ==
  pc # "idle" =>
    /\ man[f] # None => man[f].mtime <= asOf
    /\ agent[f] # None =>
         \/ agent[f].mtime > asOf
         \/ man[f] = None /\ f \in Flaky
         \/ /\ man[f] # None /\ man[f].size = agent[f].size /\ man[f].mtime = agent[f].mtime
            /\ man[f].sum \in {agent[f].sum, NoSum}

\* The journal file is older than the run.
SavedIsOld(f) == pc # "idle" /\ saved[f] # None => saved[f].mtime <= asOf

\* A local file with the agent's stamp got it from an entry with that stamp.
StampIsListed(f) ==
  pc # "idle" /\ man[f] # None /\ agent[f] # None /\ local[f] # None
    /\ local[f].mtime = agent[f].mtime
    => man[f].mtime = agent[f].mtime

\* A row with the agent's stamp has the digest of that version.
RowOfAgent(r, f) ==
  r # None /\ agent[f] # None /\ r.mtime = agent[f].mtime /\ r.sum # NoSum
    => r.sum = agent[f].sum

\* A file whose stamp will be realigned holds what its entry says, if it is left alone.
AdoptedIsSame(f) ==
  f \in adopt /\ ~ EditsInRun =>
    /\ local[f] # None /\ man[f].sum # NoSum
    /\ local[f].size = man[f].size /\ local[f].sum = man[f].sum

\* A row that vouches for a local file against an entry knows its content, unless the
\* file was edited before its stamp was realigned to that of the entry.
Honest(r, e, f) ==
  r # None /\ r.sum # NoSum /\ e # None /\ r.size = e.size /\ r.mtime = e.mtime
    /\ local[f] # None /\ local[f].size = e.size /\ Near(local[f].mtime, e.mtime)
    => \/ local[f].sum = r.sum
       \/ EditsInRun /\ Verify = "sha256" /\ local[f].mtime = e.mtime

RowsAreHonest(f) ==
  /\ Honest(journal[f], agent[f], f)
  /\ Honest(saved[f], agent[f], f)
  /\ pc # "idle" => Honest(journal[f], man[f], f)

\* What holds of every run, whatever the configuration.
RunInductive ==
  /\ TypeOK /\ Phases /\ asOf <= clock
  /\ \A f \in Files : Past(agent[f]) /\ EntryIsFresh(f)

\* What holds of a file when stamps are kept.
FileIsKnown(f) ==
  /\ Past(local[f]) /\ Past(journal[f]) /\ Past(saved[f]) /\ SavedIsOld(f)
  /\ StampIsListed(f) /\ AdoptedIsSame(f)
  /\ RowOfAgent(journal[f], f) /\ RowOfAgent(saved[f], f)
  /\ RowsAreHonest(f)

JournalInductive == RunInductive /\ \A f \in Files : FileIsKnown(f)

(***************************************************************************)
(* Steps.                                                                  *)
(***************************************************************************)
LEMMA Seconds ==
  /\ AgentGaps \subseteq Nat \ {0} /\ LocalGaps \subseteq Nat \ {0}
  /\ {MaxAgentEdits, MaxLocalEdits, MaxCancels, MaxCrashes} \subseteq Nat
  /\ Workers \in Nat \ {0} /\ MaxSize \in Nat /\ Tolerance = 2
  /\ \A c \in Contents : SizeOf[c] \in Nat
  BY RunAssumption DEF Tolerance

LEMMA Kinds ==
  /\ None \notin Copy /\ None \notin Entry /\ Copy \subseteq Entry
  /\ \A x \in Entry : x.size \in Nat /\ x.mtime \in Nat /\ x.sum \in Contents \cup {Torn, NoSum}
  /\ \A x \in Copy : x.size \in Nat /\ x.mtime \in Nat /\ x.sum \in Contents \cup {Torn}
  /\ \A s \in Nat, t \in Nat, d \in Contents \cup {Torn} :
       [size |-> s, mtime |-> t, sum |-> d] \in Copy
  /\ \A s \in Nat, t \in Nat, d \in Contents \cup {Torn, NoSum} :
       [size |-> s, mtime |-> t, sum |-> d] \in Entry
  BY RunAssumption DEF Copy, Entry

FileTypes ==
  /\ agent \in [Files -> Copy \cup {None}] /\ local \in [Files -> Copy \cup {None}]
  /\ journal \in [Files -> Entry \cup {None}] /\ saved \in [Files -> Entry \cup {None}]
  /\ man \in [Files -> Entry \cup {None}]

RunTypes ==
  /\ clock \in Nat /\ asOf \in Nat
  /\ edits \in [agent : 0..MaxAgentEdits, local : 0..MaxLocalEdits,
                cancel : 0..MaxCancels, crash : 0..MaxCrashes]
  /\ pc \in {"idle", "plan", "adopt", "bulk", "fetch", "remove"}
  /\ undecided \subseteq Files /\ adopt \subseteq Files /\ queue \subseteq Files
  /\ extras \subseteq Files /\ busy \subseteq Files
  /\ errors \in BOOLEAN /\ stopped \in BOOLEAN /\ ctxDone \in BOOLEAN
  /\ settled \in {"no", "maybe", "yes"} /\ result \in {"", "ok", "partial"}
  /\ Cardinality(busy) <= Workers /\ queue \cap busy = {}

LEMMA Typed == TypeOK <=> FileTypes /\ RunTypes
<1>1. ASSUME TypeOK PROVE FileTypes
  <2>1. {agent, local} \subseteq [Files -> Copy \cup {None}]
        /\ {journal, saved, man} \subseteq [Files -> Entry \cup {None}]
    BY <1>1, Zenon DEF TypeOK
  <2> QED
    BY <2>1, Zenon DEF FileTypes
<1>2. ASSUME TypeOK PROVE RunTypes
  <2>1. {clock, asOf} \subseteq Nat /\ {errors, stopped, ctxDone} \subseteq BOOLEAN
        /\ undecided \cup adopt \cup queue \cup extras \cup busy \subseteq Files
    BY <1>2, Zenon DEF TypeOK
  <2>2. /\ clock \in Nat /\ asOf \in Nat
        /\ errors \in BOOLEAN /\ stopped \in BOOLEAN /\ ctxDone \in BOOLEAN
        /\ undecided \subseteq Files /\ adopt \subseteq Files /\ queue \subseteq Files
        /\ extras \subseteq Files /\ busy \subseteq Files
    BY <2>1, Zenon
  <2> QED
    BY <1>2, <2>2, Zenon DEF TypeOK, RunTypes
<1>3. ASSUME FileTypes, RunTypes PROVE TypeOK
  <2>1. {agent, local} \subseteq [Files -> Copy \cup {None}]
        /\ {journal, saved, man} \subseteq [Files -> Entry \cup {None}]
    BY <1>3, Zenon DEF FileTypes
  <2>2. {clock, asOf} \subseteq Nat /\ {errors, stopped, ctxDone} \subseteq BOOLEAN
        /\ undecided \cup adopt \cup queue \cup extras \cup busy \subseteq Files
    BY <1>3, Zenon DEF RunTypes
  <2> QED
    BY <1>3, <2>1, <2>2, Zenon DEF RunTypes, TypeOK
<1> QED
  BY <1>1, <1>2, <1>3

LEMMA FilesAre ==
  ASSUME FileTypes, NEW f \in Files
  PROVE  /\ agent[f] # None => agent[f] \in Copy
         /\ local[f] # None => local[f] \in Copy
         /\ journal[f] # None => journal[f] \in Entry
         /\ saved[f] # None => saved[f] \in Entry
         /\ man[f] # None => man[f] \in Entry
  BY DEF FileTypes

LEMMA RunCases ==
  ASSUME [Next]_vars
  PROVE  \/ UNCHANGED vars
         \/ StartRun \/ EndPlan \/ EndAdopt \/ BulkEnds \/ EndFetch \/ Finish
         \/ Restart \/ Cancel \/ Crash
         \/ \E f \in Files :
              \/ AgentEdit(f) \/ AgentRemove(f) \/ LocalEdit(f) \/ LocalRemove(f)
              \/ PlanFile(f) \/ AdoptFile(f) \/ BulkMember(f) \/ Take(f)
              \/ DownloadOk(f) \/ DownloadFails(f) \/ RemoveExtra(f) \/ RemoveFails(f)
  BY DEF Next, World, RunStep

LEMMA CopiesAre ==
  ASSUME NEW c \in Contents, NEW t \in Nat
  PROVE  CopyOf(c, t) \in Copy /\ CopyOf(c, t).mtime = t /\ CopyOf(c, t).sum = c
  BY Kinds, Seconds DEF CopyOf

\* What is put in place of f.
LEMMA PutTypes ==
  ASSUME FileTypes, clock \in Nat, NEW f \in Files, man[f] # None,
         NEW d \in Arrives(f), PutInPlace(f, d)
  PROVE  /\ d \in Contents \cup {Torn}
         /\ local' \in [Files -> Copy \cup {None}]
         /\ journal' \in [Files -> Entry \cup {None}]
<1>1. man[f] \in Entry /\ (agent[f] # None => agent[f] \in Copy)
  BY FilesAre
<1>2. d \in Contents \cup {Torn}
  BY <1>1, Kinds DEF Arrives
<1>3. /\ man[f].size \in Nat /\ man[f].mtime \in Nat /\ clock + Tolerance \in Nat
  BY <1>1, Kinds, Seconds
<1> DEFINE t == IF KeepMTime THEN man[f].mtime ELSE clock + Tolerance
<1>4. [size |-> man[f].size, sum |-> d, mtime |-> t] \in Copy
  BY <1>2, <1>3 DEF Copy
<1>5. [size |-> man[f].size, mtime |-> man[f].mtime, sum |-> d] \in Entry
  BY <1>2, <1>3 DEF Entry
<1>6. local \in [Files -> Copy \cup {None}] /\ journal \in [Files -> Entry \cup {None}]
  BY DEF FileTypes
<1> QED
  BY <1>2, <1>4, <1>5, <1>6 DEF PutInPlace

LEMMA FileTypesStep ==
  ASSUME FileTypes, RunTypes, Phases, [Next]_vars
  PROVE  FileTypes'
<1> USE DEF FileTypes
<1>0. clock \in Nat /\ asOf \in Nat
  BY DEF RunTypes
<1>1. CASE UNCHANGED vars
  BY <1>1 DEF vars, worldVars, runVars
<1>2. CASE StartRun
  <2>1. ASSUME NEW f \in Files PROVE EntriesFor(f) \subseteq Entry \cup {None}
    <3>1. CASE agent[f] = None
      BY <3>1 DEF EntriesFor
    <3>2. CASE agent[f] # None
      <4>1. agent[f] \in Copy
        BY <3>2
      <4>2. [agent[f] EXCEPT !.sum = NoSum] \in Entry
        BY <4>1 DEF Copy, Entry
      <4> QED
        BY <4>1, <4>2, Kinds DEF EntriesFor
    <3> QED
      BY <3>1, <3>2
  <2>2. /\ UNCHANGED <<agent, local, journal, saved>>
        /\ \E S : man' \in [Files -> S]
        /\ \A f \in Files : man'[f] \in EntriesFor(f)
    BY <1>2 DEF StartRun, worldVars
  <2>3. man' \in [Files -> Entry \cup {None}]
    BY <2>1, <2>2
  <2> QED
    BY <2>2, <2>3
<1>3. CASE EndPlan \/ EndAdopt \/ BulkEnds \/ EndFetch \/ Cancel
  BY <1>3 DEF EndPlan, EndAdopt, BulkEnds, EndFetch, Cancel, worldVars
<1>4. CASE Finish
  <2>1. Pruned \in [Files -> Entry \cup {None}]
    BY DEF Pruned
  <2> QED
    BY <1>4, <2>1 DEF Finish, Save, worldVars
<1>5. CASE Restart \/ Crash
  BY <1>5 DEF Restart, Crash, worldVars
<1>6. ASSUME NEW f \in Files, AgentEdit(f) \/ AgentRemove(f) \/ LocalEdit(f) \/ LocalRemove(f)
      PROVE  FileTypes'
  <2>1. ASSUME NEW gap \in Nat, NEW c \in Contents
        PROVE  CopyOf(c, clock + gap) \in Copy
    BY <1>0, CopiesAre
  <2>2. CASE AgentEdit(f) \/ AgentRemove(f)
    BY <2>1, <2>2, Seconds DEF AgentEdit, AgentRemove, runVars
  <2>3. CASE LocalEdit(f) \/ LocalRemove(f)
    BY <2>1, <2>3, Seconds DEF LocalEdit, LocalRemove, runVars
  <2> QED
    BY <1>6, <2>2, <2>3
<1>7. ASSUME NEW f \in Files, PlanFile(f)
      PROVE  FileTypes'
  <2>1. UNCHANGED <<agent, local, saved, man>> /\ f \in undecided
        /\ (UNCHANGED journal \/ (Skip(f) /\ journal' = [journal EXCEPT ![f] = Noted(f)]))
    BY <1>7 DEF PlanFile, worldVars
  <2>2. ASSUME Skip(f) PROVE Noted(f) \in Entry
    <3>1. man[f] \in Entry /\ local[f] \in Copy
      BY <2>1, <2>2, FilesAre DEF Phases, Skip, SameSize
    <3> QED
      BY <3>1, Kinds DEF Noted, Entry
  <2> QED
    BY <2>1, <2>2
<1>8. ASSUME NEW f \in Files, AdoptFile(f)
      PROVE  FileTypes'
  <2>1. UNCHANGED <<agent, saved, man>> /\ f \in adopt
        /\ \/ UNCHANGED <<local, journal>>
           \/ /\ local[f] # None
              /\ local' = [local EXCEPT ![f] = [local[f] EXCEPT !.mtime = man[f].mtime]]
              /\ journal' = [journal EXCEPT ![f] = man[f]]
    BY <1>8 DEF AdoptFile, worldVars
  <2>2. man[f] \in Entry /\ man[f].mtime \in Nat
    BY <2>1, FilesAre, Kinds DEF Phases
  <2>3. ASSUME local[f] # None PROVE [local[f] EXCEPT !.mtime = man[f].mtime] \in Copy
    BY <2>2, <2>3, FilesAre DEF Copy
  <2> QED
    BY <2>1, <2>2, <2>3
<1>9. ASSUME NEW f \in Files, BulkMember(f) \/ DownloadOk(f)
      PROVE  FileTypes'
  <2>1. UNCHANGED <<agent, saved, man>> /\ f \in queue \cup busy
        /\ \E d \in Arrives(f) : PutInPlace(f, d)
    BY <1>9 DEF BulkMember, DownloadOk, worldVars
  <2>2. man[f] # None
    BY <2>1 DEF Phases
  <2> QED
    BY <1>0, <2>1, <2>2, PutTypes
<1>10. ASSUME NEW f \in Files, Take(f) \/ DownloadFails(f) \/ RemoveFails(f)
       PROVE  FileTypes'
  BY <1>10 DEF Take, DownloadFails, RemoveFails, worldVars
<1>11. ASSUME NEW f \in Files, RemoveExtra(f)
       PROVE  FileTypes'
  BY <1>11 DEF RemoveExtra, worldVars
<1> QED
  BY RunCases, <1>1, <1>2, <1>3, <1>4, <1>5, <1>6, <1>7, <1>8, <1>9, <1>10, <1>11

LEMMA BusyIs ==
  ASSUME IsFiniteSet(busy), NEW f
  PROVE  /\ Cardinality(busy) \in Nat /\ IsFiniteSet(busy \cup {f}) /\ IsFiniteSet(busy \ {f})
         /\ f \in busy => Cardinality(busy \ {f}) = Cardinality(busy) - 1
         /\ f \notin busy => Cardinality(busy \cup {f}) = Cardinality(busy) + 1
  BY FS_CardinalityType, FS_AddElement, FS_RemoveElement

LEMMA EditsAre ==
  ASSUME RunTypes
  PROVE  LET Edits == [agent : 0..MaxAgentEdits, local : 0..MaxLocalEdits,
                       cancel : 0..MaxCancels, crash : 0..MaxCrashes] IN
         /\ edits.agent < MaxAgentEdits => [edits EXCEPT !.agent = @ + 1] \in Edits
         /\ edits.local < MaxLocalEdits => [edits EXCEPT !.local = @ + 1] \in Edits
         /\ edits.cancel < MaxCancels => [edits EXCEPT !.cancel = @ + 1] \in Edits
         /\ edits.crash < MaxCrashes => [edits EXCEPT !.crash = @ + 1] \in Edits
<1>1. /\ edits \in [agent : 0..MaxAgentEdits, local : 0..MaxLocalEdits,
                    cancel : 0..MaxCancels, crash : 0..MaxCrashes]
      /\ MaxAgentEdits \in Nat /\ MaxLocalEdits \in Nat /\ MaxCancels \in Nat /\ MaxCrashes \in Nat
  BY Seconds DEF RunTypes
<1> QED
  BY <1>1

LEMMA RunTypesStep ==
  ASSUME RunTypes, Phases, [Next]_vars
  PROVE  RunTypes'
<1> USE DEF worldVars, runVars, planVars, poolVars
<1>0. /\ Cardinality(busy) \in Nat /\ Cardinality({}) = 0 /\ Workers \in Nat
      /\ clock \in Nat
  BY BusyIs, FS_EmptySet, Seconds DEF Phases, RunTypes
<1>1. CASE UNCHANGED vars
  BY <1>1 DEF vars, RunTypes
<1>2. CASE StartRun
  <2>1. /\ UNCHANGED <<clock, edits, ctxDone, result>> /\ asOf' = clock /\ pc' = "plan"
        /\ undecided' \subseteq Files /\ adopt' = {} /\ queue' = {} /\ extras' = {} /\ busy' = {}
        /\ errors' = FALSE /\ stopped' = FALSE /\ settled' \in {settled, "maybe"}
    BY <1>2 DEF StartRun
  <2>2. Cardinality(busy') <= Workers
    BY <1>0, <2>1
  <2> QED
    BY <2>1, <2>2 DEF RunTypes
<1>3. CASE EndPlan \/ EndAdopt \/ BulkEnds \/ EndFetch
  BY <1>3 DEF EndPlan, EndAdopt, BulkEnds, EndFetch, RunTypes
<1>4. CASE Finish
  BY <1>4 DEF Finish, RunTypes
<1>5. CASE Restart
  BY <1>5 DEF Restart, RunTypes
<1>6. CASE Cancel
  <2>1. edits' \in [agent : 0..MaxAgentEdits, local : 0..MaxLocalEdits,
                    cancel : 0..MaxCancels, crash : 0..MaxCrashes]
    BY <1>6, EditsAre DEF Cancel
  <2> QED
    BY <1>6, <2>1 DEF Cancel, RunTypes
<1>7. CASE Crash
  <2>1. edits' \in [agent : 0..MaxAgentEdits, local : 0..MaxLocalEdits,
                    cancel : 0..MaxCancels, crash : 0..MaxCrashes]
    BY <1>7, EditsAre DEF Crash
  <2>2. /\ UNCHANGED <<clock, asOf, errors, stopped, result, settled>>
        /\ pc' = "idle" /\ ctxDone' = FALSE
        /\ undecided' = {} /\ adopt' = {} /\ queue' = {} /\ extras' = {} /\ busy' = {}
    BY <1>7 DEF Crash
  <2>3. Cardinality(busy') <= Workers
    BY <1>0, <2>2
  <2> QED
    BY <2>1, <2>2, <2>3 DEF RunTypes
<1>8. ASSUME NEW f \in Files, AgentEdit(f) \/ AgentRemove(f) \/ LocalEdit(f) \/ LocalRemove(f)
      PROVE  RunTypes'
  <2>1. edits' \in [agent : 0..MaxAgentEdits, local : 0..MaxLocalEdits,
                    cancel : 0..MaxCancels, crash : 0..MaxCrashes]
    BY <1>8, EditsAre DEF AgentEdit, AgentRemove, LocalEdit, LocalRemove
  <2>2. clock' \in Nat /\ settled' = "no"
    BY <1>0, <1>8, Seconds DEF AgentEdit, AgentRemove, LocalEdit, LocalRemove
  <2>3. UNCHANGED <<asOf, pc, undecided, adopt, queue, extras, busy, errors, stopped, ctxDone,
                    result>>
    BY <1>8 DEF AgentEdit, AgentRemove, LocalEdit, LocalRemove
  <2> QED
    BY <2>1, <2>2, <2>3 DEF RunTypes
<1>9. ASSUME NEW f \in Files, PlanFile(f) \/ AdoptFile(f) \/ RemoveExtra(f) \/ RemoveFails(f)
      PROVE  RunTypes'
  <2>1. CASE PlanFile(f)
    BY <1>0, <2>1 DEF PlanFile, Phases, RunTypes
  <2>2. CASE AdoptFile(f) \/ RemoveExtra(f) \/ RemoveFails(f)
    BY <2>2 DEF AdoptFile, RemoveExtra, RemoveFails, RunTypes
  <2> QED
    BY <1>9, <2>1, <2>2
<1>10. ASSUME NEW f \in Files, BulkMember(f) \/ DownloadOk(f) \/ DownloadFails(f)
       PROVE  RunTypes'
  <2>1. /\ busy' = busy \/ (busy' = busy \ {f} /\ f \in busy)
        /\ queue' = queue \/ queue' = queue \ {f}
        /\ UNCHANGED <<clock, edits, asOf, pc, undecided, adopt, extras, ctxDone, result, settled>>
        /\ errors' \in {TRUE, errors} /\ stopped' \in {stopped, stopped \/ StopOnError}
    BY <1>10 DEF BulkMember, DownloadOk, DownloadFails
  <2>2. Cardinality(busy') <= Workers
    <3>1. CASE busy' = busy
      BY <3>1 DEF RunTypes
    <3>2. CASE busy' = busy \ {f} /\ f \in busy
      <4>1. Cardinality(busy') = Cardinality(busy) - 1 /\ Cardinality(busy) <= Workers
        BY <3>2, BusyIs DEF Phases, RunTypes
      <4> QED
        BY <1>0, <4>1
    <3> QED
      BY <2>1, <3>1, <3>2
  <2>3. StopOnError \in BOOLEAN
    BY RunAssumption
  <2>4. errors' \in BOOLEAN /\ stopped' \in BOOLEAN
    BY <2>1, <2>3, Zenon DEF RunTypes
  <2> QED
    BY <2>1, <2>2, <2>4 DEF RunTypes
<1>11. ASSUME NEW f \in Files, Take(f)
       PROVE  RunTypes'
  <2>1. f \in queue /\ Cardinality(busy) < Workers
        /\ queue' = queue \ {f} /\ busy' = busy \cup {f}
        /\ UNCHANGED <<clock, edits, asOf, pc, undecided, adopt, extras, errors, stopped,
                       ctxDone, result, settled>>
    BY <1>11 DEF Take
  <2>2. f \notin busy /\ Cardinality(busy \cup {f}) = Cardinality(busy) + 1
    BY <2>1, BusyIs DEF Phases, RunTypes
  <2>3. Cardinality(busy') <= Workers
    BY <1>0, <2>1, <2>2
  <2> QED
    BY <2>1, <2>3 DEF RunTypes
<1> QED
  BY RunCases, <1>1, <1>2, <1>3, <1>4, <1>5, <1>6, <1>7, <1>8, <1>9, <1>10, <1>11

LEMMA PhasesStep ==
  ASSUME FileTypes, RunTypes, Phases, [Next]_vars
  PROVE  Phases'
<1> USE DEF Phases, worldVars, runVars, planVars, poolVars
<1>1. CASE UNCHANGED vars
  BY <1>1 DEF vars
<1>2. CASE StartRun
  BY <1>2, FS_EmptySet DEF StartRun
<1>3. CASE EndPlan \/ EndAdopt \/ BulkEnds
  BY <1>3 DEF EndPlan, EndAdopt, BulkEnds
<1>4. CASE EndFetch
  BY <1>4 DEF EndFetch
<1>5. CASE Finish \/ Restart \/ Cancel
  BY <1>5 DEF Finish, Restart, Cancel
<1>6. CASE Crash
  BY <1>6, FS_EmptySet DEF Crash
<1>7. ASSUME NEW f \in Files, AgentEdit(f) \/ AgentRemove(f) \/ LocalEdit(f) \/ LocalRemove(f)
      PROVE  Phases'
  BY <1>7 DEF AgentEdit, AgentRemove, LocalEdit, LocalRemove
<1>8. ASSUME NEW f \in Files, PlanFile(f)
      PROVE  Phases'
  BY <1>8 DEF PlanFile, SameContent
<1>9. ASSUME NEW f \in Files, AdoptFile(f) \/ RemoveExtra(f) \/ RemoveFails(f)
      PROVE  Phases'
  BY <1>9 DEF AdoptFile, RemoveExtra, RemoveFails
<1>10. ASSUME NEW f \in Files, BulkMember(f) \/ Take(f) \/ DownloadOk(f) \/ DownloadFails(f)
       PROVE  Phases'
  <2>1. IsFiniteSet(busy \cup {f}) /\ IsFiniteSet(busy \ {f})
    BY BusyIs
  <2>2. CASE BulkMember(f)
    BY <2>2 DEF BulkMember
  <2>3. CASE Take(f)
    BY <2>1, <2>3 DEF Take
  <2>4. CASE DownloadOk(f)
    BY <2>1, <2>4 DEF DownloadOk
  <2>5. CASE DownloadFails(f)
    BY <2>1, <2>5 DEF DownloadFails
  <2> QED
    BY <1>10, <2>2, <2>3, <2>4, <2>5
<1> QED
  BY RunCases, <1>1, <1>2, <1>3, <1>4, <1>5, <1>6, <1>7, <1>8, <1>9, <1>10

(***************************************************************************)
(* What a step does to one file.                                           *)
(***************************************************************************)
\* What a step leaves as it is at f.
AgentStays(f) == agent'[f] = agent[f]
LocalStays(f) == local'[f] = local[f]
RowsStay(f) == journal'[f] = journal[f] /\ saved'[f] = saved[f]
RunStays(f) == man'[f] = man[f] /\ asOf' = asOf /\ (pc' # "idle" => pc # "idle")
PlanStays(f) == RunStays(f) /\ (f \in adopt' => f \in adopt)

Still(f) ==
  AgentStays(f) /\ LocalStays(f) /\ RowsStay(f) /\ PlanStays(f) /\ clock' >= clock

AgentMoves(f) ==
  /\ LocalStays(f) /\ RowsStay(f) /\ PlanStays(f) /\ clock' >= clock
  /\ \/ agent'[f] = None
     \/ \E c \in Contents, gap \in AgentGaps :
          agent'[f] = CopyOf(c, clock') /\ clock' = clock + gap

LocalMoves(f) ==
  /\ EditsInRun \/ pc = "idle"
  /\ AgentStays(f) /\ RowsStay(f) /\ PlanStays(f) /\ clock' >= clock
  /\ \/ local'[f] = None
     \/ \E c \in Contents, gap \in LocalGaps :
          local'[f] = CopyOf(c, clock') /\ clock' = clock + gap

Begins(f) ==
  /\ pc = "idle" /\ pc' = "plan" /\ asOf' = clock /\ clock' = clock /\ adopt' = {}
  /\ AgentStays(f) /\ LocalStays(f) /\ RowsStay(f)
  /\ man'[f] \in EntriesFor(f)

Notes(f) ==
  /\ pc = "plan" /\ clock' = clock /\ f \in undecided /\ Skip(f)
  /\ AgentStays(f) /\ LocalStays(f) /\ RunStays(f) /\ saved'[f] = saved[f]
  /\ journal'[f] = Noted(f)
  /\ f \in adopt' => SameContent(f) \/ f \in adopt

Adopts(f) ==
  /\ pc = "adopt" /\ clock' = clock /\ f \in adopt /\ f \notin adopt' /\ KeepMTime
  /\ local[f] # None
  /\ AgentStays(f) /\ RunStays(f) /\ saved'[f] = saved[f]
  /\ local'[f] = [local[f] EXCEPT !.mtime = man[f].mtime]
  /\ journal'[f] = man[f]

Puts(f) ==
  /\ pc \in {"bulk", "fetch"} /\ clock' = clock /\ f \in queue \cup busy
  /\ AgentStays(f) /\ PlanStays(f) /\ saved'[f] = saved[f]
  /\ \E d \in Arrives(f) :
       /\ local'[f] = [size |-> man[f].size, sum |-> d,
                       mtime |-> IF KeepMTime THEN man[f].mtime ELSE clock + Tolerance]
       /\ journal'[f] = [size |-> man[f].size, mtime |-> man[f].mtime, sum |-> d]

Drops(f) ==
  /\ pc = "remove" /\ clock' = clock /\ f \in extras
  /\ AgentStays(f) /\ PlanStays(f) /\ saved'[f] = saved[f]
  /\ local'[f] = None /\ journal'[f] = None

Ends(f) ==
  /\ pc' = "idle" /\ clock' = clock
  /\ AgentStays(f) /\ LocalStays(f) /\ PlanStays(f)
  /\ \/ journal'[f] = saved[f] /\ saved'[f] = saved[f]
     \/ journal'[f] \in {None, journal[f]} /\ saved'[f] \in {saved[f], journal'[f]}

FileStep(f) ==
  \/ Still(f) \/ AgentMoves(f) \/ LocalMoves(f) \/ Begins(f) \/ Notes(f)
  \/ Adopts(f) \/ Puts(f) \/ Drops(f) \/ Ends(f)

(***************************************************************************)
(* What a step does to the place of a file in the plan.                    *)
(***************************************************************************)
Waits(f) == f \in queue \cup busy

PlaceStays(f) ==
  /\ (f \in undecided' <=> f \in undecided) /\ (f \in adopt' <=> f \in adopt)
  /\ errors => errors'
  /\ f \in queue' \cup busy' => Waits(f)
  /\ Waits(f) => f \in queue' \cup busy' \/ errors'

Rests(f) == Still(f) /\ PlaceStays(f) /\ settled' = settled

Disturbed(f) ==
  (Still(f) \/ AgentMoves(f) \/ LocalMoves(f)) /\ PlaceStays(f) /\ settled' = "no"

Enters(f) ==
  /\ Begins(f)
  /\ f \in undecided' <=> man'[f] # None /\ man'[f].size <= MaxSize
  /\ f \notin adopt' \cup queue' \cup busy'
  /\ settled' \in {"maybe", settled}

Queues(f) ==
  /\ Still(f) /\ pc = "plan" /\ f \in undecided /\ ~ Skip(f)
  /\ f \in queue' /\ f \notin undecided' /\ settled' = settled

IsNoted(f) ==
  /\ Notes(f) /\ f \notin undecided' /\ (SameContent(f) => f \in adopt')
  /\ (f \in queue' \cup busy' <=> Waits(f)) /\ settled' = settled

Adoption(f) ==
  /\ Adopts(f) \/ (Still(f) /\ (KeepMTime => local[f] = None))
  /\ pc = "adopt" /\ f \in adopt /\ f \notin adopt' /\ (errors => errors')
  /\ (f \in undecided' <=> f \in undecided)
  /\ (f \in queue' \cup busy' <=> Waits(f)) /\ settled' = settled

Arrival(f) ==
  /\ Puts(f) /\ f \notin queue' \cup busy' /\ (f \in undecided' <=> f \in undecided)
  /\ settled' = settled

Dropped(f) == Drops(f) /\ PlaceStays(f) /\ settled' = settled

EndOfRun(f) ==
  /\ Ends(f)
  /\ f \in queue' \cup busy' => Waits(f)
  /\ \/ settled' \in {"no", settled}
     \/ Finish /\ settled' = "yes"

PlanStep(f) ==
  \/ Rests(f) \/ Disturbed(f) \/ Enters(f) \/ Queues(f) \/ IsNoted(f) \/ Adoption(f)
  \/ Arrival(f) \/ Dropped(f) \/ EndOfRun(f)

LEMMA PlansOfAFile ==
  ASSUME FileTypes, RunTypes, Phases, [Next]_vars, NEW f \in Files
  PROVE  PlanStep(f)
<1> USE DEF worldVars, runVars, planVars, poolVars, AgentStays, LocalStays, RowsStay, RunStays,
            PlanStays
<1>0. /\ clock \in Nat /\ LocalGaps \subseteq Nat \ {0} /\ AgentGaps \subseteq Nat \ {0}
      /\ agent \in [Files -> Copy \cup {None}] /\ local \in [Files -> Copy \cup {None}]
      /\ journal \in [Files -> Entry \cup {None}]
  BY Seconds DEF RunTypes, FileTypes
<1>1. CASE UNCHANGED vars
  <2>1. Still(f) /\ PlaceStays(f) /\ settled' = settled
    BY <1>0, <1>1 DEF vars, Still, PlaceStays, Waits
  <2> QED
    BY <2>1 DEF PlanStep, Rests
<1>2. CASE StartRun
  <2>1. Enters(f)
    BY <1>2 DEF StartRun, Begins, Enters
  <2> QED
    BY <2>1 DEF PlanStep
<1>3. CASE EndPlan \/ EndAdopt \/ BulkEnds \/ EndFetch \/ Cancel
  <2>1. Still(f)
    BY <1>0, <1>3 DEF EndPlan, EndAdopt, BulkEnds, EndFetch, Cancel, Still
  <2>2. PlaceStays(f) /\ settled' = settled
    BY <1>3 DEF EndPlan, EndAdopt, BulkEnds, EndFetch, Cancel, PlaceStays, Waits
  <2> QED
    BY <2>1, <2>2 DEF PlanStep, Rests
<1>4. CASE Finish
  <2>1. Pruned[f] \in {None, journal[f]}
    BY DEF Pruned
  <2>2. Ends(f)
    BY <1>4, <2>1 DEF Finish, Save, Ends
  <2>3. (f \in queue' \cup busy' => Waits(f)) /\ settled' \in {"no", "yes"}
    BY <1>4 DEF Finish, Waits
  <2> QED
    BY <1>4, <2>2, <2>3 DEF PlanStep, EndOfRun
<1>5. CASE Restart \/ Crash
  <2>1. Ends(f)
    BY <1>5 DEF Restart, Crash, Ends
  <2>2. (f \in queue' \cup busy' => Waits(f)) /\ settled' = settled
    BY <1>5 DEF Restart, Crash, Waits
  <2> QED
    BY <2>1, <2>2 DEF PlanStep, EndOfRun
<1>6. ASSUME NEW g \in Files, AgentEdit(g) \/ AgentRemove(g) \/ LocalEdit(g) \/ LocalRemove(g)
      PROVE  PlanStep(f)
  <2>1. /\ asOf' = asOf /\ pc' = pc /\ clock' >= clock /\ settled' = "no" /\ PlaceStays(f)
        /\ pc' = pc /\ man' = man
    BY <1>0, <1>6 DEF AgentEdit, AgentRemove, LocalEdit, LocalRemove, PlaceStays, Waits
  <2>3. journal' = journal /\ saved' = saved /\ adopt' = adopt
    BY <1>6 DEF AgentEdit, AgentRemove, LocalEdit, LocalRemove
  <2>4. CASE AgentEdit(g) \/ AgentRemove(g)
    <3>1. /\ local' = local
          /\ \/ agent' = [agent EXCEPT ![g] = None]
             \/ \E c \in Contents, gap \in AgentGaps :
                  agent' = [agent EXCEPT ![g] = CopyOf(c, clock')] /\ clock' = clock + gap
      BY <1>0, <2>4 DEF AgentEdit, AgentRemove
    <3>2. Still(f) \/ AgentMoves(f)
      BY <1>0, <2>1, <2>3, <3>1 DEF Still, AgentMoves
    <3> QED
      BY <2>1, <3>2 DEF PlanStep, Disturbed
  <2>5. CASE LocalEdit(g) \/ LocalRemove(g)
    <3>1. /\ agent' = agent /\ (EditsInRun \/ pc = "idle")
          /\ \/ local' = [local EXCEPT ![g] = None]
             \/ \E c \in Contents, gap \in LocalGaps :
                  local' = [local EXCEPT ![g] = CopyOf(c, clock')] /\ clock' = clock + gap
      BY <1>0, <2>5 DEF LocalEdit, LocalRemove
    <3>2. Still(f) \/ LocalMoves(f)
      BY <1>0, <2>1, <2>3, <3>1 DEF Still, LocalMoves
    <3> QED
      BY <2>1, <3>2 DEF PlanStep, Disturbed
  <2> QED
    BY <1>6, <2>4, <2>5
<1>7. ASSUME NEW g \in Files, PlanFile(g)
      PROVE  PlanStep(f)
  <2>1. /\ agent' = agent /\ local' = local /\ saved' = saved /\ man' = man
        /\ asOf' = asOf /\ pc' = pc /\ clock' = clock /\ pc = "plan" /\ g \in undecided
        /\ undecided' = undecided \ {g} /\ busy' = busy /\ errors' = errors
        /\ settled' = settled
        /\ \/ ~ Skip(g) /\ adopt' = adopt /\ journal' = journal /\ queue' = queue \cup {g}
           \/ /\ Skip(g) /\ journal' = [journal EXCEPT ![g] = Noted(g)] /\ queue' = queue
              /\ adopt' = IF SameContent(g) THEN adopt \cup {g} ELSE adopt
    BY <1>7 DEF PlanFile
  <2>2. CASE f = g /\ Skip(g)
    <3>1. Notes(f)
      BY <1>0, <2>1, <2>2 DEF Notes
    <3>2. IsNoted(f)
      BY <2>1, <2>2, <3>1 DEF IsNoted, Waits
    <3> QED
      BY <3>2 DEF PlanStep
  <2>3. CASE f = g /\ ~ Skip(g)
    <3>1. Still(f)
      BY <1>0, <2>1, <2>3 DEF Still
    <3>2. Queues(f)
      BY <2>1, <2>3, <3>1 DEF Queues
    <3> QED
      BY <3>2 DEF PlanStep
  <2>4. CASE f # g
    <3>1. Still(f) /\ PlaceStays(f)
      BY <1>0, <2>1, <2>4 DEF Still, PlaceStays, Waits
    <3> QED
      BY <2>1, <3>1 DEF PlanStep, Rests
  <2> QED
    BY <2>2, <2>3, <2>4
<1>8. ASSUME NEW g \in Files, AdoptFile(g)
      PROVE  PlanStep(f)
  <2>1. /\ agent' = agent /\ saved' = saved /\ man' = man /\ pc = "adopt" /\ g \in adopt
        /\ asOf' = asOf /\ pc' = pc /\ clock' = clock /\ adopt' = adopt \ {g}
        /\ UNCHANGED <<undecided, queue, busy, errors, settled>>
        /\ \/ UNCHANGED <<local, journal>> /\ (KeepMTime => local[g] = None)
           \/ /\ KeepMTime /\ local[g] # None
              /\ local' = [local EXCEPT ![g] = [local[g] EXCEPT !.mtime = man[g].mtime]]
              /\ journal' = [journal EXCEPT ![g] = man[g]]
    BY <1>8 DEF AdoptFile
  <2>2. CASE f = g
    <3>1. Adopts(f) \/ (Still(f) /\ (KeepMTime => local[f] = None))
      BY <1>0, <2>1, <2>2 DEF Adopts, Still
    <3>2. Adoption(f)
      BY <2>1, <2>2, <3>1 DEF Adoption, Waits
    <3> QED
      BY <3>2 DEF PlanStep
  <2>3. CASE f # g
    <3>1. Still(f) /\ PlaceStays(f)
      BY <1>0, <2>1, <2>3 DEF Still, PlaceStays, Waits
    <3> QED
      BY <2>1, <3>1 DEF PlanStep, Rests
  <2> QED
    BY <2>2, <2>3
<1>9. ASSUME NEW g \in Files, BulkMember(g) \/ DownloadOk(g)
      PROVE  PlanStep(f)
  <2>1. /\ agent' = agent /\ saved' = saved /\ man' = man /\ asOf' = asOf /\ pc' = pc
        /\ clock' = clock /\ adopt' = adopt /\ pc \in {"bulk", "fetch"} /\ g \in queue \cup busy
        /\ \E d \in Arrives(g) : PutInPlace(g, d)
        /\ undecided' = undecided /\ errors' = errors /\ settled' = settled
    BY <1>9 DEF BulkMember, DownloadOk
  <2>2. queue' \cup busy' = (queue \cup busy) \ {g}
    <3>1. queue \cap busy = {} /\ (pc = "bulk" => busy = {})
      BY DEF RunTypes, Phases
    <3> QED
      BY <1>9, <3>1 DEF BulkMember, DownloadOk
  <2>3. CASE f = g
    <3>1. Puts(f)
      BY <1>0, <2>1, <2>3 DEF PutInPlace, Puts
    <3> QED
      BY <2>1, <2>2, <2>3, <3>1 DEF PlanStep, Arrival
  <2>4. CASE f # g
    <3>1. Still(f)
      BY <1>0, <2>1, <2>4 DEF PutInPlace, Still
    <3>2. PlaceStays(f)
      BY <2>1, <2>2, <2>4 DEF PlaceStays, Waits
    <3> QED
      BY <2>1, <3>1, <3>2 DEF PlanStep, Rests
  <2> QED
    BY <2>3, <2>4
<1>10. ASSUME NEW g \in Files, Take(g) \/ DownloadFails(g) \/ RemoveFails(g)
       PROVE  PlanStep(f)
  <2>1. Still(f)
    BY <1>0, <1>10 DEF Take, DownloadFails, RemoveFails, Still
  <2>2. PlaceStays(f) /\ settled' = settled
    BY <1>10 DEF Take, DownloadFails, RemoveFails, PlaceStays, Waits
  <2> QED
    BY <2>1, <2>2 DEF PlanStep, Rests
<1>11. ASSUME NEW g \in Files, RemoveExtra(g)
       PROVE  PlanStep(f)
  <2>1. /\ agent' = agent /\ saved' = saved /\ man' = man /\ asOf' = asOf /\ pc' = pc
        /\ clock' = clock /\ adopt' = adopt /\ pc = "remove" /\ g \in extras
        /\ local' = [local EXCEPT ![g] = None] /\ journal' = [journal EXCEPT ![g] = None]
        /\ PlaceStays(f) /\ settled' = settled
    BY <1>11 DEF RemoveExtra, PlaceStays, Waits
  <2>2. CASE f = g
    <3>1. Drops(f)
      BY <1>0, <2>1, <2>2 DEF Drops
    <3> QED
      BY <2>1, <3>1 DEF PlanStep, Dropped
  <2>3. CASE f # g
    <3>1. Still(f)
      BY <1>0, <2>1, <2>3 DEF Still
    <3> QED
      BY <2>1, <3>1 DEF PlanStep, Rests
  <2> QED
    BY <2>2, <2>3
<1> QED
  BY RunCases, <1>1, <1>2, <1>3, <1>4, <1>5, <1>6, <1>7, <1>8, <1>9, <1>10, <1>11

LEMMA StepsOfAFile ==
  ASSUME FileTypes, RunTypes, Phases, [Next]_vars, NEW f \in Files
  PROVE  FileStep(f)
  BY PlansOfAFile
     DEF PlanStep, Rests, Disturbed, Enters, Queues, IsNoted, Adoption, Arrival, Dropped, EndOfRun,
         FileStep

LEMMA TimePasses ==
  ASSUME NEW now \in Nat, NEW past \in Nat, past <= now, NEW gap \in AgentGaps \cup LocalGaps
  PROVE  now + gap \in Nat /\ now + gap > now /\ now + gap > past
<1>1. gap \in Nat /\ gap > 0
  BY Seconds
<1> QED
  BY <1>1

LEMMA FreshStep ==
  ASSUME FileTypes, FileTypes', clock \in Nat, asOf \in Nat, asOf <= clock, clock' \in Nat,
         NEW f \in Files, FileStep(f), Past(agent[f]), EntryIsFresh(f)
  PROVE  Past(agent[f])' /\ EntryIsFresh(f)'
<1> USE DEF AgentStays, LocalStays, RowsStay, RunStays, PlanStays
<1>1. CASE Still(f) \/ Notes(f) \/ Adopts(f) \/ Puts(f) \/ Drops(f) \/ Ends(f) \/ LocalMoves(f)
  <2>1. /\ agent'[f] = agent[f] /\ man'[f] = man[f] /\ asOf' = asOf
        /\ pc' # "idle" => pc # "idle"
    BY <1>1 DEF Still, Notes, Adopts, Puts, Drops, Ends, LocalMoves
  <2>2. clock' >= clock
    BY <1>1 DEF Still, Notes, Adopts, Puts, Drops, Ends, LocalMoves
  <2>3. agent[f] # None => agent[f].mtime \in Nat
    BY FilesAre, Kinds
  <2> QED
    BY <2>1, <2>2, <2>3 DEF Past, EntryIsFresh
<1>2. CASE AgentMoves(f)
  <2>1. /\ man'[f] = man[f] /\ asOf' = asOf /\ (pc' # "idle" => pc # "idle")
        /\ \/ agent'[f] = None
           \/ \E c \in Contents, gap \in AgentGaps :
                agent'[f] = CopyOf(c, clock') /\ clock' = clock + gap
    BY <1>2 DEF AgentMoves
  <2>2. ASSUME agent'[f] # None PROVE agent'[f].mtime = clock' /\ clock' > asOf
    <3>1. PICK c \in Contents, gap \in AgentGaps :
            agent'[f] = CopyOf(c, clock') /\ clock' = clock + gap
      BY <2>1, <2>2
    <3>2. CopyOf(c, clock').mtime = clock'
      BY CopiesAre
    <3>3. clock + gap > asOf
      BY TimePasses
    <3> QED
      BY <3>1, <3>2, <3>3
  <2> QED
    BY <2>1, <2>2 DEF Past, EntryIsFresh
<1>3. CASE Begins(f)
  <2>1. /\ agent'[f] = agent[f] /\ asOf' = clock /\ clock' = clock /\ man'[f] \in EntriesFor(f)
    BY <1>3 DEF Begins
  <2>2. agent[f] # None => agent[f] \in Copy
    BY FilesAre
  <2>3. man'[f] # None => agent[f] # None /\ man'[f] \in {agent[f], [agent[f] EXCEPT !.sum = NoSum]}
    BY <2>1 DEF EntriesFor
  <2>4. man'[f] = None /\ agent[f] # None => f \in Flaky
    BY <2>1, <2>2, Kinds, RunAssumption DEF EntriesFor, Copy, Entry
  <2>5. man'[f] # None => /\ man'[f].size = agent[f].size /\ man'[f].mtime = agent[f].mtime
                          /\ man'[f].sum \in {agent[f].sum, NoSum}
    BY <2>2, <2>3 DEF Copy
  <2>6. agent[f] # None => agent[f].mtime \in Nat /\ agent[f].mtime <= clock
    BY <2>2, Kinds DEF Past
  <2>7. Past(agent[f])'
    BY <2>1, <2>6 DEF Past
  <2>8. man'[f] # None => man'[f].mtime <= asOf'
    BY <2>1, <2>3, <2>5, <2>6
  <2>9. agent'[f] # None =>
          \/ man'[f] = None /\ f \in Flaky
          \/ /\ man'[f] # None /\ man'[f].size = agent'[f].size /\ man'[f].mtime = agent'[f].mtime
             /\ man'[f].sum \in {agent'[f].sum, NoSum}
    BY <2>1, <2>4, <2>5
  <2> QED
    BY <2>7, <2>8, <2>9 DEF EntryIsFresh
<1> QED
  BY <1>1, <1>2, <1>3 DEF FileStep

LEMMA RunInductiveInit == Init => RunInductive
<1> SUFFICES ASSUME Init PROVE RunInductive
  OBVIOUS
<1> DEFINE Old == {None} \cup {CopyOf(c, 0) : c \in Contents}
           New == {None} \cup {CopyOf(c, Tolerance) : c \in Contents}
<1>0. /\ clock = Tolerance /\ asOf = 0
      /\ edits = [agent |-> 0, local |-> 0, cancel |-> 0, crash |-> 0]
      /\ agent \in [Files -> New] /\ local \in [Files -> Old]
      /\ journal = Nothing /\ saved = Nothing /\ man = Nothing /\ pc = "idle"
      /\ undecided = {} /\ adopt = {} /\ queue = {} /\ extras = {} /\ busy = {}
      /\ errors = FALSE /\ stopped = FALSE /\ ctxDone = FALSE /\ settled = "no"
  BY Zenon DEF Init
<1>1. \A c \in Contents : CopyOf(c, 0) \in Copy /\ CopyOf(c, Tolerance) \in Copy
                          /\ CopyOf(c, Tolerance).mtime = Tolerance
  BY CopiesAre, Seconds
<1>2. FileTypes
  <2>1. Old \subseteq Copy \cup {None} /\ New \subseteq Copy \cup {None}
    BY <1>1
  <2>2. Nothing \in [Files -> Entry \cup {None}]
    BY DEF Nothing
  <2> QED
    BY <1>0, <2>1, <2>2 DEF FileTypes
<1>3. RunTypes
  <2>1. clock \in Nat /\ asOf \in Nat /\ Cardinality(busy) <= Workers
    BY <1>0, FS_EmptySet, Seconds
  <2>2. edits \in [agent : 0..MaxAgentEdits, local : 0..MaxLocalEdits,
                   cancel : 0..MaxCancels, crash : 0..MaxCrashes]
    BY <1>0, Seconds
  <2>3. result \in {"", "ok", "partial"}
    BY Zenon DEF Init
  <2> QED
    BY <1>0, <2>1, <2>2, <2>3, Zenon DEF RunTypes
<1>4. Phases
  BY <1>0, FS_EmptySet DEF Phases
<1>5. asOf <= clock /\ clock = 2 /\ pc = "idle" /\ Tolerance = 2
  BY <1>0, Seconds
<1>6. ASSUME NEW f \in Files PROVE Past(agent[f]) /\ EntryIsFresh(f)
  <2>1. agent[f] # None => agent[f].mtime = 2
    BY <1>0, <1>1, <1>5
  <2> QED
    BY <1>5, <2>1 DEF Past, EntryIsFresh
<1> QED
  BY <1>2, <1>3, <1>4, <1>5, <1>6, Typed DEF RunInductive

LEMMA ClockStep ==
  ASSUME RunTypes, asOf <= clock, [Next]_vars
  PROVE  clock' \in Nat /\ asOf' <= clock' /\ clock' >= clock
<1> USE DEF worldVars, runVars
<1>1. clock \in Nat /\ asOf \in Nat /\ AgentGaps \subseteq Nat \ {0} /\ LocalGaps \subseteq Nat \ {0}
  BY Seconds DEF RunTypes
<1>2. \/ clock' = clock /\ asOf' \in {asOf, clock}
      \/ \E gap \in Nat : clock' = clock + gap /\ asOf' = asOf
  <2>1. CASE UNCHANGED vars \/ StartRun \/ EndPlan \/ EndAdopt \/ BulkEnds \/ EndFetch \/ Finish
             \/ Restart \/ Cancel \/ Crash
    BY <2>1 DEF vars, StartRun, EndPlan, EndAdopt, BulkEnds, EndFetch, Finish, Restart, Cancel,
                Crash
  <2>2. ASSUME NEW f \in Files, AgentEdit(f) \/ AgentRemove(f) \/ LocalEdit(f) \/ LocalRemove(f)
        PROVE  \/ clock' = clock /\ asOf' \in {asOf, clock}
               \/ \E gap \in Nat : clock' = clock + gap /\ asOf' = asOf
    BY <1>1, <2>2 DEF AgentEdit, AgentRemove, LocalEdit, LocalRemove
  <2>3. ASSUME NEW f \in Files,
               PlanFile(f) \/ AdoptFile(f) \/ BulkMember(f) \/ Take(f)
               \/ DownloadOk(f) \/ DownloadFails(f) \/ RemoveExtra(f) \/ RemoveFails(f)
        PROVE  clock' = clock /\ asOf' \in {asOf, clock}
    BY <2>3 DEF PlanFile, AdoptFile, BulkMember, Take, DownloadOk, DownloadFails, RemoveExtra,
                RemoveFails
  <2> QED
    BY RunCases, <2>1, <2>2, <2>3
<1> QED
  BY <1>1, <1>2

LEMMA RunInductiveStep == RunInductive /\ [Next]_vars => RunInductive'
<1> SUFFICES ASSUME RunInductive, [Next]_vars PROVE RunInductive'
  OBVIOUS
<1>1. FileTypes /\ RunTypes /\ Phases /\ asOf <= clock /\ clock \in Nat /\ asOf \in Nat
  BY Typed DEF RunInductive, RunTypes
<1>2. FileTypes' /\ RunTypes' /\ Phases'
  BY <1>1, FileTypesStep, RunTypesStep, PhasesStep
<1>3. clock' \in Nat /\ asOf' <= clock'
  BY <1>1, ClockStep
<1>4. ASSUME NEW f \in Files PROVE Past(agent[f])' /\ EntryIsFresh(f)'
  <2>1. FileStep(f)
    BY <1>1, StepsOfAFile
  <2>2. Past(agent[f]) /\ EntryIsFresh(f)
    BY DEF RunInductive
  <2> QED
    BY <1>1, <1>2, <1>3, <2>1, <2>2, FreshStep
<1>5. TypeOK'
  BY <1>2, Typed, PTL
<1> QED
  BY <1>2, <1>3, <1>4, <1>5 DEF RunInductive

LEMMA RunsAreInductive == Spec => []RunInductive
  BY RunInductiveInit, RunInductiveStep, PTL DEF Spec

\* The state of every run is well-formed: no more files are being downloaded than there
\* are workers, none is both in the queue and with a worker (sync.go, runDownloads), with
\* any configuration.
THEOREM SyncTypeCorrect == Spec => []TypeOK
<1>1. RunInductive => TypeOK
  BY DEF RunInductive
<1> QED
  BY <1>1, RunsAreInductive, PTL

LEMMA DeletionStep ==
  ASSUME RunInductive, [Next]_vars, ~ EditsInRun, NEW f \in Files,
         pc = "remove", local[f] # None, local'[f] = None
  PROVE  agent[f] = None \/ agent[f].mtime > asOf \/ f \in Flaky
<1>1. FileTypes /\ RunTypes /\ Phases
  BY Typed DEF RunInductive
<1>2. FileStep(f)
  BY <1>1, StepsOfAFile
<1>3. Drops(f)
  BY <1>2 DEF FileStep, Still, AgentMoves, LocalMoves, Begins, Notes, Adopts, Puts, Ends,
              LocalStays
<1>4. man[f] = None
  BY <1>1, <1>3 DEF Drops, Phases
<1> QED
  BY <1>4 DEF RunInductive, EntryIsFresh

\* While nobody else writes to the destination, mirror mode deletes a file only if the
\* agent has not had it since the run's manifest was taken (sync.go:586), or could not
\* read it, with any configuration, any number of changes, cancellations and deaths.
THEOREM SyncDeletesOnlyUnpublished ==
  ASSUME ~ EditsInRun
  PROVE  Spec => DeletesOnlyUnpublished
<1>1. RunInductive /\ [Next]_vars =>
        [\A f \in Files : pc = "remove" /\ local[f] # None /\ local'[f] = None
                          => \/ agent[f] = None \/ agent[f].mtime > asOf
                             \/ f \in Flaky]_vars
  BY DeletionStep
<1> QED
  BY <1>1, RunsAreInductive, PTL DEF Spec, DeletesOnlyUnpublished

(***************************************************************************)
(* What the journal says.                                                  *)
(***************************************************************************)
KnownRun(f) ==
  /\ FileTypes /\ RunTypes /\ Phases /\ asOf <= clock
  /\ Past(agent[f]) /\ EntryIsFresh(f) /\ FileIsKnown(f)

\* What is known of times, as numbers.
LEMMA TimesAre ==
  ASSUME NEW f \in Files, KnownRun(f)
  PROVE  /\ clock \in Nat /\ asOf \in Nat /\ asOf <= clock
         /\ agent[f] # None => agent[f].mtime \in Nat /\ agent[f].mtime <= clock
         /\ local[f] # None => local[f].mtime \in Nat /\ local[f].mtime <= clock
         /\ journal[f] # None => journal[f].mtime \in Nat /\ journal[f].mtime <= clock
         /\ saved[f] # None => saved[f].mtime \in Nat /\ saved[f].mtime <= clock
         /\ man[f] # None => man[f].mtime \in Nat /\ man[f].sum \in Contents \cup {Torn, NoSum}
         /\ man[f] # None /\ pc # "idle" => man[f].mtime <= clock /\ man[f].mtime <= asOf
<1>1. /\ agent[f] # None => agent[f].mtime \in Nat
      /\ local[f] # None => local[f].mtime \in Nat
      /\ journal[f] # None => journal[f].mtime \in Nat
      /\ saved[f] # None => saved[f].mtime \in Nat
      /\ man[f] # None => man[f].mtime \in Nat /\ man[f].sum \in Contents \cup {Torn, NoSum}
  BY FilesAre, Kinds DEF KnownRun
<1>2. clock \in Nat /\ asOf \in Nat /\ asOf <= clock
  BY DEF KnownRun, RunTypes
<1> QED
  BY <1>1, <1>2 DEF KnownRun, FileIsKnown, Past, EntryIsFresh

\* Time passes, what is at f stays.
LEMMA TimesStay ==
  ASSUME NEW f \in Files, KnownRun(f), RowsStay(f), LocalStays(f), RunStays(f), clock' \in Nat,
         clock' >= clock
  PROVE  Past(local[f])' /\ Past(journal[f])' /\ Past(saved[f])' /\ SavedIsOld(f)'
<1>1. SavedIsOld(f) /\ clock \in Nat
  BY TimesAre DEF KnownRun, FileIsKnown
<1>2. SavedIsOld(f)'
  BY <1>1 DEF SavedIsOld, RowsStay, RunStays
<1>3. Past(local[f])' /\ Past(journal[f])' /\ Past(saved[f])'
  BY <1>1, TimesAre DEF Past, RowsStay, LocalStays
<1> QED
  BY <1>2, <1>3

LEMMA StillKnown ==
  ASSUME NEW f \in Files, KnownRun(f), clock' \in Nat, Still(f)
  PROVE  FileIsKnown(f)'
<1>1. /\ agent'[f] = agent[f] /\ local'[f] = local[f] /\ journal'[f] = journal[f]
      /\ saved'[f] = saved[f] /\ man'[f] = man[f] /\ asOf' = asOf /\ clock' >= clock
      /\ (pc' # "idle" => pc # "idle") /\ (f \in adopt' => f \in adopt)
  BY DEF Still, AgentStays, LocalStays, RowsStay, RunStays, PlanStays
<1>2. Past(local[f])' /\ Past(journal[f])' /\ Past(saved[f])' /\ SavedIsOld(f)'
  BY TimesStay DEF Still, PlanStays
<1>3. FileIsKnown(f)
  BY DEF KnownRun
<1>4. StampIsListed(f)' /\ AdoptedIsSame(f)'
  BY <1>1, <1>3 DEF FileIsKnown, StampIsListed, AdoptedIsSame
<1>5. RowOfAgent(journal[f], f)' /\ RowOfAgent(saved[f], f)'
  BY <1>1, <1>3 DEF FileIsKnown, RowOfAgent
<1>6. RowsAreHonest(f)'
  BY <1>1, <1>3 DEF FileIsKnown, RowsAreHonest, Honest
<1> QED
  BY <1>2, <1>4, <1>5, <1>6 DEF FileIsKnown

LEMMA AgentMovesKnown ==
  ASSUME NEW f \in Files, KnownRun(f), clock' \in Nat, AgentMoves(f)
  PROVE  FileIsKnown(f)'
<1>1. /\ local'[f] = local[f] /\ journal'[f] = journal[f]
      /\ saved'[f] = saved[f] /\ man'[f] = man[f] /\ asOf' = asOf /\ clock' >= clock
      /\ (pc' # "idle" => pc # "idle") /\ (f \in adopt' => f \in adopt)
      /\ \/ agent'[f] = None
         \/ \E c \in Contents, gap \in AgentGaps :
              agent'[f] = CopyOf(c, clock') /\ clock' = clock + gap
  BY DEF AgentMoves, LocalStays, RowsStay, RunStays, PlanStays
<1>2. Past(local[f])' /\ Past(journal[f])' /\ Past(saved[f])' /\ SavedIsOld(f)'
  BY TimesStay DEF AgentMoves, PlanStays
<1>3. agent'[f] # None => agent'[f].mtime = clock' /\ clock' > clock
  BY <1>1, CopiesAre, TimesAre, Seconds
<1>4. agent'[f] # None =>
        /\ local[f] # None => local[f].mtime # agent'[f].mtime
        /\ journal[f] # None => journal[f].mtime # agent'[f].mtime
        /\ saved[f] # None => saved[f].mtime # agent'[f].mtime
  BY <1>3, TimesAre
<1>5. FileIsKnown(f)
  BY DEF KnownRun
<1>6. StampIsListed(f)' /\ AdoptedIsSame(f)'
  BY <1>1, <1>4, <1>5 DEF FileIsKnown, StampIsListed, AdoptedIsSame
<1>7. RowOfAgent(journal[f], f)' /\ RowOfAgent(saved[f], f)'
  BY <1>1, <1>4 DEF RowOfAgent
<1>8. RowsAreHonest(f)'
  BY <1>1, <1>4, <1>5 DEF FileIsKnown, RowsAreHonest, Honest
<1> QED
  BY <1>2, <1>6, <1>7, <1>8 DEF FileIsKnown

LEMMA LocalMovesKnown ==
  ASSUME StampsKept, NEW f \in Files, KnownRun(f), clock' \in Nat, LocalMoves(f)
  PROVE  FileIsKnown(f)'
<1>1. /\ agent'[f] = agent[f] /\ journal'[f] = journal[f] /\ saved'[f] = saved[f]
      /\ man'[f] = man[f] /\ asOf' = asOf /\ clock' >= clock
      /\ (pc' # "idle" => pc # "idle") /\ (f \in adopt' => f \in adopt)
      /\ EditsInRun \/ pc = "idle"
      /\ \/ local'[f] = None
         \/ \E c \in Contents, gap \in LocalGaps :
              local'[f] = CopyOf(c, clock') /\ clock' = clock + gap
  BY DEF LocalMoves, AgentStays, RowsStay, RunStays, PlanStays
<1>2. local'[f] # None => local'[f].mtime = clock' /\ clock' >= clock + 2
  BY <1>1, CopiesAre, TimesAre, Seconds DEF StampsKept
<1>3. FileIsKnown(f) /\ Phases
  BY DEF KnownRun
<1>4. Past(local[f])' /\ Past(journal[f])' /\ Past(saved[f])' /\ SavedIsOld(f)'
  <2>1. Past(local[f])'
    BY <1>2 DEF Past
  <2>2. Past(journal[f])' /\ Past(saved[f])'
    BY <1>1, TimesAre DEF Past
  <2>3. SavedIsOld(f)'
    BY <1>1, <1>3 DEF FileIsKnown, SavedIsOld
  <2> QED
    BY <2>1, <2>2, <2>3
<1>5. local'[f] # None =>
        /\ agent[f] # None => ~ Near(local'[f].mtime, agent[f].mtime)
                              /\ local'[f].mtime # agent[f].mtime
        /\ man[f] # None /\ pc # "idle" => ~ Near(local'[f].mtime, man[f].mtime)
  BY <1>2, TimesAre, Seconds DEF Near
<1>6. StampIsListed(f)'
  BY <1>1, <1>5 DEF StampIsListed
<1>7. AdoptedIsSame(f)'
  BY <1>1, <1>3 DEF AdoptedIsSame, Phases
<1>8. RowOfAgent(journal[f], f)' /\ RowOfAgent(saved[f], f)'
  BY <1>1, <1>3 DEF FileIsKnown, RowOfAgent
<1>9. RowsAreHonest(f)'
  BY <1>1, <1>5 DEF RowsAreHonest, Honest
<1> QED
  BY <1>4, <1>6, <1>7, <1>8, <1>9 DEF FileIsKnown

LEMMA BeginsKnown ==
  ASSUME NEW f \in Files, KnownRun(f), Begins(f)
  PROVE  FileIsKnown(f)'
<1>1. /\ agent'[f] = agent[f] /\ local'[f] = local[f] /\ journal'[f] = journal[f]
      /\ saved'[f] = saved[f] /\ asOf' = clock /\ clock' = clock /\ adopt' = {}
      /\ man'[f] \in EntriesFor(f)
  BY DEF Begins, AgentStays, LocalStays, RowsStay
<1>2. FileIsKnown(f) /\ (agent[f] # None => agent[f] \in Copy)
  BY FilesAre DEF KnownRun
<1>3. man'[f] # None => /\ agent[f] # None
                        /\ man'[f].size = agent[f].size /\ man'[f].mtime = agent[f].mtime
  <2>1. man'[f] # None => agent[f] # None /\ man'[f] \in {agent[f], [agent[f] EXCEPT !.sum = NoSum]}
    BY <1>1 DEF EntriesFor
  <2> QED
    BY <1>2, <2>1 DEF Copy
<1>4. Past(local[f])' /\ Past(journal[f])' /\ Past(saved[f])'
  BY <1>1, <1>2 DEF FileIsKnown, Past
<1>5. SavedIsOld(f)'
  BY <1>1, <1>2 DEF FileIsKnown, Past, SavedIsOld
<1>6. StampIsListed(f)' /\ AdoptedIsSame(f)'
  BY <1>1, <1>3 DEF StampIsListed, AdoptedIsSame
<1>7. RowOfAgent(journal[f], f)' /\ RowOfAgent(saved[f], f)'
  BY <1>1, <1>2 DEF FileIsKnown, RowOfAgent
<1>8. RowsAreHonest(f)'
  BY <1>1, <1>2, <1>3 DEF FileIsKnown, RowsAreHonest, Honest
<1> QED
  BY <1>4, <1>5, <1>6, <1>7, <1>8 DEF FileIsKnown

\* A row with the agent's stamp is of the version the run lists.
LEMMA RowIsListed ==
  ASSUME NEW f \in Files, KnownRun(f), pc # "idle", man[f] # None, agent[f] # None
  PROVE  /\ agent[f].mtime <= asOf =>
              /\ man[f].size = agent[f].size /\ man[f].mtime = agent[f].mtime
              /\ man[f].sum \in {agent[f].sum, NoSum}
         /\ man[f].mtime = agent[f].mtime =>
              /\ man[f].size = agent[f].size /\ man[f].sum \in {agent[f].sum, NoSum}
         /\ saved[f] # None /\ saved[f].mtime = agent[f].mtime => agent[f].mtime <= asOf
<1>1. asOf \in Nat /\ agent[f].mtime \in Nat /\ man[f].mtime <= asOf
  BY TimesAre
<1>2. EntryIsFresh(f) /\ SavedIsOld(f)
  BY DEF KnownRun, FileIsKnown
<1>3. agent[f].mtime <= asOf =>
        /\ man[f].size = agent[f].size /\ man[f].mtime = agent[f].mtime
        /\ man[f].sum \in {agent[f].sum, NoSum}
  BY <1>1, <1>2 DEF EntryIsFresh
<1> QED
  BY <1>1, <1>2, <1>3 DEF SavedIsOld

LEMMA NotesKnown ==
  ASSUME NEW f \in Files, KnownRun(f), Notes(f)
  PROVE  FileIsKnown(f)'
<1>1. /\ agent'[f] = agent[f] /\ local'[f] = local[f] /\ saved'[f] = saved[f]
      /\ man'[f] = man[f] /\ asOf' = asOf /\ clock' = clock /\ pc = "plan" /\ Skip(f)
      /\ (pc' # "idle" => pc # "idle") /\ journal'[f] = Noted(f)
      /\ (f \in adopt' => SameContent(f) \/ f \in adopt)
  BY DEF Notes, AgentStays, LocalStays, RunStays
<1>2. FileIsKnown(f) /\ man[f] # None
  BY DEF KnownRun, Notes, Phases
<1>3. /\ local[f] # None /\ local[f].size = man[f].size /\ Noted(f) # None
      /\ Noted(f).size = man[f].size /\ Noted(f).mtime \in {0, local[f].mtime}
      /\ Noted(f).sum # NoSum => /\ Verify = "sha256" /\ Noted(f).mtime = local[f].mtime
                                 /\ Noted(f).sum = man[f].sum /\ man[f].sum # NoSum
  <2>1. local[f] # None /\ local[f].size = man[f].size
    BY <1>1 DEF Skip, SameSize
  <2>2. man[f] \in Entry /\ local[f] \in Copy
    BY <1>2, <2>1, FilesAre DEF KnownRun
  <2>3. Noted(f) \in Entry
    BY <2>2, Kinds DEF Noted, Entry
  <2> QED
    BY <2>1, <2>3, Kinds DEF Noted
<1>4. Past(local[f])' /\ Past(journal[f])' /\ Past(saved[f])'
  BY <1>1, <1>2, <1>3, TimesAre DEF FileIsKnown, Past
<1>5. SavedIsOld(f)' /\ StampIsListed(f)'
  BY <1>1, <1>2 DEF FileIsKnown, SavedIsOld, StampIsListed
<1>6. AdoptedIsSame(f)'
  BY <1>1, <1>2, <1>3 DEF FileIsKnown, AdoptedIsSame, SameContent
<1>7. RowOfAgent(journal[f], f)' /\ RowOfAgent(saved[f], f)'
  <2>1. RowOfAgent(saved[f], f)'
    BY <1>1, <1>2 DEF FileIsKnown, RowOfAgent
  <2>2. ASSUME agent[f] # None, Noted(f).mtime = agent[f].mtime, Noted(f).sum # NoSum
        PROVE  Noted(f).sum = agent[f].sum
    <3>1. man[f].mtime = agent[f].mtime
      BY <1>1, <1>2, <1>3, <2>2 DEF FileIsKnown, StampIsListed
    <3> QED
      BY <1>1, <1>2, <1>3, <2>2, <3>1, RowIsListed
  <2> QED
    BY <1>1, <2>1, <2>2 DEF RowOfAgent
\* The digest of the row is that of the local file, unless this was edited too early.
<1>8. ASSUME Noted(f).sum # NoSum, Near(local[f].mtime, man[f].mtime)
      PROVE  \/ local[f].sum = Noted(f).sum
             \/ EditsInRun /\ Verify = "sha256" /\ local[f].mtime = man[f].mtime
  <2>1. CASE SameContent(f)
    BY <1>3, <1>8, <2>1 DEF SameContent
  <2>2. CASE JournalHit(man[f], f)
    <3>1. Honest(journal[f], man[f], f)
      BY <1>1, <1>2 DEF FileIsKnown, RowsAreHonest
    <3> QED
      BY <1>2, <1>3, <1>8, <2>2, <3>1 DEF JournalHit, Honest
  <2> QED
    BY <1>1, <1>3, <1>8, <2>1, <2>2 DEF Skip
<1>9. RowsAreHonest(f)'
  <2>1. Honest(saved[f], agent[f], f)'
    BY <1>1, <1>2 DEF FileIsKnown, RowsAreHonest, Honest
  <2>2. Honest(journal[f], man[f], f)'
    BY <1>1, <1>8 DEF Honest
  <2>3. ASSUME agent[f] # None, Noted(f).sum # NoSum, Noted(f).mtime = agent[f].mtime,
               Near(local[f].mtime, agent[f].mtime)
        PROVE  \/ local[f].sum = Noted(f).sum
               \/ EditsInRun /\ Verify = "sha256" /\ local[f].mtime = agent[f].mtime
    <3>1. man[f].mtime = agent[f].mtime
      BY <1>1, <1>2, <1>3, <2>3 DEF FileIsKnown, StampIsListed
    <3> QED
      BY <1>8, <2>3, <3>1
  <2>4. Honest(journal[f], agent[f], f)'
    BY <1>1, <2>3 DEF Honest
  <2> QED
    BY <2>1, <2>2, <2>4 DEF RowsAreHonest
<1> QED
  BY <1>4, <1>5, <1>6, <1>7, <1>9 DEF FileIsKnown

LEMMA AdoptsKnown ==
  ASSUME NEW f \in Files, KnownRun(f), Adopts(f)
  PROVE  FileIsKnown(f)'
<1>1. /\ agent'[f] = agent[f] /\ saved'[f] = saved[f]
      /\ man'[f] = man[f] /\ asOf' = asOf /\ clock' = clock /\ pc = "adopt"
      /\ f \in adopt /\ f \notin adopt' /\ local[f] # None
      /\ local'[f] = [local[f] EXCEPT !.mtime = man[f].mtime] /\ journal'[f] = man[f]
  BY DEF Adopts, AgentStays, RunStays
<1>2. FileIsKnown(f) /\ man[f] # None /\ Verify = "sha256"
  BY <1>1 DEF KnownRun, Phases
<1>3. local[f] \in Copy /\ man[f] \in Entry
  BY <1>1, <1>2, FilesAre DEF KnownRun
<1>4. /\ local'[f] \in Copy /\ local'[f] # None /\ local'[f].mtime = man[f].mtime
      /\ local'[f].size = local[f].size /\ local'[f].sum = local[f].sum
  BY <1>1, <1>3, Kinds DEF Copy
<1>5. man[f].mtime <= clock
  BY <1>1, <1>2, TimesAre
<1>6. Past(local[f])' /\ Past(journal[f])' /\ Past(saved[f])'
  BY <1>1, <1>2, <1>4, <1>5 DEF FileIsKnown, Past
<1>7. SavedIsOld(f)'
  BY <1>1, <1>2 DEF FileIsKnown, SavedIsOld
<1>8. StampIsListed(f)' /\ AdoptedIsSame(f)'
  BY <1>1, <1>4 DEF StampIsListed, AdoptedIsSame
<1>9. RowOfAgent(journal[f], f)' /\ RowOfAgent(saved[f], f)'
  BY <1>1, <1>2, RowIsListed DEF FileIsKnown, RowOfAgent
<1>10. RowsAreHonest(f)'
  <2>1. CASE EditsInRun
    <3>1. Honest(journal[f], man[f], f)' /\ Honest(journal[f], agent[f], f)'
      BY <1>1, <1>2, <1>4, <2>1 DEF Honest
    <3>2. Honest(saved[f], agent[f], f)'
      BY <1>1, <1>2, <1>4, <2>1, RowIsListed DEF Honest
    <3> QED
      BY <3>1, <3>2 DEF RowsAreHonest
  <2>2. CASE ~ EditsInRun
    <3>1. man[f].sum # NoSum /\ local[f].sum = man[f].sum
      BY <1>1, <1>2, <2>2 DEF FileIsKnown, AdoptedIsSame
    <3>2. Honest(journal[f], man[f], f)' /\ Honest(journal[f], agent[f], f)'
      BY <1>1, <1>4, <3>1 DEF Honest
    <3>3. Honest(saved[f], agent[f], f)'
      <4>1. RowOfAgent(saved[f], f)
        BY <1>2 DEF FileIsKnown
      <4> QED
        BY <1>1, <1>2, <1>4, <3>1, <4>1, RowIsListed DEF Honest, RowOfAgent
    <3> QED
      BY <3>2, <3>3 DEF RowsAreHonest
  <2> QED
    BY <2>1, <2>2
<1> QED
  BY <1>6, <1>7, <1>8, <1>9, <1>10 DEF FileIsKnown

LEMMA PutsKnown ==
  ASSUME KeepMTime, NEW f \in Files, KnownRun(f), Puts(f)
  PROVE  FileIsKnown(f)'
<1>1. PICK d \in Arrives(f) :
        /\ local'[f] = [size |-> man[f].size, sum |-> d, mtime |-> man[f].mtime]
        /\ journal'[f] = [size |-> man[f].size, mtime |-> man[f].mtime, sum |-> d]
  BY DEF Puts
<1>2. /\ agent'[f] = agent[f] /\ saved'[f] = saved[f] /\ man'[f] = man[f] /\ asOf' = asOf
      /\ clock' = clock /\ pc # "idle" /\ (pc' # "idle" => pc # "idle") /\ adopt = {}
      /\ (f \in adopt' => f \in adopt)
  BY DEF Puts, AgentStays, PlanStays, RunStays, KnownRun, Phases
<1>3. FileIsKnown(f) /\ man[f] # None
  BY DEF KnownRun, Phases, Puts
<1>4. man[f] \in Entry /\ (agent[f] # None => agent[f] \in Copy)
  BY <1>3, FilesAre DEF KnownRun
<1>5. d \in Contents \cup {Torn} /\ d # NoSum
  BY <1>4, Kinds, RunAssumption DEF Arrives
<1>6. local'[f] # None /\ journal'[f] # None
  BY <1>1, <1>4, <1>5, Kinds
<1>7. ASSUME agent[f] # None, man[f].mtime = agent[f].mtime
      PROVE  d = agent[f].sum
  BY <1>7 DEF Arrives
<1>8. man[f].mtime <= clock
  BY <1>2, <1>3, TimesAre
<1>9. Past(local[f])' /\ Past(journal[f])' /\ Past(saved[f])'
  BY <1>1, <1>2, <1>3, <1>8 DEF FileIsKnown, Past
<1>10. SavedIsOld(f)'
  BY <1>2, <1>3 DEF FileIsKnown, SavedIsOld
<1>11. StampIsListed(f)' /\ AdoptedIsSame(f)'
  BY <1>1, <1>2 DEF StampIsListed, AdoptedIsSame
<1>12. RowOfAgent(journal[f], f)' /\ RowOfAgent(saved[f], f)'
  BY <1>1, <1>2, <1>3, <1>7 DEF FileIsKnown, RowOfAgent
<1>13. Honest(journal[f], man[f], f)' /\ Honest(journal[f], agent[f], f)'
  BY <1>1, <1>2 DEF Honest
<1>14. Honest(saved[f], agent[f], f)'
  <2>1. RowOfAgent(saved[f], f)
    BY <1>3 DEF FileIsKnown
  <2> QED
    BY <1>1, <1>2, <1>3, <1>7, <2>1, RowIsListed DEF Honest, RowOfAgent
<1> QED
  BY <1>9, <1>10, <1>11, <1>12, <1>13, <1>14 DEF FileIsKnown, RowsAreHonest

LEMMA EndsKnown ==
  ASSUME NEW f \in Files, KnownRun(f), Drops(f) \/ Ends(f)
  PROVE  FileIsKnown(f)'
<1> USE DEF AgentStays, LocalStays, RunStays, PlanStays
<1>1. FileIsKnown(f) /\ Phases
  BY DEF KnownRun
<1>2. CASE Drops(f)
  <2>1. /\ agent'[f] = agent[f] /\ local'[f] = None /\ journal'[f] = None /\ saved'[f] = saved[f]
        /\ man'[f] = man[f] /\ asOf' = asOf /\ clock' = clock /\ adopt = {}
        /\ (pc' # "idle" => pc # "idle") /\ (f \in adopt' => f \in adopt)
    BY <1>1, <1>2 DEF Drops, Phases
  <2> QED
    BY <1>1, <2>1 DEF FileIsKnown, Past, SavedIsOld, StampIsListed, AdoptedIsSame, RowOfAgent,
                      RowsAreHonest, Honest
<1>3. CASE Ends(f)
  <2>1. /\ agent'[f] = agent[f] /\ local'[f] = local[f] /\ man'[f] = man[f] /\ asOf' = asOf
        /\ clock' = clock /\ pc' = "idle" /\ (f \in adopt' => f \in adopt)
        /\ journal'[f] \in {None, journal[f], saved[f]}
        /\ saved'[f] \in {None, journal[f], saved[f]}
    BY <1>3 DEF Ends
  <2>2. Past(local[f])' /\ Past(journal[f])' /\ Past(saved[f])'
    BY <1>1, <2>1 DEF FileIsKnown, Past
  <2>3. SavedIsOld(f)' /\ StampIsListed(f)' /\ AdoptedIsSame(f)'
    BY <1>1, <2>1 DEF FileIsKnown, SavedIsOld, StampIsListed, AdoptedIsSame
  <2>4. RowOfAgent(journal[f], f)' /\ RowOfAgent(saved[f], f)'
    BY <1>1, <2>1 DEF FileIsKnown, RowOfAgent
  <2>5. RowsAreHonest(f)'
    BY <1>1, <2>1 DEF FileIsKnown, RowsAreHonest, Honest
  <2> QED
    BY <2>2, <2>3, <2>4, <2>5 DEF FileIsKnown
<1> QED
  BY <1>2, <1>3

LEMMA JournalInit == Init => JournalInductive
<1> SUFFICES ASSUME Init PROVE JournalInductive
  OBVIOUS
<1>1. RunInductive
  BY RunInductiveInit
<1>2. local \in [Files -> {None} \cup {CopyOf(c, 0) : c \in Contents}]
  BY Zenon DEF Init
<1>3. /\ journal = Nothing /\ saved = Nothing /\ pc = "idle" /\ adopt = {} /\ clock = Tolerance
  BY Zenon DEF Init
<1>4. ASSUME NEW f \in Files PROVE FileIsKnown(f)
  <2>1. journal[f] = None /\ saved[f] = None
    BY <1>3 DEF Nothing
  <2>2. local[f] # None => local[f].mtime <= clock
    BY <1>2, <1>3, CopiesAre, Seconds
  <2> QED
    BY <1>3, <2>1, <2>2 DEF FileIsKnown, Past, SavedIsOld, StampIsListed, AdoptedIsSame,
                            RowOfAgent, RowsAreHonest, Honest
<1> QED
  BY <1>1, <1>4 DEF JournalInductive

LEMMA JournalStep ==
  ASSUME StampsKept, JournalInductive, [Next]_vars
  PROVE  JournalInductive'
<1>1. RunInductive /\ RunInductive'
  BY RunInductiveStep DEF JournalInductive
<1>2. FileTypes /\ RunTypes /\ Phases /\ asOf <= clock
  BY <1>1, Typed DEF RunInductive
<1>3. clock' \in Nat
  BY <1>2, ClockStep
<1>4. ASSUME NEW f \in Files PROVE FileIsKnown(f)'
  <2>1. KnownRun(f)
    BY <1>1, <1>2 DEF KnownRun, RunInductive, JournalInductive
  <2>2. FileStep(f)
    BY <1>2, StepsOfAFile
  <2> QED
    BY <1>3, <2>1, <2>2, StillKnown, AgentMovesKnown, LocalMovesKnown, BeginsKnown, NotesKnown,
       AdoptsKnown, PutsKnown, EndsKnown DEF FileStep, StampsKept
<1> QED
  BY <1>1, <1>4 DEF JournalInductive

LEMMA JournalsAreInductive == ASSUME StampsKept PROVE Spec => []JournalInductive
<1>1. JournalInductive /\ [Next]_vars => JournalInductive'
  BY JournalStep
<1> QED
  BY <1>1, JournalInit, PTL DEF Spec

\* The journal never vouches for content the destination does not hold (plan.go decide,
\* noteUpToDate; state.go), whatever is edited between runs, deleted, cancelled or lost,
\* if stamps are kept and the destination is left alone during runs.
THEOREM SyncJournalTruthful ==
  ASSUME StampsKept, ~ EditsInRun
  PROVE  Spec => []SyncInv
<1>1. JournalInductive => SyncInv
  <2> SUFFICES ASSUME JournalInductive, NEW f \in Files, agent[f] # None, local[f] # None,
                      local[f].size = agent[f].size, JournalHit(agent[f], f)
               PROVE  local[f].sum = agent[f].sum
    BY DEF JournalInductive, RunInductive, SyncInv, JournalTruthful
  <2>1. Honest(journal[f], agent[f], f)
    BY DEF JournalInductive, FileIsKnown, RowsAreHonest
  <2>2. agent[f].sum # NoSum
    BY FilesAre, Typed, Kinds, RunAssumption DEF JournalInductive, RunInductive
  <2> QED
    BY <2>1, <2>2 DEF JournalHit, Honest
<1> QED
  BY <1>1, JournalsAreInductive, PTL

\* When the destination may be edited during a run, only a file edited between the plan and
\* the realignment of its stamp (sync.go:233) can be vouched for wrongly, and it looks in
\* every respect but its content like what the agent publishes.
THEOREM SyncJournalMisledOnlyByMasked ==
  ASSUME StampsKept
  PROVE  Spec => [](\A f \in Files :
                      agent[f] # None /\ local[f] # None /\ local[f].size = agent[f].size
                        /\ JournalHit(agent[f], f)
                        => local[f].sum = agent[f].sum \/ Masked(f))
<1>1. JournalInductive =>
        \A f \in Files :
          agent[f] # None /\ local[f] # None /\ local[f].size = agent[f].size
            /\ JournalHit(agent[f], f)
            => local[f].sum = agent[f].sum \/ Masked(f)
  <2> SUFFICES ASSUME JournalInductive, NEW f \in Files, agent[f] # None, local[f] # None,
                      local[f].size = agent[f].size, JournalHit(agent[f], f)
               PROVE  local[f].sum = agent[f].sum \/ Masked(f)
    OBVIOUS
  <2>1. Honest(journal[f], agent[f], f)
    BY DEF JournalInductive, FileIsKnown, RowsAreHonest
  <2>2. agent[f].sum # NoSum
    BY FilesAre, Typed, Kinds, RunAssumption DEF JournalInductive, RunInductive
  <2> QED
    BY <2>1, <2>2 DEF JournalHit, Honest, Masked, StampsKept
<1> QED
  BY <1>1, JournalsAreInductive, PTL

(***************************************************************************)
(* What a run that ends "ok" has done.                                     *)
(***************************************************************************)
HoldsEntry(f) ==
  /\ local[f] # None /\ local[f].size = man[f].size
  /\ man[f].sum # NoSum => local[f].sum = man[f].sum

\* A listed file is still to be looked at or transferred, has failed, or is in place.
IsServed(f) ==
  pc # "idle" /\ man[f] # None /\ man[f].size <= MaxSize
    => f \in undecided \/ Waits(f) \/ errors \/ HoldsEntry(f)

ServeInductive == JournalInductive /\ \A f \in Files : IsServed(f)

LEMMA NotedIsServed ==
  ASSUME StampsKept, ~ EditsInRun, Verify = "sha256", NEW f \in Files, KnownRun(f), Notes(f)
  PROVE  HoldsEntry(f)
<1>1. pc = "plan" /\ Skip(f) /\ man[f] # None
  BY DEF Notes, KnownRun, Phases
<1>2. local[f] # None /\ local[f].size = man[f].size
  BY <1>1 DEF Skip, SameSize
<1>3. JournalHit(man[f], f) \/ man[f].sum = NoSum \/ SameContent(f)
  BY <1>1 DEF Skip
<1>4. Honest(journal[f], man[f], f)
  BY <1>1 DEF KnownRun, FileIsKnown, RowsAreHonest
<1> QED
  BY <1>1, <1>2, <1>3, <1>4 DEF HoldsEntry, JournalHit, Honest, SameContent

LEMMA ServeStep ==
  ASSUME StampsKept, ~ EditsInRun, Verify = "sha256", NEW f \in Files, KnownRun(f), IsServed(f),
         PlanStep(f)
  PROVE  IsServed(f)'
<1> USE DEF AgentStays, LocalStays, RunStays, PlanStays, PlaceStays, Waits
<1>1. FileTypes /\ Phases
  BY DEF KnownRun
<1>2. CASE Rests(f) \/ Disturbed(f)
  <2>1. CASE LocalMoves(f)
    BY <2>1 DEF LocalMoves, IsServed
  <2>2. CASE Still(f) \/ AgentMoves(f)
    <3>1. local'[f] = local[f] /\ man'[f] = man[f] /\ (pc' # "idle" => pc # "idle")
      BY <2>2 DEF Still, AgentMoves
    <3> QED
      BY <1>2, <3>1 DEF Rests, Disturbed, IsServed, HoldsEntry
  <2> QED
    BY <1>2, <2>1, <2>2 DEF Rests, Disturbed
<1>3. CASE Enters(f) \/ Queues(f)
  BY <1>3 DEF Enters, Queues, IsServed
<1>4. CASE IsNoted(f)
  <2>1. HoldsEntry(f) /\ local'[f] = local[f] /\ man'[f] = man[f]
    BY <1>4, NotedIsServed DEF IsNoted, Notes
  <2> QED
    BY <2>1 DEF IsServed, HoldsEntry
<1>5. CASE Adoption(f)
  <2>1. f \in adopt /\ man'[f] = man[f] /\ (pc' # "idle" => pc # "idle")
    BY <1>5 DEF Adoption, Adopts, Still
  <2>2. HoldsEntry(f) => HoldsEntry(f)'
    <3>1. CASE Still(f)
      BY <3>1 DEF Still, HoldsEntry
    <3>2. CASE Adopts(f)
      <4>1. man[f] \in Entry /\ local[f] \in Copy
        BY <1>1, <2>1, <3>2, FilesAre DEF Phases, Adopts
      <4>2. local'[f] \in Copy /\ local'[f].size = local[f].size /\ local'[f].sum = local[f].sum
        BY <3>2, <4>1, Kinds DEF Adopts, Copy
      <4> QED
        BY <2>1, <4>2, Kinds DEF HoldsEntry
    <3> QED
      BY <1>5, <3>1, <3>2 DEF Adoption
  <2> QED
    BY <1>5, <2>1, <2>2 DEF Adoption, IsServed
<1>6. CASE Arrival(f)
  <2>1. man'[f] = man[f] /\ man[f] # None
    BY <1>1, <1>6 DEF Arrival, Puts, Phases
  <2>2. PICK d \in Arrives(f) :
          local'[f] = [size |-> man[f].size, sum |-> d,
                       mtime |-> IF KeepMTime THEN man[f].mtime ELSE clock + Tolerance]
    BY <1>6 DEF Arrival, Puts
  <2>3. man[f] \in Entry /\ (agent[f] # None => agent[f] \in Copy) /\ clock + Tolerance \in Nat
    BY <1>1, <2>1, FilesAre, TimesAre, Seconds
  <2>4. d \in Contents \cup {Torn} /\ (man[f].sum # NoSum => d = man[f].sum)
    BY <2>3, Kinds DEF Arrives
  <2>5. local'[f] # None
    BY <2>2, <2>3, <2>4, Kinds
  <2> QED
    BY <2>1, <2>2, <2>4, <2>5 DEF IsServed, HoldsEntry
<1>7. CASE Dropped(f)
  BY <1>1, <1>7 DEF Dropped, Drops, Phases, IsServed
<1>8. CASE EndOfRun(f)
  BY <1>8 DEF EndOfRun, Ends, IsServed
<1> QED
  BY <1>2, <1>3, <1>4, <1>5, <1>6, <1>7, <1>8 DEF PlanStep

LEMMA ServesAreInductive ==
  ASSUME StampsKept, ~ EditsInRun, Verify = "sha256"
  PROVE  Spec => []ServeInductive
<1>1. Init => ServeInductive
  <2>1. Init => pc = "idle"
    BY Zenon DEF Init
  <2> QED
    BY <2>1, JournalInit DEF ServeInductive, IsServed
<1>2. ServeInductive /\ [Next]_vars => ServeInductive'
  <2> SUFFICES ASSUME ServeInductive, [Next]_vars PROVE ServeInductive'
    OBVIOUS
  <2>1. JournalInductive' /\ RunInductive
    BY JournalStep DEF ServeInductive, JournalInductive
  <2>2. FileTypes /\ RunTypes /\ Phases /\ asOf <= clock
    BY <2>1, Typed DEF RunInductive
  <2>3. ASSUME NEW f \in Files PROVE IsServed(f)'
    <3>1. KnownRun(f) /\ IsServed(f)
      BY <2>1, <2>2 DEF KnownRun, RunInductive, JournalInductive, ServeInductive
    <3>2. PlanStep(f)
      BY <2>2, PlansOfAFile
    <3> QED
      BY <3>1, <3>2, ServeStep
  <2> QED
    BY <2>1, <2>3 DEF ServeInductive
<1> QED
  BY <1>1, <1>2, PTL DEF Spec

\* A run that ends "ok" and was not cancelled has every listed file in place, of the listed
\* size and digest (sync.go RunOnce), whatever was changed before it and at the agent
\* meanwhile.
THEOREM SyncOkMeansComplete ==
  ASSUME StampsKept, ~ EditsInRun, Verify = "sha256"
  PROVE  Spec => OkMeansComplete
<1>1. ServeInductive /\ [Next]_vars =>
        [Finish /\ result' = "ok" /\ ~ctxDone =>
           \A f \in Files : man[f] # None /\ man[f].size <= MaxSize =>
              /\ local[f] # None
              /\ local[f].size = man[f].size
              /\ man[f].sum # NoSum => local[f].sum = man[f].sum]_vars
  <2> SUFFICES ASSUME ServeInductive, Finish, result' = "ok", ~ ctxDone,
                      NEW f \in Files, man[f] # None, man[f].size <= MaxSize
               PROVE  HoldsEntry(f)
    BY DEF HoldsEntry
  <2>1. pc = "remove" /\ ~ errors
    BY DEF Finish
  <2>2. Phases
    BY DEF ServeInductive, JournalInductive, RunInductive
  <2>3. f \notin undecided /\ ~ Waits(f)
    BY <2>1, <2>2 DEF Phases, Waits
  <2> QED
    BY <2>1, <2>3 DEF ServeInductive, IsServed
<1> QED
  BY <1>1, ServesAreInductive, PTL DEF Spec, OkMeansComplete

(***************************************************************************)
(* A run that leaves nothing to do.                                        *)
(***************************************************************************)
Undisturbed == settled # "no" /\ pc # "idle"
Published(f) == agent[f] # None /\ agent[f].size <= MaxSize

\* The local copy of f is as large as the agent's and, if stamps matter, has its stamp.
Matches(f) ==
  /\ local[f] # None /\ local[f].size = agent[f].size
  /\ Verify # "none" => local[f].mtime = agent[f].mtime

\* Two stamps of f within the tolerance are the same one.
StampsAreApart(f) ==
  agent[f] # None =>
    /\ local[f] # None /\ Near(local[f].mtime, agent[f].mtime)
         => local[f].mtime = agent[f].mtime
    /\ pc # "idle" /\ agent[f].mtime > asOf => agent[f].mtime >= asOf + Tolerance

\* Nobody but an editor gives the agent's stamp to other content.
StampTellsContent(f) ==
  ~ EditsInRun /\ agent[f] # None /\ local[f] # None /\ local[f].mtime = agent[f].mtime
    => local[f].sum = agent[f].sum

\* Since the run began nothing changed, so its plan leads to a match.
PlanIsCurrent(f) ==
  Undisturbed =>
    /\ UpToDate(f)
    /\ f \in undecided => man[f].size <= MaxSize
    /\ f \in adopt => local[f] # None /\ local[f].size = man[f].size
    /\ Published(f) => f \in undecided \/ f \in adopt \/ Waits(f) \/ errors \/ Matches(f)

\* Once a run left nothing to do, there is nothing to do.
NothingToDo(f) ==
  settled = "yes" => /\ Published(f) => Matches(f)
                     /\ Waits(f) => Masked(f)

SettledInductive ==
  /\ JournalInductive
  /\ \A f \in Files : StampsAreApart(f) /\ StampTellsContent(f) /\ PlanIsCurrent(f)
                      /\ NothingToDo(f)

LEMMA ApartStep ==
  ASSUME ChangesApart, NEW f \in Files, KnownRun(f), StampsAreApart(f), clock' \in Nat,
         FileStep(f)
  PROVE  StampsAreApart(f)'
<1> USE DEF AgentStays, LocalStays, RunStays, PlanStays
<1>1. StampsKept /\ KeepMTime /\ FileTypes /\ Phases /\ Tolerance = 2
  BY Seconds DEF ChangesApart, StampsKept, KnownRun
<1>2. CASE Still(f) \/ Notes(f) \/ Ends(f)
  <2>1. agent'[f] = agent[f] /\ local'[f] = local[f] /\ asOf' = asOf /\ (pc' # "idle" => pc # "idle")
    BY <1>2 DEF Still, Notes, Ends
  <2> QED
    BY <2>1 DEF StampsAreApart
<1>3. CASE AgentMoves(f)
  <2>1. /\ local'[f] = local[f] /\ asOf' = asOf
        /\ agent'[f] # None => agent'[f].mtime = clock' /\ clock' >= clock + 2
    BY <1>3, CopiesAre, TimesAre, Seconds DEF AgentMoves, ChangesApart
  <2> QED
    BY <1>1, <2>1, TimesAre DEF StampsAreApart, Near
<1>4. CASE LocalMoves(f)
  <2>1. /\ agent'[f] = agent[f] /\ asOf' = asOf /\ (pc' # "idle" => pc # "idle")
        /\ local'[f] # None => local'[f].mtime = clock' /\ clock' >= clock + 2
    BY <1>1, <1>4, CopiesAre, TimesAre, Seconds DEF LocalMoves, StampsKept
  <2> QED
    BY <1>1, <2>1, TimesAre DEF StampsAreApart, Near
<1>5. CASE Begins(f)
  <2>1. agent'[f] = agent[f] /\ local'[f] = local[f] /\ asOf' = clock
    BY <1>5 DEF Begins
  <2> QED
    BY <2>1, TimesAre DEF StampsAreApart
<1>6. CASE Adopts(f) \/ Puts(f)
  <2>1. /\ agent'[f] = agent[f] /\ asOf' = asOf /\ (pc' # "idle" => pc # "idle") /\ pc # "idle"
        /\ man[f] # None
    BY <1>1, <1>6 DEF Adopts, Puts, Phases
  <2>2. local'[f].mtime = man[f].mtime
    <3>1. CASE Puts(f)
      BY <1>1, <3>1 DEF Puts
    <3>2. CASE Adopts(f)
      <4>1. local[f] \in Copy
        BY <1>1, <3>2, FilesAre DEF Adopts
      <4> QED
        BY <3>2, <4>1 DEF Adopts, Copy
    <3> QED
      BY <1>6, <3>1, <3>2
  <2>3. agent[f] # None /\ Near(man[f].mtime, agent[f].mtime) => man[f].mtime = agent[f].mtime
    <3>1. agent[f] # None => man[f].mtime = agent[f].mtime \/ agent[f].mtime >= asOf + 2
      BY <1>1, <2>1 DEF KnownRun, EntryIsFresh, StampsAreApart
    <3> QED
      BY <1>1, <2>1, <3>1, TimesAre DEF Near
  <2> QED
    BY <2>1, <2>2, <2>3 DEF StampsAreApart
<1>7. CASE Drops(f)
  BY <1>7 DEF Drops, StampsAreApart
<1> QED
  BY <1>2, <1>3, <1>4, <1>5, <1>6, <1>7 DEF FileStep

LEMMA TellsStep ==
  ASSUME StampsKept, NEW f \in Files, KnownRun(f), StampTellsContent(f), clock' \in Nat,
         FileStep(f)
  PROVE  StampTellsContent(f)'
<1> USE DEF AgentStays, LocalStays, RunStays, PlanStays
<1>1. KeepMTime /\ FileTypes /\ Phases
  BY DEF StampsKept, KnownRun
<1>2. CASE Still(f) \/ Notes(f) \/ Ends(f) \/ Begins(f)
  <2>1. agent'[f] = agent[f] /\ local'[f] = local[f]
    BY <1>2 DEF Still, Notes, Ends, Begins
  <2> QED
    BY <2>1 DEF StampTellsContent
<1>3. CASE AgentMoves(f)
  <2>0. /\ local'[f] = local[f]
        /\ \/ agent'[f] = None
           \/ \E c \in Contents, gap \in AgentGaps :
                agent'[f] = CopyOf(c, clock') /\ clock' = clock + gap
    BY <1>3 DEF AgentMoves
  <2>1. agent'[f] # None => agent'[f].mtime = clock' /\ clock' > clock
    BY <2>0, CopiesAre, TimesAre, Seconds
  <2> QED
    BY <2>0, <2>1, TimesAre DEF StampTellsContent
<1>4. CASE LocalMoves(f)
  <2>1. /\ agent'[f] = agent[f]
        /\ local'[f] # None => local'[f].mtime = clock' /\ clock' > clock
    BY <1>4, CopiesAre, TimesAre, Seconds DEF LocalMoves
  <2> QED
    BY <2>1, TimesAre DEF StampTellsContent
<1>5. CASE Adopts(f)
  <2>1. local[f] # None /\ man[f] # None /\ f \in adopt /\ pc # "idle" /\ agent'[f] = agent[f]
        /\ FileIsKnown(f)
    BY <1>1, <1>5 DEF Adopts, Phases, KnownRun
  <2>2. local[f] \in Copy
    BY <1>1, <2>1, FilesAre
  <2>3. local'[f].mtime = man[f].mtime /\ local'[f].sum = local[f].sum
    BY <1>5, <2>2 DEF Adopts, Copy
  <2>4. ~ EditsInRun => man[f].sum # NoSum /\ local[f].sum = man[f].sum
    BY <2>1 DEF FileIsKnown, AdoptedIsSame
  <2>5. agent[f] # None /\ man[f].mtime = agent[f].mtime => man[f].sum \in {agent[f].sum, NoSum}
    BY <2>1, RowIsListed
  <2> QED
    BY <2>1, <2>3, <2>4, <2>5 DEF StampTellsContent
<1>6. CASE Puts(f)
  <2>1. PICK d \in Arrives(f) :
          local'[f] = [size |-> man[f].size, sum |-> d, mtime |-> man[f].mtime]
    BY <1>1, <1>6 DEF Puts
  <2>2. agent'[f] = agent[f]
    BY <1>6 DEF Puts
  <2>3. agent[f] # None /\ man[f].mtime = agent[f].mtime => d = agent[f].sum
    BY DEF Arrives
  <2> QED
    BY <2>1, <2>2, <2>3 DEF StampTellsContent
<1>7. CASE Drops(f)
  BY <1>7 DEF Drops, StampTellsContent
<1> QED
  BY <1>2, <1>3, <1>4, <1>5, <1>6, <1>7 DEF FileStep

\* An undisturbed plan that passes a file over finds it matching, or realigns its stamp.
LEMMA NotedMatches ==
  ASSUME ChangesApart, NEW f \in Files, KnownRun(f), StampsAreApart(f), UpToDate(f), Notes(f)
  PROVE  /\ local[f] # None /\ local[f].size = man[f].size
         /\ Matches(f) \/ SameContent(f)
<1>1. pc = "plan" /\ Skip(f) /\ man[f] # None /\ FileTypes
  BY DEF Notes, KnownRun, Phases
<1>2. local[f] # None /\ local[f].size = man[f].size
  BY <1>1 DEF Skip, SameSize
<1>3. agent[f] # None /\ agent[f] \in Copy
  BY <1>1, FilesAre DEF UpToDate
<1>4. man[f].size = agent[f].size /\ man[f].mtime = agent[f].mtime
  BY <1>3 DEF UpToDate, Copy
<1>5. Verify = "none" \/ SameTime(f) \/ JournalHit(man[f], f) \/ SameContent(f)
  BY <1>1 DEF Skip
<1>6. SameTime(f) \/ JournalHit(man[f], f) => local[f].mtime = agent[f].mtime
  BY <1>2, <1>3, <1>4 DEF SameTime, JournalHit, StampsAreApart
<1> QED
  BY <1>2, <1>3, <1>4, <1>5, <1>6 DEF Matches

\* With nothing to do, a plan asks for a masked file at most.
LEMMA QueuedIsMasked ==
  ASSUME ChangesApart, NEW f \in Files, KnownRun(f), StampTellsContent(f), UpToDate(f),
         f \in undecided, Matches(f), ~ Skip(f)
  PROVE  Masked(f)
<1>1. man[f] # None /\ FileTypes /\ KeepMTime
  BY DEF KnownRun, Phases, ChangesApart, StampsKept
<1>2. agent[f] # None /\ agent[f] \in Copy /\ agent[f].mtime \in Nat
  BY <1>1, FilesAre, Kinds DEF UpToDate
<1>3. /\ man[f].size = agent[f].size /\ man[f].mtime = agent[f].mtime
      /\ man[f].sum \in {agent[f].sum, NoSum}
  BY <1>2 DEF UpToDate, Copy
<1>4. SameSize(f) /\ Verify # "none"
  BY <1>3 DEF Matches, SameSize, Skip
<1>5. local[f].mtime = agent[f].mtime /\ SameTime(f)
  BY <1>2, <1>3, <1>4, Seconds DEF Matches, SameTime, Near
<1>6. Verify = "sha256" /\ man[f].sum # NoSum /\ ~ SameContent(f) /\ ~ JournalHit(man[f], f)
  BY <1>4, <1>5, RunAssumption DEF Skip
<1>7. local[f].sum # agent[f].sum
  BY <1>3, <1>6 DEF SameContent
<1>8. EditsInRun
  BY <1>2, <1>5, <1>7 DEF StampTellsContent, Matches
<1> QED
  BY <1>1, <1>2, <1>5, <1>6, <1>7, <1>8 DEF Masked, Matches

Settling(f) ==
  /\ KnownRun(f) /\ StampsAreApart(f) /\ StampTellsContent(f) /\ PlanIsCurrent(f)
  /\ NothingToDo(f)

\* A file that an undisturbed plan lists is published as listed.
LEMMA ListedIsPublished ==
  ASSUME NEW f \in Files, FileTypes, UpToDate(f)
  PROVE  /\ man[f] # None <=> agent[f] # None
         /\ man[f] # None => /\ man[f].size = agent[f].size /\ man[f].mtime = agent[f].mtime
                             /\ man[f].size \in Nat
<1>1. CASE agent[f] = None
  BY <1>1 DEF UpToDate
<1>2. CASE agent[f] # None
  <2>1. agent[f] \in Copy
    BY <1>2, FilesAre
  <2>2. /\ [agent[f] EXCEPT !.sum = NoSum] \in Entry
        /\ [agent[f] EXCEPT !.sum = NoSum].size = agent[f].size
        /\ [agent[f] EXCEPT !.sum = NoSum].mtime = agent[f].mtime
    BY <2>1 DEF Copy, Entry
  <2>3. agent[f].size \in Nat
    BY <2>1, Kinds
  <2>4. man[f] = agent[f] \/ man[f] = [agent[f] EXCEPT !.sum = NoSum]
    BY <1>2 DEF UpToDate
  <2>5. man[f] # None
    BY <1>2, <2>2, <2>4, Kinds
  <2> QED
    BY <1>2, <2>2, <2>3, <2>4, <2>5
<1> QED
  BY <1>1, <1>2

\* A file that is put in place or whose stamp is realigned by such a plan matches.
LEMMA PlacedMatches ==
  ASSUME ChangesApart, NEW f \in Files, KnownRun(f), UpToDate(f), man[f] # None,
         \/ Puts(f)
         \/ Adopts(f) /\ local[f].size = man[f].size
  PROVE  /\ Matches(f)' /\ UpToDate(f)'
         /\ Adopts(f) /\ Masked(f) => Masked(f)'
<1>1. /\ agent'[f] = agent[f] /\ man'[f] = man[f] /\ FileTypes /\ KeepMTime /\ RunTypes
  BY DEF Puts, Adopts, AgentStays, PlanStays, RunStays, KnownRun, ChangesApart, StampsKept
<1>2. man[f].size = agent[f].size /\ man[f].mtime = agent[f].mtime /\ agent[f] # None
  BY <1>1, ListedIsPublished
<1>3. CASE Puts(f)
  <2>1. PICK d \in Arrives(f) :
          local'[f] = [size |-> man[f].size, sum |-> d, mtime |-> man[f].mtime]
    BY <1>1, <1>3 DEF Puts
  <2>2. man[f] \in Entry /\ agent[f] \in Copy
    BY <1>1, <1>2, FilesAre
  <2>3. d \in Contents \cup {Torn}
    BY <2>2, Kinds DEF Arrives
  <2>4. local'[f] # None
    BY <2>1, <2>2, <2>3, Kinds
  <2>5. ~ Adopts(f)
    BY <1>3 DEF Puts, Adopts
  <2> QED
    BY <1>1, <1>2, <2>1, <2>4, <2>5 DEF Matches, UpToDate
<1>4. CASE Adopts(f) /\ local[f].size = man[f].size
  <2>1. local[f] \in Copy /\ man[f].mtime \in Nat
    BY <1>1, <1>4, FilesAre, TimesAre DEF Adopts
  <2>2. /\ local'[f] \in Copy /\ local'[f].size = local[f].size /\ local'[f].sum = local[f].sum
        /\ local'[f].mtime = man[f].mtime
    BY <1>4, <2>1 DEF Adopts, Copy
  <2>3. local'[f] # None
    BY <2>2, Kinds
  <2> QED
    BY <1>1, <1>2, <1>4, <2>2, <2>3 DEF Matches, UpToDate, Masked
<1> QED
  BY <1>3, <1>4

LEMMA SettleStep ==
  ASSUME ChangesApart, Flaky = {}, NEW f \in Files, Settling(f), PlanStep(f)
  PROVE  PlanIsCurrent(f)' /\ NothingToDo(f)'
<1> USE DEF AgentStays, LocalStays, RunStays, PlanStays, PlaceStays, Waits
<1>1. /\ FileTypes /\ Phases /\ KeepMTime /\ KnownRun(f) /\ PlanIsCurrent(f) /\ NothingToDo(f)
      /\ StampsAreApart(f) /\ StampTellsContent(f)
  BY DEF KnownRun, Settling, ChangesApart, StampsKept
<1>2. CASE Rests(f)
  <2>1. /\ agent'[f] = agent[f] /\ local'[f] = local[f] /\ man'[f] = man[f]
        /\ settled' = settled /\ (pc' # "idle" => pc # "idle") /\ PlaceStays(f)
    BY <1>2 DEF Rests, Still
  <2>2. PlanIsCurrent(f)'
    BY <1>1, <2>1 DEF PlanIsCurrent, Undisturbed, UpToDate, Published, Matches
  <2>3. NothingToDo(f)'
    BY <1>1, <2>1 DEF NothingToDo, Published, Matches, Masked
  <2> QED
    BY <2>2, <2>3
<1>3. CASE Disturbed(f)
  BY <1>3 DEF Disturbed, PlanIsCurrent, Undisturbed, NothingToDo
<1>4. CASE Enters(f)
  <2>1. /\ agent'[f] = agent[f] /\ local'[f] = local[f] /\ man'[f] \in EntriesFor(f)
        /\ settled' \in {"maybe", settled} /\ f \notin adopt' \cup queue' \cup busy'
        /\ f \in undecided' <=> man'[f] # None /\ man'[f].size <= MaxSize
    BY <1>4 DEF Enters, Begins
  <2>2. UpToDate(f)'
    BY <2>1 DEF EntriesFor, UpToDate
  <2>3. Published(f)' => f \in undecided'
    <3>1. FileTypes => (agent[f] # None => agent[f] \in Copy)
      BY FilesAre
    <3>2. agent[f] # None => man'[f] # None /\ man'[f].size = agent[f].size
      <4>1. agent[f] # None =>
              /\ [agent[f] EXCEPT !.sum = NoSum] \in Entry
              /\ [agent[f] EXCEPT !.sum = NoSum].size = agent[f].size
        BY <1>1, <3>1 DEF Copy, Entry
      <4> QED
        BY <1>1, <2>1, <2>2, <3>1, <4>1, Kinds DEF UpToDate
    <3> QED
      BY <2>1, <3>2 DEF Published
  <2>4. PlanIsCurrent(f)'
    BY <2>1, <2>2, <2>3 DEF PlanIsCurrent
  <2>5. NothingToDo(f)'
    BY <1>1, <2>1 DEF NothingToDo, Published, Matches
  <2> QED
    BY <2>4, <2>5
<1>5. CASE Queues(f)
  <2>1. /\ agent'[f] = agent[f] /\ local'[f] = local[f] /\ man'[f] = man[f]
        /\ settled' = settled /\ (pc' # "idle" => pc # "idle") /\ f \in queue'
        /\ (f \in adopt' => f \in adopt) /\ f \notin undecided' /\ f \in undecided
        /\ ~ Skip(f) /\ pc = "plan"
    BY <1>5 DEF Queues, Still
  <2>2. PlanIsCurrent(f)'
    BY <1>1, <2>1 DEF PlanIsCurrent, Undisturbed, UpToDate
  <2>3. settled = "yes" => Masked(f) /\ Matches(f)
    <3>1. SUFFICES ASSUME settled = "yes" PROVE Masked(f) /\ Matches(f)
      OBVIOUS
    <3>2. UpToDate(f) /\ man[f].size <= MaxSize /\ man[f] # None
      BY <1>1, <2>1, <3>1 DEF PlanIsCurrent, Undisturbed, Phases
    <3>3. Matches(f)
      BY <1>1, <3>1, <3>2, ListedIsPublished DEF NothingToDo, Published
    <3> QED
      BY <1>1, <2>1, <3>2, <3>3, QueuedIsMasked
  <2>4. NothingToDo(f)'
    BY <2>1, <2>3 DEF NothingToDo, Matches, Masked
  <2> QED
    BY <2>2, <2>4
<1>6. CASE IsNoted(f)
  <2>1. /\ agent'[f] = agent[f] /\ local'[f] = local[f] /\ man'[f] = man[f]
        /\ settled' = settled /\ (pc' # "idle" => pc # "idle") /\ f \notin undecided'
        /\ (SameContent(f) => f \in adopt') /\ (f \in queue' \cup busy' <=> Waits(f))
        /\ Notes(f)
    BY <1>6 DEF IsNoted, Notes
  <2>2. Undisturbed => /\ UpToDate(f) /\ local[f] # None /\ local[f].size = man[f].size
                       /\ Matches(f) \/ SameContent(f)
    BY <1>1, <2>1, NotedMatches DEF PlanIsCurrent
  <2>3. PlanIsCurrent(f)'
    BY <2>1, <2>2 DEF PlanIsCurrent, Undisturbed, UpToDate, Matches
  <2>4. NothingToDo(f)'
    BY <1>1, <2>1 DEF NothingToDo, Published, Matches, Masked
  <2> QED
    BY <2>3, <2>4
<1>7. CASE Adoption(f)
  <2>1. /\ settled' = settled /\ pc = "adopt" /\ f \in adopt /\ f \notin adopt'
        /\ (f \in undecided' <=> f \in undecided) /\ (f \in queue' \cup busy' <=> Waits(f))
        /\ Adopts(f) \/ (Still(f) /\ local[f] = None)
    BY <1>1, <1>7 DEF Adoption
  <2>2. CASE settled = "no"
    BY <2>1, <2>2 DEF PlanIsCurrent, Undisturbed, NothingToDo
  <2>3. CASE settled # "no"
    <3>1. UpToDate(f) /\ local[f] # None /\ local[f].size = man[f].size /\ man[f] # None
          /\ undecided = {}
      BY <1>1, <2>1, <2>3 DEF PlanIsCurrent, Undisturbed, Phases
    <3>2. Matches(f)' /\ UpToDate(f)' /\ (Masked(f) => Masked(f)')
      BY <1>1, <2>1, <3>1, PlacedMatches
    <3> QED
      BY <1>1, <2>1, <3>1, <3>2 DEF PlanIsCurrent, NothingToDo
  <2> QED
    BY <2>2, <2>3
<1>8. CASE Arrival(f)
  <2>1. /\ settled' = settled /\ pc # "idle" /\ f \notin queue' \cup busy' /\ Puts(f)
        /\ adopt = {} /\ f \notin adopt' /\ man[f] # None /\ f \notin undecided'
    BY <1>1, <1>8 DEF Arrival, Puts, Phases
  <2>2. settled # "no" => Matches(f)' /\ UpToDate(f)'
    BY <1>1, <2>1, PlacedMatches DEF PlanIsCurrent, Undisturbed
  <2> QED
    BY <2>1, <2>2 DEF PlanIsCurrent, Undisturbed, NothingToDo
<1>9. CASE Dropped(f)
  <2>1. /\ agent'[f] = agent[f] /\ man'[f] = man[f] /\ settled' = settled /\ pc # "idle"
        /\ man[f] = None /\ ~ Waits(f) /\ adopt = {} /\ undecided = {} /\ PlaceStays(f)
    BY <1>1, <1>9 DEF Dropped, Drops, Phases
  <2>2. Undisturbed => agent[f] = None
    BY <1>1, <2>1, ListedIsPublished DEF PlanIsCurrent
  <2>3. PlanIsCurrent(f)'
    BY <1>1, <2>1, <2>2 DEF PlanIsCurrent, Undisturbed, UpToDate, Published
  <2>4. NothingToDo(f)'
    BY <2>1, <2>2 DEF NothingToDo, Undisturbed, Published
  <2> QED
    BY <2>3, <2>4
<1>10. CASE EndOfRun(f)
  <2>1. /\ agent'[f] = agent[f] /\ local'[f] = local[f] /\ pc' = "idle"
        /\ (f \in queue' \cup busy' => Waits(f))
    BY <1>10 DEF EndOfRun, Ends
  <2>2. PlanIsCurrent(f)'
    BY <2>1 DEF PlanIsCurrent, Undisturbed
  <2>3. CASE settled' \in {"no", settled}
    BY <1>1, <2>1, <2>2, <2>3 DEF NothingToDo, Published, Matches, Masked
  <2>4. CASE Finish /\ settled' = "yes"
    <3>1. settled # "no" /\ pc = "remove" /\ queue = {} /\ ~ errors
      BY <2>4 DEF Finish
    <3>2. undecided = {} /\ adopt = {} /\ busy = {}
      BY <1>1, <3>1 DEF Phases
    <3>3. Published(f) => Matches(f)
      BY <1>1, <3>1, <3>2 DEF PlanIsCurrent, Undisturbed
    <3> QED
      BY <2>1, <2>2, <3>1, <3>2, <3>3 DEF NothingToDo, Published, Matches
  <2> QED
    BY <1>10, <2>3, <2>4 DEF EndOfRun
<1> QED
  BY <1>2, <1>3, <1>4, <1>5, <1>6, <1>7, <1>8, <1>9, <1>10 DEF PlanStep

LEMMA SettledAreInductive ==
  ASSUME ChangesApart, Flaky = {}
  PROVE  Spec => []SettledInductive
<1>1. Init => SettledInductive
  <2> SUFFICES ASSUME Init, NEW f \in Files
               PROVE  StampsAreApart(f) /\ StampTellsContent(f) /\ PlanIsCurrent(f)
                      /\ NothingToDo(f)
    BY JournalInit DEF SettledInductive
  <2>1. /\ pc = "idle" /\ settled = "no"
        /\ agent \in [Files -> {None} \cup {CopyOf(c, Tolerance) : c \in Contents}]
        /\ local \in [Files -> {None} \cup {CopyOf(c, 0) : c \in Contents}]
    BY Zenon DEF Init
  <2>2. /\ agent[f] # None => agent[f].mtime = 2
        /\ local[f] # None => local[f].mtime = 0
    BY <2>1, CopiesAre, Seconds
  <2>3. StampsAreApart(f) /\ StampTellsContent(f)
    BY <2>1, <2>2, Seconds DEF StampsAreApart, StampTellsContent, Near
  <2> QED
    BY <2>1, <2>3 DEF PlanIsCurrent, Undisturbed, NothingToDo
<1>2. SettledInductive /\ [Next]_vars => SettledInductive'
  <2> SUFFICES ASSUME SettledInductive, [Next]_vars PROVE SettledInductive'
    OBVIOUS
  <2>1. StampsKept /\ JournalInductive /\ RunInductive
    BY DEF ChangesApart, SettledInductive, JournalInductive
  <2>2. FileTypes /\ RunTypes /\ Phases /\ asOf <= clock
    BY <2>1, Typed DEF RunInductive
  <2>3. clock' \in Nat /\ JournalInductive'
    BY <2>1, <2>2, ClockStep, JournalStep
  <2>4. ASSUME NEW f \in Files
        PROVE  /\ StampsAreApart(f)' /\ StampTellsContent(f)'
               /\ PlanIsCurrent(f)' /\ NothingToDo(f)'
    <3>1. Settling(f)
      BY <2>1, <2>2 DEF Settling, KnownRun, RunInductive, JournalInductive, SettledInductive
    <3>2. PlanStep(f) /\ FileStep(f)
      BY <2>2, PlansOfAFile, StepsOfAFile
    <3>3. StampsAreApart(f)' /\ StampTellsContent(f)'
      BY <2>1, <2>3, <3>1, <3>2, ApartStep, TellsStep DEF Settling
    <3> QED
      BY <3>1, <3>2, <3>3, SettleStep
  <2> QED
    BY <2>3, <2>4 DEF SettledInductive
<1> QED
  BY <1>1, <1>2, PTL DEF Spec

\* A run in and after which nothing changed is followed by runs that transfer nothing but a
\* masked file, with any verify mode and whichever entries carry digests (plan.go decide,
\* noteUpToDate), if changes of a file are further apart than the tolerance of sameModTime
\* and the agent's walk reads every file.
THEOREM SyncNoRedundantTransfer ==
  ASSUME ChangesApart, Flaky = {}
  PROVE  Spec => []NoRedundantTransfer
<1>1. SettledInductive => NoRedundantTransfer
  <2> SUFFICES ASSUME SettledInductive, settled = "yes", NEW f \in queue \cup busy
               PROVE  Masked(f)
    BY DEF NoRedundantTransfer
  <2>1. f \in Files
    BY Typed DEF SettledInductive, JournalInductive, RunInductive, TypeOK
  <2> QED
    BY <2>1 DEF SettledInductive, NothingToDo, Waits
<1> QED
  BY <1>1, SettledAreInductive, PTL
=============================================================================
