-------------------------------- MODULE Tree --------------------------------
(***************************************************************************)
(* The shape of a destination: directories, links, exclude rules and the   *)
(* sweep of empty directories (client/sync.go, plan.go, fsx.go), for jobs  *)
(* of which one may have its destination inside another's.  Each job has   *)
(* its lock and its journal; all they share is the tree on the disk, and   *)
(* any two steps of them may interleave.                                   *)
(*                                                                         *)
(* A file is the content that the agent publishes at its path or another   *)
(* one; module SyncRun tells contents apart, module Transfer opens up a    *)
(* transfer.  A job has one worker.  A link does not lead to a directory,  *)
(* and what it leads to stays.  buildPlan reads the tree in one step.      *)
(***************************************************************************)
EXTENDS ExcludeRules, FiniteSets

CONSTANTS
  Jobs, Paths,
  Base,      \* the destination of each job; <<>> is the root of the tree
  Exclude,   \* the exclude rules of each job
  Mirror,    \* local.delete_extra
  Symlinks,  \* local.create_symlinks
  Trees,     \* what the agent of each job may publish, at the paths it will have here
  Starts,    \* what the disk may hold at first
  MaxEdits, MaxFaults, MaxCrashes,   \* bounds
  None, File, Other, Link, Dir, Nowhere,
  Alias      \* a link to a file that has the content published at the link's path

Kinds == {None, File, Other, Link, Alias, Dir}

AnyLink == {Link, Alias}

\* What os.Stat, which follows links, and the comparison after it take for the file.
UpToDate == {File, Alias}

Up(p) == SubSeq(p, 1, Len(p) - 1)
Above(p, q) == Len(p) < Len(q) /\ SubSeq(q, 1, Len(p)) = p
AtOrAbove(p, q) == p = q \/ Above(p, q)

\* What is below the destination of job j, and its path from there.
Below(j) == {p \in Paths : Above(Base[j], p)}
Rel(j, p) == SubSeq(p, Len(Base[j]) + 1, Len(p))

WellFormed(t) == \A p, q \in Paths : Above(p, q) /\ t[q] # None => t[p] = Dir

\* The names paths are made of.
Names == UNION {{p[i] : i \in DOMAIN p} : p \in Paths}

ASSUME TreeAssumption ==
  /\ \A p \in Paths : p \in Seq(Names) /\ p # <<>>
                     /\ \A n \in 1 .. Len(p) : SubSeq(p, 1, n) \in Paths
  /\ \A j \in Jobs : Base[j] \in Paths \cup {<<>>}
  /\ \A t \in Starts : t \in [Paths -> Kinds] /\ WellFormed(t)
  /\ \A j \in Jobs : \A t \in Trees[j] :
       /\ t \in [Paths -> {None, File, Link, Dir}]
       /\ \A p \in Paths \ Below(j) : t[p] = None
       /\ \A p, q \in Below(j) : Above(p, q) /\ t[q] # None => t[p] = Dir
  /\ {MaxEdits, MaxFaults, MaxCrashes} \subseteq Nat
  /\ Nowhere \notin Paths
  /\ None \notin {File, Other, Link, Alias, Dir} /\ File \notin {Other, Link, Alias, Dir}
  /\ Other \notin {Link, Alias, Dir} /\ Link \notin {Alias, Dir} /\ Alias # Dir

VARIABLES
  agent,    \* what the agents publish
  local,    \* the tree on the disk
  debris,   \* directories that hold staging files of processes that died
  pc, man,  \* how far the run of each job is, and its manifest
  dirs, links, queue, extras,   \* what is left of its plan
  at, staged,                   \* where its worker writes, and if the staging file is there
  sweep,    \* directories that RemoveEmptyDirs has yet to look at
  errors, deleted,
  cancelled, \* the run's context has been cancelled
  edits, faults, crashes

diskVars == <<local, debris>>
planVars == <<dirs, links, queue, extras>>
workVars == <<at, staged, sweep, errors, deleted, cancelled>>
boundVars == <<edits, faults, crashes>>
vars == <<agent, diskVars, pc, man, planVars, workVars, boundVars>>

TypeOK ==
  /\ agent \in [Jobs -> [Paths -> Kinds]]
  /\ local \in [Paths -> Kinds]
  /\ debris \subseteq Paths \cup {<<>>}
  /\ pc \in [Jobs -> {"idle", "plan", "dirs", "links", "fetch", "open", "write",
                      "remove", "sweep", "end"}]
  /\ man \in [Jobs -> [Paths -> Kinds]]
  /\ \A v \in {dirs, links, queue, extras} : v \in [Jobs -> SUBSET Paths]
  /\ sweep \in [Jobs -> SUBSET (Paths \cup {<<>>})]
  /\ at \in [Jobs -> Paths \cup {Nowhere}]
  /\ {staged, errors, deleted, cancelled} \subseteq [Jobs -> BOOLEAN]
  /\ \A j \in Jobs : staged[j] => pc[j] = "write"

Empty == [p \in Paths |-> None]
Nothing == [j \in Jobs |-> {}]
No == [j \in Jobs |-> FALSE]

Init ==
  /\ agent \in {a \in [Jobs -> UNION {Trees[j] : j \in Jobs}] : \A j \in Jobs : a[j] \in Trees[j]}
  /\ local \in Starts
  /\ debris = {}
  /\ pc = [j \in Jobs |-> "idle"]
  /\ man = [j \in Jobs |-> Empty]
  /\ dirs = Nothing /\ links = Nothing /\ queue = Nothing /\ extras = Nothing
  /\ sweep = Nothing
  /\ at = [j \in Jobs |-> Nowhere]
  /\ staged = No /\ errors = No /\ deleted = No /\ cancelled = No
  /\ edits = 0 /\ faults = 0 /\ crashes = 0

-----------------------------------------------------------------------------
(* The disk.                                                               *)

\* A file or a link stands where a directory is asked for.
Blocked(p) == \E q \in Paths : AtOrAbove(q, p) /\ local[q] \in {File, Other} \cup AnyLink

\* os.MkdirAll, where nothing blocks it.
MkdirAll(p) == [q \in Paths |-> IF AtOrAbove(q, p) THEN Dir ELSE local[q]]

IsDir(p) == p \in Paths => local[p] = Dir

\* Nothing in directory p but, maybe, the staging files of transfers.
Bare(p) == \A q \in Paths : Up(q) = p => local[q] = None

StagedIn(p) == {j \in Jobs : staged[j] /\ Up(at[j]) = p}
EmptyDir(p) == Bare(p) /\ p \notin debris /\ StagedIn(p) = {}

\* Mutant: a directory is never removed for a file's sake.
ClearFilesOnly(p) == local[p] # Dir

\* os.Remove leaves nothing at p.
Clear(p) == local[p] = Dir => EmptyDir(p)

\* A system call or a transfer fails for a reason of its own.
Fault ==
  /\ faults < MaxFaults
  /\ faults' = faults + 1

-----------------------------------------------------------------------------
(* The plan.                                                               *)

\* Manifests an agent may send: the whole tree, or all but what is below one path
\* if there are more entries than the limit.
Manifests(j) ==
  {[tree |-> agent[j], truncated |-> FALSE]} \cup
  {[tree |-> [q \in Paths |-> IF AtOrAbove(p, q) THEN None ELSE agent[j][q]],
    truncated |-> TRUE] : p \in {q \in Paths : agent[j][q] # None}}

Excluded(j, p, isDir) == Match(Exclude[j], Rel(j, p), isDir)

\* Walk does not descend into a directory that a rule matches.
Pruned(j, p) ==
  \E q \in Below(j) : Above(q, p) /\ Excluded(j, q, TRUE)

\* Directories in which the search for extra files looks.
Reached(j) ==
  {d \in Below(j) \cup {Base[j]} :
     d \in Below(j) => ~Pruned(j, d) /\ ~Excluded(j, d, TRUE)}

\* Mutant: the plan takes the agent's word for what is not excluded.
WantedUnasked(j) == {p \in Below(j) : man[j][p] # None}

\* Entries of the manifest that the plan does not pass over.
Wanted(j) == {p \in Below(j) : man[j][p] # None /\ ~Excluded(j, p, man[j][p] = Dir)}

\* Mutant: a truncated manifest is taken for the whole tree.
BeginTruncated(j) ==
  /\ pc[j] = "idle"
  /\ ~Blocked(Base[j])
  /\ local' = MkdirAll(Base[j])
  /\ \E m \in Manifests(j) : man' = [man EXCEPT ![j] = m.tree]
  /\ pc' = [pc EXCEPT ![j] = "plan"]
  /\ errors' = [errors EXCEPT ![j] = FALSE]
  /\ deleted' = [deleted EXCEPT ![j] = FALSE]
  /\ UNCHANGED <<agent, debris, planVars, at, staged, sweep, cancelled, boundVars>>

\* RunOnce starts; a truncated manifest ends the run.
Begin(j) ==
  /\ pc[j] = "idle"
  /\ ~Blocked(Base[j])
  /\ local' = MkdirAll(Base[j])
  /\ \E m \in Manifests(j) :
       /\ ~m.truncated
       /\ man' = [man EXCEPT ![j] = m.tree]
  /\ pc' = [pc EXCEPT ![j] = "plan"]
  /\ errors' = [errors EXCEPT ![j] = FALSE]
  /\ deleted' = [deleted EXCEPT ![j] = FALSE]
  /\ UNCHANGED <<agent, debris, planVars, at, staged, sweep, cancelled, boundVars>>

\* findExtras: files no manifest entry accounts for.
Extras(j) ==
  {p \in Below(j) : /\ local[p] \in {File, Other}
                    /\ ~Pruned(j, p) /\ ~Excluded(j, p, FALSE)
                    /\ man[j][p] = None}

\* ... and staging files of dead processes in the same directories.
Old(j) == debris \cap Reached(j)

\* buildPlan; staging files stay if they are not a day old yet, which MaxFaults bounds;
\* without its destination the run ends here.
Plan(j) ==
  /\ pc[j] = "plan"
  /\ IF IsDir(Base[j])
     THEN /\ dirs' = [dirs EXCEPT ![j] =
                        {p \in Wanted(j) : man[j][p] = Dir /\ local[p] # Dir}]
          /\ links' = [links EXCEPT ![j] =
                        {p \in Wanted(j) : man[j][p] = Link /\ Symlinks[j]}]
          /\ queue' = [queue EXCEPT ![j] =
                        {p \in Wanted(j) : man[j][p] = File /\ local[p] \notin UpToDate}]
          /\ extras' = [extras EXCEPT ![j] = Extras(j)]
          /\ \/ debris' = debris \ Old(j) /\ UNCHANGED faults
             \/ debris' = debris /\ Old(j) # {} /\ Fault
          /\ pc' = [pc EXCEPT ![j] = "dirs"]
     ELSE /\ pc' = [pc EXCEPT ![j] = "idle"]
          /\ UNCHANGED <<planVars, debris, faults>>
  /\ UNCHANGED <<agent, local, man, workVars, edits, crashes>>

-----------------------------------------------------------------------------
(* The run.                                                                *)

\* A directory that cannot be made is a warning.
MakeDir(j, p) ==
  /\ pc[j] = "dirs" /\ p \in dirs[j]
  /\ dirs' = [dirs EXCEPT ![j] = @ \ {p}]
  /\ local' = IF Blocked(p) THEN local ELSE MkdirAll(p)
  /\ UNCHANGED <<agent, debris, pc, man, links, queue, extras, workVars, boundVars>>

\* makeSymlink: a link with the published target stays; what else is there is removed
\* first, if it can be.
MakeLink(j, p) ==
  /\ pc[j] = "links" /\ p \in links[j]
  /\ links' = [links EXCEPT ![j] = @ \ {p}]
  /\ \/ /\ local[p] \in AnyLink
        /\ UNCHANGED <<local, errors, faults>>
     \/ /\ Clear(p) /\ ~Blocked(Up(p))
        /\ \E k \in AnyLink : local' = [MkdirAll(Up(p)) EXCEPT ![p] = k]
        /\ UNCHANGED <<errors, faults>>
     \/ /\ ~Clear(p) \/ Blocked(Up(p))
        /\ errors' = [errors EXCEPT ![j] = TRUE]
        /\ UNCHANGED <<local, faults>>
     \/ /\ Clear(p)
        /\ Fault
        /\ local' = [local EXCEPT ![p] = None]
        /\ errors' = [errors EXCEPT ![j] = TRUE]
  /\ UNCHANGED <<agent, debris, pc, man, dirs, queue, extras, at, staged, sweep, deleted,
                 cancelled, edits, crashes>>

\* A worker takes p, if the run is not cancelled.  download makes its directory; an empty
\* directory in its place is removed.
Stage(j, p) ==
  /\ pc[j] = "fetch" /\ p \in queue[j] /\ ~cancelled[j]
  /\ queue' = [queue EXCEPT ![j] = @ \ {p}]
  /\ IF Blocked(Up(p)) \/ ~Clear(p)
     THEN /\ errors' = [errors EXCEPT ![j] = TRUE]
          /\ UNCHANGED <<local, pc, at>>
     ELSE /\ local' = [MkdirAll(Up(p)) EXCEPT ![p] = IF @ = Dir THEN None ELSE @]
          /\ pc' = [pc EXCEPT ![j] = "open"]
          /\ at' = [at EXCEPT ![j] = p]
          /\ UNCHANGED errors
  /\ UNCHANGED <<agent, debris, man, dirs, links, extras, staged, sweep, deleted, cancelled,
                 boundVars>>

\* transferOnce opens the staging file, for the first time or again.
OpenStaging(j) ==
  /\ pc[j] = "open" /\ IsDir(Up(at[j]))
  /\ staged' = [staged EXCEPT ![j] = TRUE]
  /\ pc' = [pc EXCEPT ![j] = "write"]
  /\ UNCHANGED <<agent, diskVars, man, planVars, at, sweep, errors, deleted, cancelled,
                 boundVars>>

\* The transfer is broken off and tried again.
Retry(j) ==
  /\ pc[j] = "write" /\ ~staged[j] /\ ~cancelled[j]
  /\ Fault
  /\ pc' = [pc EXCEPT ![j] = "open"]
  /\ UNCHANGED <<agent, diskVars, man, planVars, workVars, edits, crashes>>

\* The whole file has come: Replace.
Install(j) ==
  /\ pc[j] = "write" /\ staged[j] /\ local[at[j]] # Dir
  /\ local' = [local EXCEPT ![at[j]] = File]
  /\ staged' = [staged EXCEPT ![j] = FALSE]
  /\ at' = [at EXCEPT ![j] = Nowhere]
  /\ pc' = [pc EXCEPT ![j] = "fetch"]
  /\ UNCHANGED <<agent, debris, man, planVars, sweep, errors, deleted, cancelled, boundVars>>

\* Mutant: a staging file that is gone is taken for one that is in place.
DownloadFailsUnseen(j) ==
  /\ pc[j] \in {"open", "write"}
  /\ \/ Fault
     \/ cancelled[j] /\ UNCHANGED faults
     \/ pc[j] = "open" /\ ~IsDir(Up(at[j])) /\ UNCHANGED faults
     \/ pc[j] = "write" /\ (~staged[j] \/ local[at[j]] = Dir) /\ UNCHANGED faults
  /\ errors' = [errors EXCEPT ![j] = @ \/ staged[j] \/ pc[j] = "open"]
  /\ staged' = [staged EXCEPT ![j] = FALSE]
  /\ at' = [at EXCEPT ![j] = Nowhere]
  /\ pc' = [pc EXCEPT ![j] = "fetch"]
  /\ UNCHANGED <<agent, diskVars, man, planVars, sweep, deleted, cancelled, edits, crashes>>

\* It has not, or the run is cancelled, or there is no directory to put it in, the staging
\* file has been swept away, or a directory has taken the file's place.
DownloadFails(j) ==
  /\ pc[j] \in {"open", "write"}
  /\ \/ Fault
     \/ cancelled[j] /\ UNCHANGED faults
     \/ pc[j] = "open" /\ ~IsDir(Up(at[j])) /\ UNCHANGED faults
     \/ pc[j] = "write" /\ (~staged[j] \/ local[at[j]] = Dir) /\ UNCHANGED faults
  /\ errors' = [errors EXCEPT ![j] = TRUE]
  /\ staged' = [staged EXCEPT ![j] = FALSE]
  /\ at' = [at EXCEPT ![j] = Nowhere]
  /\ pc' = [pc EXCEPT ![j] = "fetch"]
  /\ UNCHANGED <<agent, diskVars, man, planVars, sweep, deleted, cancelled, edits, crashes>>

\* One phase of the run follows the other; a cancelled one leaves its queue.
Advance(j) ==
  /\ \/ pc[j] = "dirs" /\ dirs[j] = {} /\ pc' = [pc EXCEPT ![j] = "links"]
     \/ pc[j] = "links" /\ links[j] = {} /\ pc' = [pc EXCEPT ![j] = "fetch"]
     \/ pc[j] = "fetch" /\ (queue[j] = {} \/ cancelled[j])
          /\ pc' = [pc EXCEPT ![j] = IF Mirror[j] THEN "remove" ELSE "end"]
  /\ queue' = IF pc[j] = "fetch" THEN [queue EXCEPT ![j] = {}] ELSE queue
  /\ UNCHANGED <<agent, diskVars, man, dirs, links, extras, workVars, boundVars>>

\* removeExtras deletes a file, or fails to.
RemoveExtra(j, p) ==
  /\ pc[j] = "remove" /\ p \in extras[j]
  /\ extras' = [extras EXCEPT ![j] = @ \ {p}]
  /\ \/ /\ local[p] # None /\ Clear(p)
        /\ local' = [local EXCEPT ![p] = None]
        /\ deleted' = [deleted EXCEPT ![j] = TRUE]
        /\ UNCHANGED faults
     \/ /\ local[p] = None \/ ~Clear(p)
        /\ UNCHANGED <<local, deleted, faults>>
     \/ /\ Fault
        /\ UNCHANGED <<local, deleted>>
  /\ UNCHANGED <<agent, debris, pc, man, dirs, links, queue, at, staged, sweep, errors,
                 cancelled, edits, crashes>>

\* RemoveEmptyDirs is called only if a file was deleted.
EndRemove(j) ==
  /\ pc[j] = "remove" /\ extras[j] = {}
  /\ IF deleted[j]
     THEN /\ sweep' = [sweep EXCEPT ![j] = {Base[j]} \cup {p \in Below(j) : local[p] = Dir}]
          /\ pc' = [pc EXCEPT ![j] = "sweep"]
     ELSE /\ pc' = [pc EXCEPT ![j] = "end"]
          /\ UNCHANGED sweep
  /\ UNCHANGED <<agent, diskVars, man, planVars, at, staged, errors, deleted, cancelled,
                 boundVars>>

\* Directories the manifest lists or implies, excluded ones too.
remoteDirs(j) == {p \in Below(j) : man[j][p] = Dir}

\* One directory, after those inside it: staging files of anybody and any age go, and
\* the directory if that leaves nothing and the agent has none there.  An error, or
\* something new since the directory was read, and it stays.
SweepDir(j, d) ==
  /\ pc[j] = "sweep" /\ d \in sweep[j]
  /\ \A q \in sweep[j] : ~Above(d, q)
  /\ sweep' = [sweep EXCEPT ![j] = @ \ {d}]
  /\ \/ /\ IsDir(d)
        /\ debris' = debris \ {d}
        /\ staged' = [k \in Jobs |-> staged[k] /\ k \notin StagedIn(d)]
        /\ local' = IF Bare(d) /\ d # Base[j] /\ d \notin remoteDirs(j)
                    THEN [local EXCEPT ![d] = None] ELSE local
     \/ UNCHANGED <<debris, staged, local>>
  /\ UNCHANGED <<agent, pc, man, planVars, at, errors, deleted, cancelled, boundVars>>

EndSweep(j) ==
  /\ pc[j] = "sweep" /\ sweep[j] = {}
  /\ pc' = [pc EXCEPT ![j] = "end"]
  /\ UNCHANGED <<agent, diskVars, man, planVars, workVars, boundVars>>

\* "ok" or "partial"; a cancelled run too is "ok" if nothing failed.
Finish(j) ==
  /\ pc[j] = "end"
  /\ pc' = [pc EXCEPT ![j] = "idle"]
  /\ extras' = [extras EXCEPT ![j] = {}]
  /\ cancelled' = [cancelled EXCEPT ![j] = FALSE]
  /\ UNCHANGED <<agent, diskVars, man, dirs, links, queue, at, staged, sweep, errors, deleted,
                 boundVars>>

\* The process dies; what it was writing stays behind.
Crash(j) ==
  /\ crashes < MaxCrashes
  /\ crashes' = crashes + 1
  /\ pc[j] # "idle"
  /\ pc' = [pc EXCEPT ![j] = "idle"]
  /\ debris' = debris \cup IF staged[j] THEN {Up(at[j])} ELSE {}
  /\ staged' = [staged EXCEPT ![j] = FALSE]
  /\ at' = [at EXCEPT ![j] = Nowhere]
  /\ dirs' = [dirs EXCEPT ![j] = {}] /\ links' = [links EXCEPT ![j] = {}]
  /\ queue' = [queue EXCEPT ![j] = {}] /\ extras' = [extras EXCEPT ![j] = {}]
  /\ sweep' = [sweep EXCEPT ![j] = {}]
  /\ cancelled' = [cancelled EXCEPT ![j] = FALSE]
  /\ UNCHANGED <<agent, local, man, errors, deleted, edits, faults>>

\* SIGTERM: the context of the run is cancelled, before its downloads are through; from
\* the plan on nothing but downloads looks at it.
Cancel(j) ==
  /\ crashes < MaxCrashes
  /\ crashes' = crashes + 1
  /\ pc[j] \in {"fetch", "open", "write"}
  /\ cancelled' = [cancelled EXCEPT ![j] = TRUE]
  /\ UNCHANGED <<agent, diskVars, pc, man, planVars, at, staged, sweep, errors, deleted,
                 edits, faults>>

\* The published tree changes.
Publish(j) ==
  /\ edits < MaxEdits
  /\ edits' = edits + 1
  /\ \E t \in Trees[j] : agent' = [agent EXCEPT ![j] = t]
  /\ UNCHANGED <<diskVars, pc, man, planVars, workVars, faults, crashes>>

Step(j) ==
  \/ Begin(j) \/ Plan(j) \/ Advance(j)
  \/ \E p \in Paths : MakeDir(j, p) \/ MakeLink(j, p) \/ Stage(j, p) \/ RemoveExtra(j, p)
  \/ OpenStaging(j) \/ Retry(j) \/ Install(j) \/ DownloadFails(j)
  \/ EndRemove(j) \/ (\E d \in Paths \cup {<<>>} : SweepDir(j, d)) \/ EndSweep(j)
  \/ Finish(j)

Next == \E j \in Jobs : Step(j) \/ Crash(j) \/ Cancel(j) \/ Publish(j)

Spec == Init /\ [][Next]_vars

\* The daemon of each job runs it again and again.
FairSpec == Spec /\ \A j \in Jobs : WF_vars(Step(j))

-----------------------------------------------------------------------------
(* Properties.                                                             *)

\* How jobs may share a tree: where two of them reach the same path, the rules of one of
\* them exclude it.
JobsApart ==
  \A j, k \in Jobs : j # k =>
    \A p \in Below(j) \cap Below(k) : \/ \A d \in BOOLEAN : Excluded(j, p, d)
                                      \/ \A d \in BOOLEAN : Excluded(k, p, d)

\* No rule takes an exclusion back.
NoExceptions ==
  \A j \in Jobs : /\ Exclude[j] \in Seq({Exclude[j][i] : i \in DOMAIN Exclude[j]})
                  /\ \A i \in DOMAIN Exclude[j] : ~Exclude[j][i].negate

\* A run stages nothing where its own search for extra files would not come, and what dead
\* processes leave behind is where the search of a later run comes: the plan asks the
\* rules entry by entry, the search by directories, on the way down.  A staging file
\* beyond its reach would stay "for ever on the destination" (plan.go:216).  For rules
\* without "!" lines, which need not keep what is below an excluded directory.
TreeInv ==
  /\ TypeOK
  /\ \A j \in Jobs : staged[j] => Up(at[j]) \in Reached(j)
  /\ debris \subseteq UNION {Reached(j) : j \in Jobs}

\* A file of the destination goes only where a published link takes its place, or in a
\* mirror job's run because the manifest, which was not cut short, does not list it
\* and no rule keeps it; a link gives way to a published file or link; a directory only
\* goes when nothing but staging files is in it, and never one that the agent of the
\* job that removes it publishes as a directory.  So a job never touches what another
\* one has put into a directory it excludes.
DeletionsJustified ==
  [][\A p \in Paths : local'[p] # local[p] =>
       CASE local[p] \in {File, Other} /\ local'[p] # File ->
              \E j \in Jobs :
                /\ p \in Below(j) /\ ~Excluded(j, p, FALSE)
                /\ edits = 0 => man[j][p] = agent[j][p]
                /\ \/ man[j][p] = Link /\ p \in links[j]
                   \/ man[j][p] = None /\ p \in extras[j] /\ Mirror[j] /\ ~Pruned(j, p)
         [] local[p] \in AnyLink ->
              \E j \in Jobs : \/ at[j] = p /\ man[j][p] = File /\ local'[p] = File
                              \/ p \in links[j] /\ man[j][p] = Link
         [] local[p] = Dir ->
              /\ Bare(p)
              /\ \E j \in Jobs : p \in Below(j) /\ man[j][p] # Dir
         [] OTHER -> TRUE]_vars

\* A run that ends "ok" and was not cancelled leaves every file and link of its manifest
\* in place, a file perhaps as a link to the same content, even when the sweep of another
\* job has taken its staging files or the directories it made.
OkMeansInstalled ==
  [][\A j \in Jobs : Finish(j) /\ ~errors[j] /\ ~cancelled[j] =>
       \A p \in Wanted(j) :
         /\ man[j][p] = File => local[p] \in UpToDate
         /\ man[j][p] = Link /\ Symlinks[j] => local[p] \in AnyLink]_vars

\* What keeps a run from ever putting in place what the agent has at p: a file or a
\* link where there should be a directory, or a directory where there should be none
\* and in it something that no run removes.
Obstructed(j, p) ==
  \/ Blocked(IF agent[j][p] = Dir THEN p ELSE Up(p))
  \/ /\ local[p] = Dir
     /\ \E q \in Paths :
          /\ Above(p, q)
          /\ \/ local[q] \in AnyLink \cup {Dir}
             \/ /\ local[q] # None
                /\ ~Mirror[j] \/ Pruned(j, q) \/ Excluded(j, q, FALSE)

InShape(j) ==
  \A p \in Below(j) :
    /\ agent[j][p] = File /\ ~Excluded(j, p, FALSE)
         => local[p] \in UpToDate \/ Obstructed(j, p)
    /\ agent[j][p] = Dir /\ ~Excluded(j, p, TRUE)
         => local[p] = Dir \/ Obstructed(j, p)
    /\ agent[j][p] = Link /\ Symlinks[j] /\ ~Excluded(j, p, FALSE)
         => local[p] \in AnyLink \/ Obstructed(j, p)
    /\ agent[j][p] = None /\ Mirror[j] /\ local[p] \in {File, Other}
         => Pruned(j, p) \/ Excluded(j, p, FALSE)

\* Once the agents' trees stay as they are, every destination gets and keeps the shape
\* of what is published, wherever nothing obstructs it, though one job is inside the
\* other and sweeps empty directories there; and no staging file of a dead process stays.
EventuallyInShape == (\A j \in Jobs : <>[]InShape(j)) /\ <>[](debris = {})
=============================================================================
