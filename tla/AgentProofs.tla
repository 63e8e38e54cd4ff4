---------------------------- MODULE AgentProofs -----------------------------
(***************************************************************************)
(* What the agent guarantees, for any tree and any number of names,        *)
(* changes, requests and keys, while other programs write at every moment. *)
(* Of a scan and its cache: a scan sees contents in the order in which     *)
(* they are written, so a digest lies between what was there when the scan *)
(* began and what is there now; and where every write leaves a later       *)
(* stamp, an equal stamp means that nothing has been written since.        *)
(* Of the manifest endpoint, with any manifest_ttl: scans run one at a     *)
(* time under scanMu, a scan sees nothing older than what was published    *)
(* when it began, and whatever was answered before that is older still,    *)
(* in whatever order the answers are written.                              *)
(***************************************************************************)
EXTENDS ManifestServer, FiniteSetTheorems, TLAPS

-----------------------------------------------------------------------------
(* Scans (module AgentScan).                                               *)

\* The cache is off, or it is used as it is meant to be: writers leave later stamps and
\* it is not shared by two published directories.
CacheApplies == UseCache => Stamps = "fresh" /\ \A s, t \in Subs : s = t

\* An entry whose digest is still to be made is in the list.
Pending == \A f \in Names : step[f] \in {"todo", "reading"} => list[f] # None

ScanTypes == TypeOK /\ Pending

\* The walk sees what the scan found or something later, and a worker what the walk
\* saw or something later.
SeenInOrder ==
  \A f \in Names :
    /\ phase # "idle" => scanFrom[f] <= fs[sub][f].ver
    /\ list[f] # None =>
         /\ phase # "idle"
         /\ scanFrom[f] <= seenVer[f] /\ seenVer[f] <= fs[sub][f].ver
    /\ step[f] = "reading" => seenVer[f] <= begun[f] /\ begun[f] <= fs[sub][f].ver

\* An entry, or a row, that still has the stamp of the file is of its content.
StampTells(row, file, ver) ==
  row # None => row.mtime <= file.mtime /\ (Matches(row, file) => file.ver = ver)

RowsTell(rows) ==
  \A s \in Subs, f \in Names : StampTells(rows[f], fs[s][f], rows[f].sum)

\* What the cache knows of stamps.
CacheTells ==
  /\ ~UseCache => \A f \in Names : cache[f] = None /\ disk[f] = None
  /\ UseCache => /\ RowsTell(cache) /\ RowsTell(disk)
                 /\ \A f \in Names : StampTells(list[f], fs[sub][f], seenVer[f])

\* A cached digest that a worker may take is of what the walk saw.
HitsAreSeen == \A f \in Names : step[f] = "todo" /\ Hit(f) => cache[f].sum = seenVer[f]

\* A digest is of something that was there during the scan.
DigestsInOrder ==
  \A f \in Names : list[f] # None =>
    /\ list[f].sum \in Nat => scanFrom[f] <= list[f].sum
    /\ fs[sub][f].ver = scanFrom[f] => list[f].sum \in {scanFrom[f], NoSum}

\* The inductive invariant.
ScanInductive ==
  /\ ScanTypes /\ SeenInOrder /\ CacheTells /\ HitsAreSeen /\ DigestsInOrder

\* A step of a scan, started by a request whose context may be done already, of the
\* tree's writers, or of the agent.
ScanAction ==
  \/ Environment
  \/ \E s \in Subs, m \in Modes, c \in BOOLEAN : BeginScan(s, m, c)
  \/ ScanStep \/ Cancel \/ Restart
  \/ UNCHANGED vars

-----------------------------------------------------------------------------
(* Types.                                                                  *)

\* What a write does to a file.
LEMMA WriteChanges ==
  ASSUME TypeOK, NEW s \in Subs, NEW f \in Names, Write(s, f)
  PROVE  \E n \in Sizes, t \in NewStamps(fs[s][f].mtime) :
           fs' = [fs EXCEPT ![s] = [@ EXCEPT ![f] =
                   [there |-> TRUE, ver |-> fs[s][f].ver + 1, size |-> n, mtime |-> t]]]
  BY DEF Write

\* What the removal of a file does.
LEMMA DeleteChanges ==
  ASSUME TypeOK, NEW s \in Subs, NEW f \in Names, Delete(s, f)
  PROVE  fs' = [fs EXCEPT ![s] = [@ EXCEPT ![f] =
                  [there |-> FALSE, ver |-> fs[s][f].ver + 1,
                   size |-> fs[s][f].size, mtime |-> fs[s][f].mtime]]]
  BY DEF Delete

\* Stamps come from the clock, or the file has had them before.
LEMMA StampsTyped ==
  ASSUME TypeOK, NEW old \in 0..MaxClock, NEW t \in NewStamps(old)
  PROVE  /\ t \in 0..MaxClock
         /\ Stamps = "fresh" => t > old
<1> clock \in 0..MaxClock /\ MaxClock \in Nat
  BY ScanAssumption DEF TypeOK
<1> QED
  BY ScanAssumption DEF NewStamps

LEMMA EnvironmentTypes ==
  ASSUME TypeOK, Environment
  PROVE  TypeOK'
<1> USE ScanAssumption DEF TypeOK
<1>1. CASE Tick
  BY <1>1 DEF Tick, cacheVars, scanVars
<1>2. ASSUME NEW s \in Subs, NEW f \in Names, Write(s, f) PROVE TypeOK'
  <2>1. fs[s][f] \in File /\ fs[s][f].mtime \in 0..MaxClock
    BY DEF File
  <2>2. PICK n \in Sizes, t \in NewStamps(fs[s][f].mtime) :
          fs' = [fs EXCEPT ![s] = [@ EXCEPT ![f] =
                  [there |-> TRUE, ver |-> fs[s][f].ver + 1, size |-> n, mtime |-> t]]]
    BY <1>2, WriteChanges
  <2>3. t \in 0..MaxClock
    BY <2>1, StampsTyped
  <2>4. [there |-> TRUE, ver |-> fs[s][f].ver + 1, size |-> n, mtime |-> t] \in File
    BY <1>2, <2>1, <2>3 DEF Write, File
  <2>5. fs' \in [Subs -> [Names -> File]]
    BY <2>2, <2>4
  <2> QED
    BY <1>2, <2>5 DEF Write, cacheVars, scanVars
<1>3. ASSUME NEW s \in Subs, NEW f \in Names, Delete(s, f) PROVE TypeOK'
  <2>1. fs[s][f] \in File
    OBVIOUS
  <2>2. [there |-> FALSE, ver |-> fs[s][f].ver + 1,
         size |-> fs[s][f].size, mtime |-> fs[s][f].mtime] \in File
    BY <1>3, <2>1 DEF Delete, File
  <2>3. fs' = [fs EXCEPT ![s] = [@ EXCEPT ![f] =
                  [there |-> FALSE, ver |-> fs[s][f].ver + 1,
                   size |-> fs[s][f].size, mtime |-> fs[s][f].mtime]]]
    BY <1>3, DeleteChanges
  <2>4. fs' \in [Subs -> [Names -> File]]
    BY <2>2, <2>3
  <2> QED
    BY <1>3, <2>4 DEF Delete, cacheVars, scanVars
<1> QED
  BY <1>1, <1>2, <1>3 DEF Environment

\* Every step of the scan keeps the types of its variables.
LEMMA ScanTypesStep ==
  ASSUME ScanTypes, ScanAction
  PROVE  ScanTypes'
<1> USE ScanAssumption, NoneAssumption DEF ScanTypes, TypeOK, Pending
<1> USE DEF fsVars, cacheVars, scanVars
<1>1. CASE Environment
  <2>1. TypeOK'
    BY <1>1, EnvironmentTypes
  <2>2. UNCHANGED <<step, list>>
    BY <1>1 DEF Environment, Tick, Write, Delete
  <2> QED
    BY <2>1, <2>2
<1>2. ASSUME NEW s \in Subs, NEW m \in Modes, NEW c \in BOOLEAN, BeginScan(s, m, c)
      PROVE  ScanTypes'
  <2>1. fs[s] \in [Names -> File] /\ \A f \in Names : fs[s][f].ver \in Nat
    BY DEF File
  <2> QED
    BY <1>2, <2>1 DEF BeginScan
<1>3. ASSUME NEW f \in Names, Walk(f) \/ WalkSkips(f) PROVE ScanTypes'
  <2>1. fs[sub][f] \in File
    OBVIOUS
  <2>2. fs[sub][f].ver \in Nat /\ fs[sub][f].size \in Sizes /\ fs[sub][f].mtime \in Nat
    BY <2>1 DEF File
  <2>3. [size |-> fs[sub][f].size, mtime |-> fs[sub][f].mtime, sum |-> NoSum] \in Row
    BY <2>2 DEF Row, Sums
  <2> QED
    BY <1>3, <2>2, <2>3 DEF Walk, WalkSkips
<1>4. ASSUME NEW f \in Names, HashCached(f) PROVE ScanTypes'
  <2>1. list[f] \in Row /\ cache[f] \in CacheRow
    BY <1>4 DEF HashCached, FromCache, Hit
  <2>2. [list[f] EXCEPT !.sum = cache[f].sum] \in Row
    BY <2>1 DEF Row, CacheRow
  <2>3. list' = [list EXCEPT ![f] = [@ EXCEPT !.sum = cache[f].sum]]
    BY <1>4 DEF HashCached
  <2>4. list' \in [Names -> Row \cup {None}] /\ list'[f] # None
    BY <2>2, <2>3
  <2> QED
    BY <1>4, <2>3, <2>4 DEF HashCached
<1>5. ASSUME NEW f \in Names, HashOpen(f) \/ HashFails(f) PROVE ScanTypes'
  <2>1. fs[sub][f] \in File /\ fs[sub][f].ver \in Nat
    BY DEF File
  <2> QED
    BY <1>5, <2>1 DEF HashOpen, HashFails
<1>6. ASSUME NEW f \in Names, HashDone(f) PROVE ScanTypes'
  <2>1. fs[sub][f] \in File /\ fs[sub][f].ver \in Nat /\ list[f] \in Row
    BY <1>6 DEF File, HashDone
  <2>2. PICK d \in ReadSums(f) : list' = [list EXCEPT ![f].sum = d] /\ Put(f, d)
    BY <1>6 DEF HashDone
  <2>3. d \in Sums \ {NoSum}
    BY <2>1 DEF ReadSums, Sums
  <2>4. [list[f] EXCEPT !.sum = d] \in Row
    BY <2>1, <2>3 DEF Row
  <2>5. [size |-> list[f].size, mtime |-> list[f].mtime, sum |-> d] \in CacheRow
    BY <2>1, <2>3 DEF Row, CacheRow
  <2>6. list' = [list EXCEPT ![f] = [@ EXCEPT !.sum = d]]
    BY <2>2
  <2>7. list' \in [Names -> Row \cup {None}] /\ list'[f] # None
    BY <2>4, <2>6
  <2>8. cache' \in [Names -> CacheRow \cup {None}]
    BY <2>2, <2>5 DEF Put
  <2> QED
    BY <1>6, <2>6, <2>7, <2>8 DEF HashDone
<1>7. CASE EndWalk \/ Cancel
  BY <1>7 DEF EndWalk, Cancel
<1>8. CASE EndScan
  <2>1. cache' \in [Names -> CacheRow \cup {None}] /\ disk' \in [Names -> CacheRow \cup {None}]
    BY <1>8 DEF EndScan
  <2> QED
    BY <1>8, <2>1 DEF EndScan, ForgetScan
<1>9. CASE Restart
  BY <1>9 DEF Restart, ForgetScan
<1>10. CASE UNCHANGED vars
  BY <1>10 DEF vars
<1> QED
  BY <1>1, <1>2, <1>3, <1>4, <1>5, <1>6, <1>7, <1>8, <1>9, <1>10 DEF ScanAction, ScanStep

-----------------------------------------------------------------------------
(* The tree moves on.                                                      *)

\* `b` is what `a` is now or became later.
Moved(a, b) ==
  \/ b = a
  \/ /\ a.ver < b.ver
     /\ Stamps = "fresh" => a.mtime <= b.mtime /\ (b.there => a.mtime < b.mtime)

\* Other programs only move files on, and touch nothing of the scan.
LEMMA EnvironmentMoves ==
  ASSUME TypeOK, Environment
  PROVE  /\ \A s \in Subs, f \in Names : Moved(fs[s][f], fs'[s][f])
         /\ UNCHANGED cacheVars /\ UNCHANGED scanVars
<1> USE ScanAssumption DEF TypeOK
<1>1. \A s \in Subs, f \in Names : fs[s][f] \in File
  OBVIOUS
<1>2. CASE Tick
  BY <1>2 DEF Tick, Moved
<1>3. ASSUME NEW s \in Subs, NEW f \in Names, Write(s, f)
      PROVE  \A u \in Subs, g \in Names : Moved(fs[u][g], fs'[u][g])
  <2>1. PICK n \in Sizes, t \in NewStamps(fs[s][f].mtime) :
          fs' = [fs EXCEPT ![s] = [@ EXCEPT ![f] =
                  [there |-> TRUE, ver |-> fs[s][f].ver + 1, size |-> n, mtime |-> t]]]
    BY <1>3, WriteChanges
  <2>2. fs[s][f].mtime \in 0..MaxClock /\ fs[s][f].ver \in Nat
    BY <1>1 DEF File
  <2>3. t \in 0..MaxClock /\ (Stamps = "fresh" => t > fs[s][f].mtime)
    BY <2>2, StampsTyped
  <2>4. Moved(fs[s][f], [there |-> TRUE, ver |-> fs[s][f].ver + 1, size |-> n, mtime |-> t])
    BY <2>2, <2>3 DEF Moved
  <2> TAKE u \in Subs, g \in Names
  <2>5. CASE u = s /\ g = f
    BY <2>1, <2>4, <2>5
  <2>6. CASE ~(u = s /\ g = f)
    BY <2>1, <2>6 DEF Moved
  <2> QED
    BY <2>5, <2>6
<1>4. ASSUME NEW s \in Subs, NEW f \in Names, Delete(s, f)
      PROVE  \A u \in Subs, g \in Names : Moved(fs[u][g], fs'[u][g])
  <2>1. fs' = [fs EXCEPT ![s] = [@ EXCEPT ![f] =
                 [there |-> FALSE, ver |-> fs[s][f].ver + 1,
                  size |-> fs[s][f].size, mtime |-> fs[s][f].mtime]]]
    BY <1>4, DeleteChanges
  <2>2. fs[s][f].mtime \in 0..MaxClock /\ fs[s][f].ver \in Nat
    BY <1>1 DEF File
  <2>3. Moved(fs[s][f], [there |-> FALSE, ver |-> fs[s][f].ver + 1,
                         size |-> fs[s][f].size, mtime |-> fs[s][f].mtime])
    BY <2>2 DEF Moved
  <2> TAKE u \in Subs, g \in Names
  <2>4. CASE u = s /\ g = f
    BY <2>1, <2>3, <2>4
  <2>5. CASE ~(u = s /\ g = f)
    BY <2>1, <2>5 DEF Moved
  <2> QED
    BY <2>4, <2>5
<1>5. UNCHANGED cacheVars /\ UNCHANGED scanVars
  BY DEF Environment, Tick, Write, Delete, cacheVars, scanVars
<1> QED
  BY <1>2, <1>3, <1>4, <1>5 DEF Environment

\* What a stamp tells of a file, it still tells when the file has moved on.
LEMMA StampsStillTell ==
  ASSUME NEW row \in Row \cup {None}, NEW a \in File, NEW b \in File, NEW ver,
         Stamps = "fresh", Moved(a, b), StampTells(row, a, ver)
  PROVE  StampTells(row, b, ver)
  BY NoneAssumption, ScanAssumption DEF Row, File, Moved, StampTells, Matches

\* It tells it whatever digest it has.
LEMMA DigestTellsNothing ==
  ASSUME NEW row \in Row, NEW d, NEW file, NEW ver, StampTells(row, file, ver)
  PROVE  StampTells([row EXCEPT !.sum = d], file, ver)
  BY NoneAssumption DEF Row, StampTells, Matches

\* What HashDone does: the digest of the bytes read, in the list and in the cache.
LEMMA HashDoneChanges ==
  ASSUME ScanTypes, NEW f \in Names, HashDone(f)
  PROVE  \E d \in ReadSums(f) :
           /\ list' = [list EXCEPT ![f] = [@ EXCEPT !.sum = d]]
           /\ Put(f, d)
  BY DEF HashDone

\* What HashCached does.
LEMMA HashCachedChanges ==
  ASSUME ScanTypes, NEW f \in Names, HashCached(f)
  PROVE  list' = [list EXCEPT ![f] = [@ EXCEPT !.sum = cache[f].sum]]
  BY DEF HashCached

-----------------------------------------------------------------------------
(* Contents are seen in the order in which they are written.               *)

LEMMA SeenInOrderStep ==
  ASSUME ScanTypes, ScanAction, SeenInOrder
  PROVE  SeenInOrder'
<1> USE ScanAssumption DEF ScanTypes, TypeOK, Pending
<1> USE DEF fsVars, cacheVars, scanVars
<1>0. \A s \in Subs, f \in Names : fs[s][f] \in File /\ fs[s][f].ver \in Nat
  BY DEF File
<1>1. CASE Environment
  <2>1. TypeOK'
    BY <1>1, EnvironmentTypes
  <2>2. \A f \in Names : fs'[sub][f].ver \in Nat
    BY <2>1 DEF File
  <2>3. \A f \in Names : fs[sub][f].ver <= fs'[sub][f].ver
    BY <1>0, <1>1, <2>2, EnvironmentMoves, SMTT(30) DEF Moved
  <2>4. UNCHANGED scanVars
    BY <1>1, EnvironmentMoves
  <2> QED
    BY <1>0, <2>2, <2>3, <2>4 DEF SeenInOrder
<1>2. ASSUME NEW s \in Subs, NEW m \in Modes, NEW c \in BOOLEAN, BeginScan(s, m, c)
      PROVE  SeenInOrder'
  BY <1>0, <1>2 DEF BeginScan, SeenInOrder
<1>3. ASSUME NEW f \in Names, Walk(f) PROVE SeenInOrder'
  BY <1>0, <1>3, NoneAssumption DEF Walk, SeenInOrder
<1>4. ASSUME NEW f \in Names, WalkSkips(f) PROVE SeenInOrder'
  BY <1>0, <1>4 DEF WalkSkips, SeenInOrder
<1>5. ASSUME NEW f \in Names, HashCached(f) PROVE SeenInOrder'
  <2>1. list[f] # None /\ \A g \in Names : list'[g] # None => list[g] # None
    BY <1>5, HashCachedChanges DEF HashCached
  <2> QED
    BY <1>5, <2>1 DEF HashCached, SeenInOrder
<1>6. ASSUME NEW f \in Names, HashOpen(f) \/ HashFails(f) PROVE SeenInOrder'
  BY <1>0, <1>6 DEF HashOpen, HashFails, SeenInOrder
<1>7. ASSUME NEW f \in Names, HashDone(f) PROVE SeenInOrder'
  <2>1. list[f] # None /\ \A g \in Names : list'[g] # None => list[g] # None
    BY <1>7, HashDoneChanges DEF HashDone
  <2> QED
    BY <1>7, <2>1 DEF HashDone, SeenInOrder
<1>8. CASE EndWalk \/ Cancel
  BY <1>8 DEF EndWalk, Cancel, SeenInOrder
<1>9. CASE EndScan \/ Restart
  BY <1>9 DEF EndScan, Restart, ForgetScan, SeenInOrder
<1>10. CASE UNCHANGED vars
  BY <1>10 DEF vars, SeenInOrder
<1> QED
  BY <1>1, <1>2, <1>3, <1>4, <1>5, <1>6, <1>7, <1>8, <1>9, <1>10 DEF ScanAction, ScanStep

\* A file that is still what the walk saw was read as it is.
LEMMA UnchangedIsReadWhole ==
  ASSUME ScanTypes, SeenInOrder, NEW f \in Names,
         step[f] = "reading", fs[sub][f].ver = seenVer[f]
  PROVE  ReadSums(f) = {fs[sub][f].ver}
<1>1. fs[sub][f] \in File /\ begun[f] \in Nat /\ seenVer[f] \in Nat
  BY DEF ScanTypes, TypeOK
<1>2. fs[sub][f].ver \in Nat
  BY <1>1, ScanAssumption DEF File
<1>3. seenVer[f] <= begun[f] /\ begun[f] <= fs[sub][f].ver
  BY DEF SeenInOrder
<1>4. begun[f] = fs[sub][f].ver
  BY <1>1, <1>2, <1>3
<1> QED
  BY <1>4 DEF ReadSums

-----------------------------------------------------------------------------
(* An equal stamp means that nothing was written since.                    *)

LEMMA CacheTellsStep ==
  ASSUME CacheApplies, ScanTypes, ScanTypes', ScanAction, SeenInOrder, CacheTells
  PROVE  CacheTells'
<1> USE ScanAssumption DEF ScanTypes, TypeOK, Pending
<1> USE DEF fsVars, cacheVars, scanVars
<1>0. \A s \in Subs, f \in Names : fs[s][f] \in File /\ fs[s][f].ver \in Nat
  BY DEF File
<1>1. CASE ~UseCache
  <2>1. \A f \in Names : cache[f] = None /\ disk[f] = None
    BY <1>1 DEF CacheTells
  <2>2. \A f \in Names : HashDone(f) => UNCHANGED cacheVars
    BY <1>1 DEF HashDone, Put
  <2>3. EndScan => \A f \in Names : cache'[f] = None /\ disk'[f] = None
    BY <2>1 DEF EndScan
  <2>4. Restart => \A f \in Names : cache'[f] = None /\ disk'[f] = None
    BY <2>1 DEF Restart
  <2>5. \/ UNCHANGED cacheVars \/ EndScan \/ Restart
    BY <2>2, EnvironmentMoves
    DEF ScanAction, ScanStep, BeginScan, EndWalk, Walk, WalkSkips, HashCached, HashOpen,
        HashFails, Cancel, vars
  <2> QED
    BY <1>1, <2>1, <2>3, <2>4, <2>5 DEF CacheTells
<1>2. CASE UseCache
  <2>0. Stamps = "fresh" /\ \A s, t \in Subs : s = t
    BY <1>2 DEF CacheApplies
  <2>1. CASE Environment
    <3>1. \A s \in Subs, f \in Names : fs'[s][f] \in File /\ Moved(fs[s][f], fs'[s][f])
      BY <2>1, EnvironmentMoves
    <3>2. UNCHANGED cacheVars /\ UNCHANGED scanVars
      BY <2>1, EnvironmentMoves
    <3>3. \A f \in Names : cache[f] \in Row \cup {None} /\ disk[f] \in Row \cup {None}
      BY DEF Row, CacheRow
    <3>4. \A s \in Subs, f \in Names :
            /\ StampTells(cache[f], fs'[s][f], cache[f].sum)
            /\ StampTells(disk[f], fs'[s][f], disk[f].sum)
      BY <1>0, <1>2, <2>0, <3>1, <3>3, StampsStillTell DEF CacheTells, RowsTell
    <3>5. \A f \in Names : StampTells(list[f], fs'[sub][f], seenVer[f])
      BY <1>0, <1>2, <2>0, <3>1, StampsStillTell DEF CacheTells
    <3> QED
      BY <1>2, <3>2, <3>4, <3>5 DEF CacheTells, RowsTell
  <2>2. ASSUME NEW s \in Subs, NEW m \in Modes, NEW c \in BOOLEAN, BeginScan(s, m, c)
        PROVE  CacheTells'
    BY <1>2, <2>2 DEF BeginScan, CacheTells, RowsTell, StampTells, Matches
  <2>3. ASSUME NEW f \in Names, Walk(f) \/ WalkSkips(f) PROVE CacheTells'
    <3>1. \A g \in Names : StampTells(list[g], fs[sub][g], seenVer[g])
      BY <1>2 DEF CacheTells
    <3>2. \A g \in Names \ {f} : list'[g] = list[g] /\ seenVer'[g] = seenVer[g]
      BY <2>3 DEF Walk, WalkSkips
    <3>3. seenVer'[f] = fs[sub][f].ver
      BY <2>3 DEF Walk, WalkSkips
    <3>4. fs[sub][f].mtime \in Nat
      BY <1>0 DEF File
    <3>5. StampTells(list[f], fs[sub][f], fs[sub][f].ver)
      BY <3>1 DEF StampTells
    <3>6. StampTells(list'[f], fs[sub][f], fs[sub][f].ver)
      <4>1. CASE list' = list
        BY <3>5, <4>1
      <4>2. CASE list' # list
        <5>1. list'[f] = [size |-> fs[sub][f].size, mtime |-> fs[sub][f].mtime, sum |-> NoSum]
          BY <2>3, <4>2 DEF Walk, WalkSkips
        <5> QED
          BY <3>4, <5>1 DEF StampTells, Matches
      <4> QED
        BY <4>1, <4>2
    <3>7. \A g \in Names : StampTells(list'[g], fs[sub][g], seenVer'[g])
      BY <3>1, <3>2, <3>3, <3>6
    <3> QED
      BY <1>2, <2>3, <3>7 DEF Walk, WalkSkips, CacheTells, RowsTell
  <2>4. ASSUME NEW f \in Names, HashCached(f) PROVE CacheTells'
    <3>1. list[f] \in Row /\ list' = [list EXCEPT ![f] = [@ EXCEPT !.sum = cache[f].sum]]
      BY <2>4, HashCachedChanges DEF HashCached
    <3>2. \A g \in Names : StampTells(list'[g], fs[sub][g], seenVer[g])
      BY <1>2, <3>1, DigestTellsNothing DEF CacheTells
    <3> QED
      BY <1>2, <2>4, <3>2 DEF HashCached, CacheTells, RowsTell
  <2>5. ASSUME NEW f \in Names, HashDone(f) PROVE CacheTells'
    <3>1. PICK d \in ReadSums(f) :
            /\ list' = [list EXCEPT ![f] = [@ EXCEPT !.sum = d]]
            /\ Put(f, d)
      BY <2>5, HashDoneChanges
    <3>2. list[f] \in Row
      BY <2>5 DEF HashDone
    <3>3. \A g \in Names : StampTells(list'[g], fs[sub][g], seenVer[g])
      BY <1>2, <3>1, <3>2, DigestTellsNothing DEF CacheTells
    <3>4. cache' = [cache EXCEPT ![f] = [size |-> list[f].size,
                                        mtime |-> list[f].mtime, sum |-> d]]
      BY <1>2, <3>1 DEF Put
    <3>5. list[f].mtime <= fs[sub][f].mtime
      BY <1>2, <3>2, NoneAssumption DEF CacheTells, StampTells
    <3>6. Matches(list[f], fs[sub][f]) => d = fs[sub][f].ver
      <4> SUFFICES ASSUME Matches(list[f], fs[sub][f]) PROVE d = fs[sub][f].ver
        OBVIOUS
      <4>1. fs[sub][f].ver = seenVer[f]
        BY <1>2, <3>2, NoneAssumption DEF CacheTells, StampTells
      <4> QED
        BY <2>5, <3>1, <4>1, UnchangedIsReadWhole DEF HashDone
    <3>7. StampTells(cache'[f], fs[sub][f], cache'[f].sum)
      BY <3>2, <3>4, <3>5, <3>6, NoneAssumption DEF StampTells, Matches
    <3>8. RowsTell(cache)'
      BY <1>2, <2>0, <2>5, <3>4, <3>7 DEF RowsTell, CacheTells, HashDone
    <3> QED
      BY <1>2, <2>5, <3>3, <3>8 DEF HashDone, CacheTells, RowsTell
  <2>6. ASSUME NEW f \in Names, HashOpen(f) \/ HashFails(f) PROVE CacheTells'
    BY <1>2, <2>6 DEF HashOpen, HashFails, CacheTells, RowsTell
  <2>7. CASE EndWalk \/ Cancel
    BY <1>2, <2>7 DEF EndWalk, Cancel, CacheTells, RowsTell
  <2>8. CASE EndScan
    <3>1. RowsTell(cache)'
      BY <1>2, <2>8 DEF EndScan, CacheTells, RowsTell, StampTells, Matches
    <3>2. RowsTell(disk)'
      BY <1>2, <2>8, <3>1 DEF EndScan, CacheTells, RowsTell
    <3> QED
      BY <1>2, <2>8, <3>1, <3>2 DEF EndScan, ForgetScan, CacheTells, StampTells
  <2>9. CASE Restart
    BY <1>2, <2>9 DEF Restart, ForgetScan, CacheTells, RowsTell, StampTells
  <2>10. CASE UNCHANGED vars
    BY <1>2, <2>10 DEF vars, CacheTells, RowsTell
  <2> QED
    BY <2>1, <2>2, <2>3, <2>4, <2>5, <2>6, <2>7, <2>8, <2>9, <2>10
    DEF ScanAction, ScanStep
<1> QED
  BY <1>1, <1>2

-----------------------------------------------------------------------------
(* What digests are of.                                                    *)

LEMMA HitsAreSeenStep ==
  ASSUME CacheApplies, ScanTypes, ScanAction, CacheTells, HitsAreSeen
  PROVE  HitsAreSeen'
<1> USE ScanAssumption, NoneAssumption DEF ScanTypes, TypeOK, Pending
<1> USE DEF fsVars, cacheVars, scanVars
<1>1. CASE Environment
  BY <1>1, EnvironmentMoves DEF HitsAreSeen, Hit
<1>2. ASSUME NEW s \in Subs, NEW m \in Modes, NEW c \in BOOLEAN, BeginScan(s, m, c)
      PROVE  HitsAreSeen'
  BY <1>2 DEF BeginScan, HitsAreSeen
<1>3. ASSUME NEW f \in Names, Walk(f) PROVE HitsAreSeen'
  <2>1. \A g \in Names \ {f} :
          list'[g] = list[g] /\ step'[g] = step[g] /\ seenVer'[g] = seenVer[g]
    BY <1>3 DEF Walk
  <2>2. UNCHANGED cache
    BY <1>3 DEF Walk
  <2>3. ASSUME step'[f] = "todo", Hit(f)' PROVE cache'[f].sum = seenVer'[f]
    <3>1. fs[sub][f].there
      BY <1>3, <2>3 DEF Walk
    <3>2. list'[f] = [size |-> fs[sub][f].size, mtime |-> fs[sub][f].mtime, sum |-> NoSum]
      BY <1>3, <3>1 DEF Walk
    <3>3. Matches(cache[f], fs[sub][f])
      BY <2>2, <2>3, <3>1, <3>2 DEF Hit, Matches
    <3>4. fs[sub][f].ver = cache[f].sum
      BY <3>3 DEF CacheTells, RowsTell, StampTells, Matches
    <3> QED
      BY <1>3, <2>2, <3>4 DEF Walk
  <2> QED
    BY <2>1, <2>2, <2>3 DEF HitsAreSeen, Hit
<1>4. ASSUME NEW f \in Names, WalkSkips(f) PROVE HitsAreSeen'
  BY <1>4 DEF WalkSkips, HitsAreSeen, Hit
<1>5. ASSUME NEW f \in Names, HashCached(f) PROVE HitsAreSeen'
  <2>1. \A g \in Names \ {f} : list'[g] = list[g] /\ step'[g] = step[g]
    BY <1>5, HashCachedChanges DEF HashCached
  <2>2. step'[f] = "done" /\ UNCHANGED <<cache, seenVer>>
    BY <1>5 DEF HashCached
  <2> QED
    BY <2>1, <2>2 DEF HitsAreSeen, Hit
<1>6. ASSUME NEW f \in Names, HashOpen(f) \/ HashFails(f) PROVE HitsAreSeen'
  BY <1>6 DEF HashOpen, HashFails, HitsAreSeen, Hit
<1>7. ASSUME NEW f \in Names, HashDone(f) PROVE HitsAreSeen'
  <2>1. \A g \in Names \ {f} : list'[g] = list[g] /\ step'[g] = step[g] /\ cache'[g] = cache[g]
    BY <1>7, HashDoneChanges DEF HashDone, Put
  <2>2. step'[f] = "done" /\ UNCHANGED seenVer
    BY <1>7 DEF HashDone
  <2> QED
    BY <2>1, <2>2 DEF HitsAreSeen, Hit
<1>8. CASE EndWalk \/ Cancel
  BY <1>8 DEF EndWalk, Cancel, HitsAreSeen, Hit
<1>9. CASE EndScan \/ Restart
  BY <1>9 DEF EndScan, Restart, ForgetScan, HitsAreSeen
<1>10. CASE UNCHANGED vars
  BY <1>10 DEF vars, HitsAreSeen, Hit
<1> QED
  BY <1>1, <1>2, <1>3, <1>4, <1>5, <1>6, <1>7, <1>8, <1>9, <1>10 DEF ScanAction, ScanStep

LEMMA DigestsInOrderStep ==
  ASSUME ScanTypes, ScanAction, SeenInOrder, HitsAreSeen, DigestsInOrder
  PROVE  DigestsInOrder'
<1> USE ScanAssumption, NoneAssumption DEF ScanTypes, TypeOK, Pending
<1> USE DEF fsVars, cacheVars, scanVars
<1>0. \A s \in Subs, f \in Names : fs[s][f] \in File /\ fs[s][f].ver \in Nat
  BY DEF File
<1>1. CASE Environment
  <2>1. UNCHANGED scanVars
    BY <1>1, EnvironmentMoves
  <2>2. ASSUME NEW f \in Names, list[f] # None, fs'[sub][f].ver = scanFrom[f]
        PROVE  fs[sub][f].ver = scanFrom[f]
    <3>1. Moved(fs[sub][f], fs'[sub][f])
      BY <1>1, EnvironmentMoves
    <3>2. scanFrom[f] <= fs[sub][f].ver
      BY <2>2 DEF SeenInOrder
    <3> QED
      BY <1>0, <2>2, <3>1, <3>2 DEF Moved
  <2> QED
    BY <2>1, <2>2 DEF DigestsInOrder
<1>2. ASSUME NEW s \in Subs, NEW m \in Modes, NEW c \in BOOLEAN, BeginScan(s, m, c)
      PROVE  DigestsInOrder'
  BY <1>2 DEF BeginScan, DigestsInOrder
<1>3. ASSUME NEW f \in Names, Walk(f) PROVE DigestsInOrder'
  <2>1. \A g \in Names \ {f} : list'[g] = list[g]
    BY <1>3 DEF Walk
  <2>2. list'[f] = list[f] \/ list'[f].sum = NoSum
    BY <1>3 DEF Walk
  <2>3. UNCHANGED <<fs, sub, scanFrom>>
    BY <1>3 DEF Walk
  <2> QED
    BY <2>1, <2>2, <2>3 DEF DigestsInOrder
<1>4. ASSUME NEW f \in Names, HashCached(f) PROVE DigestsInOrder'
  <2>1. list[f] \in Row /\ list' = [list EXCEPT ![f] = [@ EXCEPT !.sum = cache[f].sum]]
    BY <1>4, HashCachedChanges DEF HashCached
  <2>2. cache[f].sum = seenVer[f]
    BY <1>4 DEF HashCached, FromCache, HitsAreSeen
  <2>3. list'[f].sum = seenVer[f] /\ \A g \in Names \ {f} : list'[g] = list[g]
    BY <2>1, <2>2 DEF Row
  <2>4. scanFrom[f] <= seenVer[f] /\ seenVer[f] <= fs[sub][f].ver
    BY <1>4 DEF HashCached, SeenInOrder
  <2>5. UNCHANGED <<fs, sub, scanFrom>>
    BY <1>4 DEF HashCached
  <2>6. fs[sub][f].ver \in Nat /\ seenVer[f] \in Nat /\ scanFrom[f] \in Nat
    BY <1>0
  <2>7. fs[sub][f].ver = scanFrom[f] => seenVer[f] = scanFrom[f]
    BY <2>4, <2>6
  <2> QED
    BY <2>3, <2>4, <2>5, <2>7 DEF DigestsInOrder
<1>5. ASSUME NEW f \in Names, HashDone(f) PROVE DigestsInOrder'
  <2>1. PICK d \in ReadSums(f) : list' = [list EXCEPT ![f] = [@ EXCEPT !.sum = d]]
    BY <1>5, HashDoneChanges
  <2>2. list[f] \in Row
    BY <1>5 DEF HashDone
  <2>3. list'[f].sum = d /\ \A g \in Names \ {f} : list'[g] = list[g]
    BY <2>1, <2>2 DEF Row
  <2>4. /\ scanFrom[f] <= seenVer[f]
        /\ seenVer[f] <= begun[f]
        /\ begun[f] <= fs[sub][f].ver
    BY <1>5, <2>2 DEF HashDone, SeenInOrder
  <2>5. d \in {begun[f], fs[sub][f].ver, Torn}
    BY DEF ReadSums
  <2>6. /\ fs[sub][f].ver \in Nat /\ begun[f] \in Nat
        /\ seenVer[f] \in Nat /\ scanFrom[f] \in Nat
    BY <1>0
  <2>7. fs[sub][f].ver = scanFrom[f] => begun[f] = scanFrom[f] /\ begun[f] = fs[sub][f].ver
    BY <2>4, <2>6
  <2>8. fs[sub][f].ver = scanFrom[f] => d = scanFrom[f]
    BY <2>7 DEF ReadSums
  <2>9. d \in Nat => scanFrom[f] <= d
    BY <2>4, <2>5, <2>6
  <2>10. UNCHANGED <<fs, sub, scanFrom>>
    BY <1>5 DEF HashDone
  <2> QED
    BY <2>3, <2>8, <2>9, <2>10 DEF DigestsInOrder
<1>6. ASSUME NEW f \in Names, HashOpen(f) \/ HashFails(f) \/ WalkSkips(f)
      PROVE  DigestsInOrder'
  BY <1>6 DEF HashOpen, HashFails, WalkSkips, DigestsInOrder
<1>7. CASE EndWalk \/ Cancel
  BY <1>7 DEF EndWalk, Cancel, DigestsInOrder
<1>8. CASE EndScan \/ Restart
  BY <1>8 DEF EndScan, Restart, ForgetScan, DigestsInOrder
<1>9. CASE UNCHANGED vars
  BY <1>9 DEF vars, DigestsInOrder
<1> QED
  BY <1>1, <1>2, <1>3, <1>4, <1>5, <1>6, <1>7, <1>8, <1>9 DEF ScanAction, ScanStep

-----------------------------------------------------------------------------
(* The theorems.                                                           *)

LEMMA InitInductive ==
  ASSUME Init
  PROVE  ScanInductive
<1> USE ScanAssumption, NoneAssumption DEF Init, InitTree, InitScan
<1>1. fs \in [Subs -> [Names -> File]]
  <2>1. PICK n \in Sizes :
          fs = [s \in Subs |-> [f \in Names |->
                  [there |-> TRUE, ver |-> 0, size |-> n, mtime |-> 0]]]
    OBVIOUS
  <2>2. [there |-> TRUE, ver |-> 0, size |-> n, mtime |-> 0] \in File
    BY DEF File
  <2> QED
    BY <2>1, <2>2
<1>2. clock \in 0..MaxClock
  OBVIOUS
<1>3. TypeOK
  <2> HIDE DEF InitTree
  <2> QED
    BY <1>1, <1>2 DEF TypeOK
<1> QED
  BY <1>3 DEF ScanInductive, ScanTypes, Pending, SeenInOrder, CacheTells, RowsTell,
              StampTells, HitsAreSeen, DigestsInOrder

LEMMA ScanInductiveStep ==
  ASSUME CacheApplies, ScanInductive, ScanAction
  PROVE  ScanInductive'
  BY ScanTypesStep, SeenInOrderStep, CacheTellsStep, HitsAreSeenStep, DigestsInOrderStep
  DEF ScanInductive

LEMMA NextIsScanAction ==
  ASSUME [Next]_vars
  PROVE  ScanAction
  BY DEF Next, ScanAction

\* The cache that tells of contents is sound.
LEMMA TellingIsSound ==
  ASSUME ScanInductive
  PROVE  ScanInv /\ DigestHonest
  BY DEF ScanInductive, ScanTypes, CacheTells, RowsTell, StampTells, DigestsInOrder,
         ScanInv, CacheSound, DigestHonest, Matches

\* Every variable of the scan keeps its type, whatever stamps the writers leave and
\* however the cache is shared: every digest in the cache is one (hashcache.go:60).
THEOREM ScanTypeCorrect == Spec => []TypeOK
<1>1. Init => ScanTypes
  BY InitInductive DEF ScanInductive
<1>2. ScanTypes /\ [Next]_vars => ScanTypes'
  BY ScanTypesStep, NextIsScanAction
<1>3. ScanTypes => TypeOK
  BY DEF ScanTypes
<1> QED
  BY <1>1, <1>2, <1>3, PTL DEF Spec

\* The scan sees contents in the order in which they are written, with any writers and
\* with any cache: scan.go stats first and hashes later, never the other way round.
THEOREM ScanSeesInOrder == Spec => []SeenInOrder
<1>1. Init => ScanTypes /\ SeenInOrder
  BY InitInductive DEF ScanInductive
<1>2. ScanTypes /\ SeenInOrder /\ [Next]_vars => (ScanTypes /\ SeenInOrder)'
  BY ScanTypesStep, SeenInOrderStep, NextIsScanAction
<1> QED
  BY <1>1, <1>2, PTL DEF Spec

\* With the cache off, or with writers that leave later stamps and one published
\* directory, every cache row that matches a file has its digest, in memory and on the
\* disk, through cancelled scans, failed saves and restarts (hashcache.go:60).
THEOREM ScanCacheSound == ASSUME CacheApplies PROVE Spec => []ScanInv
<1>1. Init => ScanInductive
  BY InitInductive
<1>2. ScanInductive /\ [Next]_vars => ScanInductive'
  BY ScanInductiveStep, NextIsScanAction
<1>3. ScanInductive => ScanInv
  BY TellingIsSound
<1> QED
  BY <1>1, <1>2, <1>3, PTL DEF Spec

\* Under the same condition no manifest has a digest of a content older than the scan
\* (scan.go:296).
THEOREM ScanDigestHonest == ASSUME CacheApplies PROVE Spec => []DigestHonest
<1>1. Init => ScanInductive
  BY InitInductive
<1>2. ScanInductive /\ [Next]_vars => ScanInductive'
  BY ScanInductiveStep, NextIsScanAction
<1>3. ScanInductive => DigestHonest
  BY TellingIsSound
<1> QED
  BY <1>1, <1>2, <1>3, PTL DEF Spec

\* Under the same condition a scan ends with the right digest, or with none, for every
\* file that did not change while it ran (scan.go:296).
THEOREM ScanStableDigestExact == ASSUME CacheApplies PROVE Spec => StableDigestExact
<1>1. Init => ScanInductive
  BY InitInductive
<1>2. ScanInductive /\ [Next]_vars => ScanInductive'
  BY ScanInductiveStep, NextIsScanAction
<1>3. ScanInductive =>
        [EndScan =>
           \A f \in Names : list[f] # None /\ fs[sub][f].ver = scanFrom[f]
                              => list[f].sum \in {scanFrom[f], NoSum}]_vars
  BY DEF ScanInductive, DigestsInOrder
<1> QED
  BY <1>1, <1>2, <1>3, PTL DEF Spec, StableDigestExact

-----------------------------------------------------------------------------
(* The manifest endpoint (module ManifestServer).                          *)

\* The tree is not larger than a manifest may be: no walk ends early.
TreeFits == IsFiniteSet(Names) /\ Cardinality(Names) <= MaxEntries

ServerTypes == ServerTypeOK /\ ScanTypes

\* scanMu: one request scans whenever a scan runs, for its own key.
OneScans ==
  /\ phase # "idle" => \E r \in Reqs : At(r, "scanning")
  /\ \A r \in Reqs : At(r, "scanning") =>
       phase # "idle" /\ req[r].key.sub = sub /\ req[r].key.mode = mode
  /\ \A q, r \in Reqs : At(q, "scanning") /\ At(r, "scanning") => q = r

\* What the walk has visited, it saw as it was when the scan began or later.
VisitedInOrder ==
  \A f \in Names :
    /\ phase # "idle" => seenVer[f] <= fs[sub][f].ver
    /\ phase # "idle" /\ step[f] # "unvisited" => scanFrom[f] <= seenVer[f]
    /\ TreeFits /\ phase = "hash" => step[f] # "unvisited"

\* An entry has its digest when a worker is done with it, if the file could be read and
\* is still the one that the walk saw.
DoneHasDigest ==
  \A f \in Names :
    /\ step[f] = "unvisited" => list[f] = None
    /\ list[f] # None /\ fs[sub][f].ver = seenVer[f] =>
         /\ fs[sub][f].there
         /\ step[f] = "done" /\ mode = "always" /\ f \notin unread => list[f].sum # NoSum

\* What is stored is older than the tree.
StoredIsOld ==
  stored # None => \A f \in Names : stored.vers[f] <= fs[stored.key.sub][f].ver

\* What handlers were given is older than the tree, than the running scan and than what
\* is stored for the same directory.
GivenIsOld ==
  /\ \A s \in Subs, f \in Names : given[s][f] <= fs[s][f].ver
  /\ phase # "idle" => \A f \in Names : given[sub][f] <= scanFrom[f]
  /\ stored # None => \A f \in Names : given[stored.key.sub][f] <= stored.vers[f]

\* What a request found published is older than the tree, than a scan that began after
\* it, and than a manifest stored by such a scan.
FoundIsOld ==
  \A r \in Reqs : req[r] # None => \A f \in Names :
    /\ req[r].floor[f] <= fs[req[r].key.sub][f].ver
    /\ req[r].quiet /\ phase # "idle" /\ req[r].key.sub = sub =>
         req[r].floor[f] <= scanFrom[f]
    /\ req[r].quiet /\ req[r].storedAfter /\ stored # None
       /\ stored.key.sub = req[r].key.sub => req[r].floor[f] <= stored.vers[f]

\* What handlers had been given when a request came is older than what they have been
\* given by now, and than the answer to it.
SeenIsOld ==
  \A r \in Reqs : req[r] # None => \A f \in Names :
    /\ req[r].seen[f] <= given[req[r].key.sub][f]
    /\ req[r].at = "replying" => req[r].seen[f] <= req[r].vers[f]

\* What a whole scan that hashes always has stored.
StoredIsWhole ==
  stored # None /\ stored.whole /\ stored.key.mode = "always" =>
    \A f \in Names : \/ stored.list[f] = None
                     \/ stored.list[f].sum # NoSum
                     \/ f \in stored.unread
                     \/ fs[stored.key.sub][f].ver # stored.vers[f]

\* The inductive invariants: what holds of all answers, how complete they are, and how
\* old.
AnswerInductive == ServerTypes /\ SeenInOrder /\ OneScans /\ VisitedInOrder /\ StoredIsOld
WholeInductive == AnswerInductive /\ DoneHasDigest /\ StoredIsWhole
AgeInductive == AnswerInductive /\ GivenIsOld /\ FoundIsOld /\ SeenIsOld

ServerAction == ServerNext \/ UNCHANGED allVars

-----------------------------------------------------------------------------
(* What the actions do to the requests, and types.                         *)

\* The request that arrives.
Arrival(k) ==
  [at |-> "waiting", key |-> k, hungUp |-> FALSE, storedAfter |-> FALSE,
   vers |-> [f \in Names |-> 0], floor |-> [f \in Names |-> fs[k.sub][f].ver],
   quiet |-> phase = "idle", seen |-> given[k.sub]]

LEMMA ArrivalIsNew ==
  ASSUME ServerTypes, NEW k \in Key
  PROVE  /\ Arrival(k) \in Request
         /\ Arrival(k).at = "waiting" /\ Arrival(k).key = k
         /\ Arrival(k).floor = [f \in Names |-> fs[k.sub][f].ver]
         /\ Arrival(k).seen = given[k.sub]
         /\ Arrival(k).quiet => phase = "idle"
         /\ ~Arrival(k).storedAfter
<1>1. \A f \in Names : fs[k.sub][f].ver \in Nat
  BY ScanAssumption DEF ServerTypes, ServerTypeOK, TypeOK, File, Key
<1>2. given[k.sub] \in [Names -> Nat]
  BY DEF ServerTypes, ServerTypeOK, Key
<1> QED
  BY <1>1, <1>2 DEF Arrival, Request

\* What a handler answers with.
LEMMA ProvidedIs ==
  ASSUME NEW r \in Reqs, req[r] \in Request, NEW man \in Manifest
  PROVE  /\ Provided(r, man) \in Request \cup {None}
         /\ Provided(r, man) # None =>
              /\ Provided(r, man).at = "replying" /\ Provided(r, man).key = req[r].key
              /\ Provided(r, man).vers = man.vers /\ Provided(r, man).seen = req[r].seen
              /\ Provided(r, man).floor = [f \in Names |-> 0]
              /\ ~Provided(r, man).quiet /\ ~Provided(r, man).storedAfter
  BY DEF Provided, Request, Manifest

LEMMA StartScanChanges ==
  ASSUME NEW r \in Reqs, StartScan(r)
  PROVE  req' = [req EXCEPT ![r] = [@ EXCEPT !.at = "scanning"]]
  BY DEF StartScan

LEMMA HangUpChanges ==
  ASSUME NEW r \in Reqs, HangUp(r)
  PROVE  req' = [req EXCEPT ![r] = [@ EXCEPT !.hungUp = TRUE]]
  BY DEF HangUp

\* A step of the server is one of the scanner.
LEMMA ServerIsScanAction ==
  ASSUME ServerTypes, ServerAction
  PROVE  ScanAction
<1> USE DEF ScanAction, ScanStep
<1>1. ASSUME NEW r \in Reqs, StartScan(r) PROVE ScanAction
  <2>1. req[r] \in Request
    BY <1>1 DEF StartScan, At, ServerTypes, ServerTypeOK
  <2>2. req[r].key.sub \in Subs /\ req[r].key.mode \in Modes /\ req[r].hungUp \in BOOLEAN
    BY <2>1 DEF Request, Key
  <2> QED
    BY <1>1, <2>2 DEF StartScan
<1>2. ASSUME NEW r \in Reqs,
             Reuse(r) \/ ScanFails(r) \/ FinishScan(r) \/ Reply(r) \/ HangUp(r)
      PROVE  ScanAction
  BY <1>2 DEF Reuse, ScanFails, FinishScan, Reply, HangUp
<1>3. ASSUME NEW r \in Reqs, NEW k \in Key, Arrive(r, k) PROVE ScanAction
  BY <1>3 DEF Arrive
<1>4. CASE ScanWork \/ AgentCrash
  BY <1>4 DEF ScanWork, AgentCrash
<1>5. CASE UNCHANGED allVars
  BY <1>5 DEF allVars
<1> QED
  BY <1>1, <1>2, <1>3, <1>4, <1>5 DEF ServerAction, ServerNext, Handler

\* What a scan stores is a manifest.
LEMMA ScannedTyped ==
  ASSUME ServerTypes, NEW r \in Reqs, At(r, "scanning")
  PROVE  Scanned(r) \in Manifest
<1>1. req[r] \in Request
  BY DEF ServerTypes, ServerTypeOK, At
<1> QED
  BY <1>1 DEF Scanned, Manifest, Request, ServerTypes, ServerTypeOK, TypeOK

LEMMA ServerTypesStep ==
  ASSUME ServerTypes, ServerAction
  PROVE  ServerTypes'
<1> USE ServerAssumption, NoRequestAssumption
<1>1. ScanTypes'
  BY ServerIsScanAction, ScanTypesStep DEF ServerTypes
<1>2. TypeOK'
  BY <1>1 DEF ScanTypes
<1> SUFFICES /\ req' \in [Reqs -> Request \cup {None}]
             /\ stored' \in Manifest \cup {None}
             /\ given' \in [Subs -> [Names -> Nat]]
  BY <1>1, <1>2 DEF ServerTypes, ServerTypeOK
<1>3. /\ req \in [Reqs -> Request \cup {None}]
      /\ stored \in Manifest \cup {None}
      /\ given \in [Subs -> [Names -> Nat]]
  BY DEF ServerTypes, ServerTypeOK
<1>4. ASSUME NEW r \in Reqs, NEW man \in Manifest, req[r] \in Request, Give(r, man)
      PROVE  given' \in [Subs -> [Names -> Nat]]
  BY <1>3, <1>4 DEF Give, Manifest
<1>5. ASSUME NEW r \in Reqs, NEW k \in Key, Arrive(r, k) PROVE req' \in [Reqs -> Request \cup {None}]
  BY <1>3, <1>5, ArrivalIsNew DEF Arrive, Arrival
<1>6. ASSUME NEW r \in Reqs, StartScan(r) PROVE req' \in [Reqs -> Request \cup {None}]
  <2>1. req[r] \in Request
    BY <1>3, <1>6 DEF StartScan, At
  <2>2. [req[r] EXCEPT !.at = "scanning"] \in Request
    BY <2>1 DEF Request
  <2> QED
    BY <1>3, <1>6, <2>2, StartScanChanges
<1>7. ASSUME NEW r \in Reqs, HangUp(r) PROVE req' \in [Reqs -> Request \cup {None}]
  <2>1. req[r] \in Request
    BY <1>3, <1>7 DEF HangUp, At
  <2>2. [req[r] EXCEPT !.hungUp = TRUE] \in Request
    BY <2>1 DEF Request
  <2> QED
    BY <1>3, <1>7, <2>2, HangUpChanges
<1>8. ASSUME NEW r \in Reqs, Reuse(r)
      PROVE  /\ req' \in [Reqs -> Request \cup {None}]
             /\ stored' = stored
             /\ given' \in [Subs -> [Names -> Nat]]
  <2>1. req[r] \in Request /\ stored \in Manifest
    BY <1>3, <1>8 DEF Reuse, At, Reusable
  <2> QED
    BY <1>3, <1>4, <1>8, <2>1, ProvidedIs DEF Reuse
<1>9. ASSUME NEW r \in Reqs, FinishScan(r)
      PROVE  /\ req' \in [Reqs -> Request \cup {None}]
             /\ stored' \in Manifest
             /\ given' \in [Subs -> [Names -> Nat]]
  <2>1. req[r] \in Request
    BY <1>3, <1>9 DEF FinishScan, At
  <2>2. Scanned(r) \in Manifest
    BY <1>9, ScannedTyped DEF FinishScan
  <2>3. \A q \in Reqs : req[q] # None => [req[q] EXCEPT !.storedAfter = TRUE] \in Request
    BY <1>3 DEF Request
  <2>4. Left(r) \in [Reqs -> Request \cup {None}]
    BY <2>1, <2>2, <2>3, ProvidedIs DEF Left
  <2> QED
    BY <1>4, <1>9, <2>1, <2>2, <2>4 DEF FinishScan
<1>10. ASSUME NEW r \in Reqs, ScanFails(r) \/ Reply(r)
       PROVE  req' \in [Reqs -> Request \cup {None}]
  BY <1>3, <1>10 DEF ScanFails, Reply
<1>11. AgentCrash => req' \in [Reqs -> Request \cup {None}] /\ stored' = None
  BY DEF AgentCrash
<1> QED
  BY <1>3, <1>5, <1>6, <1>7, <1>8, <1>9, <1>10, <1>11
  DEF ServerAction, ServerNext, Handler, Arrive, StartScan, HangUp, ScanFails, Reply,
      ScanWork, AgentCrash, serverVars, allVars

-----------------------------------------------------------------------------
(* What the walk and the workers leave to the handlers.                    *)

\* Other programs only raise the contents of files.
LEMMA ContentsGrow ==
  ASSUME TypeOK, Environment, NEW s \in Subs, NEW f \in Names
  PROVE  /\ fs[s][f].ver \in Nat /\ fs'[s][f].ver \in Nat
         /\ fs[s][f].ver <= fs'[s][f].ver
         /\ fs'[s][f].ver = fs[s][f].ver => fs'[s][f] = fs[s][f]
<1>1. TypeOK'
  BY EnvironmentTypes
<1>2. fs[s][f] \in File /\ fs'[s][f] \in File
  BY <1>1 DEF TypeOK
<1>3. fs[s][f].ver \in Nat /\ fs'[s][f].ver \in Nat
  BY <1>2, ScanAssumption DEF File
<1>4. Moved(fs[s][f], fs'[s][f])
  BY EnvironmentMoves
<1> QED
  BY <1>3, <1>4 DEF Moved

\* A walk that ends early lists more than fits.
LEMMA FittingTreeIsNotTruncated ==
  ASSUME TreeFits
  PROVE  ~Truncated
<1>1. Listed \subseteq Names
  BY DEF Listed
<1>2. IsFiniteSet(Listed) /\ Cardinality(Listed) <= Cardinality(Names)
  BY <1>1, FS_Subset DEF TreeFits
<1>3. Cardinality(Listed) \in Nat /\ Cardinality(Names) \in Nat
  BY <1>2, FS_CardinalityType DEF TreeFits
<1> QED
  BY <1>2, <1>3, ScanAssumption DEF TreeFits, Truncated

LEMMA VisitedInOrderStep ==
  ASSUME ScanTypes, ScanAction, SeenInOrder, VisitedInOrder
  PROVE  VisitedInOrder'
<1> USE DEF fsVars, cacheVars, scanVars
<1>0. /\ \A s \in Subs, f \in Names : fs[s][f].ver \in Nat
      /\ seenVer \in [Names -> Nat] /\ scanFrom \in [Names -> Nat]
      /\ step \in [Names -> {"unvisited", "todo", "reading", "done"}] /\ sub \in Subs
  BY ScanAssumption DEF ScanTypes, TypeOK, File
<1>1. CASE Environment
  <2>1. UNCHANGED scanVars
    BY <1>1, EnvironmentMoves DEF ScanTypes
  <2>2. \A f \in Names : fs'[sub][f].ver \in Nat /\ fs[sub][f].ver <= fs'[sub][f].ver
    BY <1>0, <1>1, ContentsGrow DEF ScanTypes
  <2> QED
    BY <1>0, <2>1, <2>2 DEF VisitedInOrder
<1>2. ASSUME NEW s \in Subs, NEW m \in Modes, NEW c \in BOOLEAN, BeginScan(s, m, c)
      PROVE  VisitedInOrder'
  BY <1>0, <1>2 DEF BeginScan, VisitedInOrder
<1>3. ASSUME NEW f \in Names, Walk(f) \/ WalkSkips(f) PROVE VisitedInOrder'
  <2>1. /\ phase = "walk" /\ phase' = "walk" /\ UNCHANGED <<fs, sub, scanFrom>>
        /\ seenVer' = [seenVer EXCEPT ![f] = fs[sub][f].ver]
    BY <1>3 DEF Walk, WalkSkips
  <2>2. \A g \in Names \ {f} : step'[g] = step[g]
    BY <1>0, <1>3 DEF Walk, WalkSkips
  <2>3. scanFrom[f] <= fs[sub][f].ver
    BY <2>1 DEF SeenInOrder
  <2> QED
    BY <1>0, <2>1, <2>2, <2>3 DEF VisitedInOrder
<1>4. ASSUME NEW f \in Names, HashCached(f) \/ HashOpen(f) \/ HashDone(f) \/ HashFails(f)
      PROVE  VisitedInOrder'
  <2>1. UNCHANGED <<fs, phase, sub, seenVer, scanFrom>>
    BY <1>4 DEF HashCached, HashOpen, HashDone, HashFails
  <2>2. \A g \in Names : step'[g] = "unvisited" <=> step[g] = "unvisited"
    BY <1>0, <1>4 DEF HashCached, HashOpen, HashDone, HashFails
  <2> QED
    BY <2>1, <2>2 DEF VisitedInOrder
<1>5. CASE EndWalk
  BY <1>5, FittingTreeIsNotTruncated DEF EndWalk, VisitedInOrder
<1>6. CASE Cancel
  BY <1>6 DEF Cancel, VisitedInOrder
<1>7. CASE EndScan \/ Restart
  BY <1>7 DEF EndScan, Restart, ForgetScan, VisitedInOrder
<1>8. CASE UNCHANGED vars
  BY <1>8 DEF vars, VisitedInOrder
<1> QED
  BY <1>1, <1>2, <1>3, <1>4, <1>5, <1>6, <1>7, <1>8 DEF ScanAction, ScanStep

LEMMA DoneHasDigestStep ==
  ASSUME ScanTypes, ScanAction, SeenInOrder, DoneHasDigest
  PROVE  DoneHasDigest'
<1> USE DEF fsVars, cacheVars, scanVars
<1>0. /\ \A s \in Subs, f \in Names : fs[s][f].ver \in Nat
      /\ seenVer \in [Names -> Nat] /\ sub \in Subs
      /\ step \in [Names -> {"unvisited", "todo", "reading", "done"}]
      /\ list \in [Names -> Row \cup {None}]
  BY ScanAssumption DEF ScanTypes, TypeOK, File
<1>1. CASE Environment
  <2>1. UNCHANGED scanVars
    BY <1>1, EnvironmentMoves DEF ScanTypes
  <2>2. ASSUME NEW f \in Names, list[f] # None, fs'[sub][f].ver = seenVer[f]
        PROVE  fs'[sub][f] = fs[sub][f]
    <3>1. seenVer[f] <= fs[sub][f].ver
      BY <2>2 DEF SeenInOrder
    <3>2. /\ fs[sub][f].ver \in Nat /\ fs'[sub][f].ver \in Nat
          /\ fs[sub][f].ver <= fs'[sub][f].ver
          /\ fs'[sub][f].ver = fs[sub][f].ver => fs'[sub][f] = fs[sub][f]
      BY <1>0, <1>1, ContentsGrow DEF ScanTypes
    <3> QED
      BY <2>2, <3>1, <3>2
  <2> QED
    BY <2>1, <2>2 DEF DoneHasDigest
<1>2. ASSUME NEW s \in Subs, NEW m \in Modes, NEW c \in BOOLEAN, BeginScan(s, m, c)
      PROVE  DoneHasDigest'
  BY <1>2 DEF BeginScan, DoneHasDigest
<1>3. ASSUME NEW f \in Names, Walk(f) PROVE DoneHasDigest'
  <2>1. UNCHANGED <<fs, sub, mode, unread>>
    BY <1>3 DEF Walk
  <2>2. \A g \in Names \ {f} :
          step'[g] = step[g] /\ list'[g] = list[g] /\ seenVer'[g] = seenVer[g]
    BY <1>0, <1>3 DEF Walk
  <2>3. list[f] = None /\ step'[f] # "unvisited"
    BY <1>0, <1>3 DEF Walk, DoneHasDigest
  <2>4. list'[f] # None => fs[sub][f].there /\ (mode = "always" => step'[f] = "todo")
    BY <1>0, <1>3, <2>3 DEF Walk, NeedHash
  <2> QED
    BY <2>1, <2>2, <2>3, <2>4 DEF DoneHasDigest
<1>4. ASSUME NEW f \in Names, WalkSkips(f) PROVE DoneHasDigest'
  <2>1. /\ UNCHANGED <<fs, sub, mode, list, unread>> /\ list[f] = None
        /\ step'[f] # "unvisited"
    BY <1>0, <1>4 DEF WalkSkips, DoneHasDigest
  <2>2. \A g \in Names \ {f} : step'[g] = step[g] /\ seenVer'[g] = seenVer[g]
    BY <1>0, <1>4 DEF WalkSkips
  <2> QED
    BY <2>1, <2>2 DEF DoneHasDigest
<1>5. ASSUME NEW f \in Names, HashCached(f) PROVE DoneHasDigest'
  <2>1. list' = [list EXCEPT ![f] = [@ EXCEPT !.sum = cache[f].sum]]
    BY <1>5, HashCachedChanges
  <2>2. list[f] # None /\ cache[f] \in CacheRow
    BY <1>5 DEF HashCached, FromCache, Hit, ScanTypes, TypeOK, Pending
  <2>3. list'[f].sum # NoSum
    BY <1>0, <2>1, <2>2 DEF Row, CacheRow
  <2>4. UNCHANGED <<fs, sub, mode, seenVer, unread>> /\ step' = [step EXCEPT ![f] = "done"]
    BY <1>5 DEF HashCached
  <2> QED
    BY <1>0, <2>1, <2>2, <2>3, <2>4 DEF DoneHasDigest
<1>6. ASSUME NEW f \in Names, HashOpen(f) PROVE DoneHasDigest'
  <2>1. /\ UNCHANGED <<fs, sub, mode, seenVer, list, unread>> /\ step[f] = "todo"
        /\ step'[f] # "unvisited"
    BY <1>0, <1>6 DEF HashOpen
  <2>2. step'[f] = "done" => ~fs[sub][f].there
    BY <1>0, <1>6 DEF HashOpen
  <2>3. \A g \in Names \ {f} : step'[g] = step[g]
    BY <1>0, <1>6 DEF HashOpen
  <2> QED
    BY <2>1, <2>2, <2>3 DEF DoneHasDigest
<1>7. ASSUME NEW f \in Names, HashDone(f) PROVE DoneHasDigest'
  <2>1. PICK d \in ReadSums(f) : list' = [list EXCEPT ![f] = [@ EXCEPT !.sum = d]]
    BY <1>7, HashDoneChanges
  <2>2. list[f] # None /\ begun[f] \in Nat
    BY <1>7 DEF HashDone, ScanTypes, TypeOK, Pending
  <2>3. list'[f].sum # NoSum
    BY <1>0, <2>1, <2>2, ScanAssumption DEF Row, ReadSums
  <2>4. UNCHANGED <<fs, sub, mode, seenVer, unread>> /\ step' = [step EXCEPT ![f] = "done"]
    BY <1>7 DEF HashDone
  <2> QED
    BY <1>0, <2>1, <2>2, <2>3, <2>4 DEF DoneHasDigest
<1>8. CASE EndWalk \/ Cancel
  BY <1>8 DEF EndWalk, Cancel, DoneHasDigest
<1>9. CASE EndScan \/ Restart
  BY <1>9 DEF EndScan, Restart, ForgetScan, DoneHasDigest
<1>10. CASE UNCHANGED vars
  BY <1>10 DEF vars, DoneHasDigest
<1>11. ASSUME NEW f \in Names, HashFails(f) PROVE DoneHasDigest'
  <2>1. UNCHANGED <<fs, sub, mode, seenVer, list>> /\ unread' = unread \cup {f}
    BY <1>11 DEF HashFails
  <2>2. \A g \in Names : step'[g] = "unvisited" => step[g] = "unvisited"
    BY <1>0, <1>11 DEF HashFails
  <2>3. \A g \in Names \ {f} : step'[g] = step[g]
    BY <1>0, <1>11 DEF HashFails
  <2> QED
    BY <2>1, <2>2, <2>3 DEF DoneHasDigest
<1> QED
  BY <1>1, <1>2, <1>3, <1>4, <1>5, <1>6, <1>7, <1>8, <1>9, <1>10, <1>11 DEF ScanAction, ScanStep

-----------------------------------------------------------------------------
(* One scan at a time.                                                     *)

\* The scanner's own steps keep what the scan is of.
LEMMA ScanWorkKeeps ==
  ASSUME TypeOK, ScanWork
  PROVE  /\ UNCHANGED <<fs, clock, sub, mode, scanFrom, cancelled, req, stored, given>>
         /\ phase # "idle" /\ phase' # "idle"
  BY DEF ScanWork, EndWalk, Walk, WalkSkips, HashCached, HashOpen, HashDone, HashFails,
         serverVars, fsVars

LEMMA OneScansStep ==
  ASSUME ServerTypes, ServerAction, OneScans
  PROVE  OneScans'
<1>0. req \in [Reqs -> Request \cup {None}]
  BY DEF ServerTypes, ServerTypeOK
<1>1. CASE Environment /\ UNCHANGED serverVars
  BY <1>1, EnvironmentMoves DEF ServerTypes, ScanTypes, OneScans, At, serverVars, scanVars
<1>2. CASE ScanWork
  BY <1>2, ScanWorkKeeps DEF ServerTypes, ScanTypes, OneScans, At
<1>3. CASE AgentCrash
  BY <1>3 DEF AgentCrash, Restart, ForgetScan, OneScans, At
<1>4. ASSUME NEW r \in Reqs, NEW k \in Key, Arrive(r, k) PROVE OneScans'
  <2>1. \A q \in Reqs : At(q, "scanning")' => At(q, "scanning") /\ req'[q] = req[q]
    BY <1>0, <1>4 DEF Arrive, At
  <2>2. \A q \in Reqs : At(q, "scanning") => At(q, "scanning")'
    BY <1>0, <1>4 DEF Arrive, At
  <2> QED
    BY <1>4, <2>1, <2>2 DEF Arrive, OneScans, vars, scanVars
<1>5. ASSUME NEW r \in Reqs, Reuse(r) \/ ScanFails(r) PROVE OneScans'
  <2>1. \A q \in Reqs : ~At(q, "scanning")
    BY <1>5 DEF Reuse, ScanFails, LockFree
  <2>2. ~At(r, "scanning")'
    <3>1. CASE ScanFails(r)
      BY <1>0, <3>1 DEF ScanFails, At
    <3>2. CASE Reuse(r)
      <4>1. req[r] \in Request /\ stored \in Manifest /\ req'[r] = Provided(r, stored)
        BY <1>0, <3>2 DEF Reuse, Reusable, At, ServerTypes, ServerTypeOK
      <4> QED
        BY <4>1, ProvidedIs DEF At
    <3> QED
      BY <1>5, <3>1, <3>2
  <2>3. \A q \in Reqs : ~At(q, "scanning")'
    BY <1>0, <1>5, <2>1, <2>2 DEF Reuse, ScanFails, At
  <2> QED
    BY <1>5, <2>1, <2>3 DEF Reuse, ScanFails, OneScans, vars, scanVars
<1>6. ASSUME NEW r \in Reqs, StartScan(r) PROVE OneScans'
  <2>1. req[r] \in Request /\ req'[r] = [req[r] EXCEPT !.at = "scanning"]
    BY <1>0, <1>6, StartScanChanges DEF StartScan, At
  <2>2. /\ req'[r] \in Request /\ req'[r].at = "scanning" /\ req'[r].key = req[r].key
    BY <2>1 DEF Request
  <2>3. At(r, "scanning")'
    BY <2>2, NoRequestAssumption DEF At
  <2>4. \A q \in Reqs : At(q, "scanning")' => q = r
    BY <1>0, <1>6, StartScanChanges DEF StartScan, LockFree, At
  <2>5. phase' = "walk" /\ sub' = req[r].key.sub /\ mode' = req[r].key.mode
    BY <1>6 DEF StartScan, BeginScan
  <2> QED
    BY <2>2, <2>3, <2>4, <2>5 DEF OneScans
<1>7. ASSUME NEW r \in Reqs, FinishScan(r) PROVE OneScans'
  <2>1. \A q \in Reqs : q # r => ~At(q, "scanning")
    BY <1>7 DEF FinishScan, OneScans
  <2>2. \A q \in Reqs \ {r} : req[q] # None => [req[q] EXCEPT !.storedAfter = TRUE].at = req[q].at
    BY <1>0 DEF Request
  <2>5. ~At(r, "scanning")'
    <3>1. req[r] \in Request /\ Scanned(r) \in Manifest /\ req'[r] = Provided(r, Scanned(r))
      BY <1>0, <1>7, ScannedTyped DEF FinishScan, Left, At
    <3> QED
      BY <3>1, ProvidedIs DEF At
  <2>3. \A q \in Reqs : ~At(q, "scanning")'
    BY <1>7, <2>1, <2>2, <2>5 DEF FinishScan, Left, At
  <2>4. phase' = "idle"
    BY <1>7 DEF FinishScan, EndScan, ForgetScan
  <2> QED
    BY <2>3, <2>4 DEF OneScans
<1>8. ASSUME NEW r \in Reqs, HangUp(r) PROVE OneScans'
  <2>1. req[r] \in Request /\ req'[r] = [req[r] EXCEPT !.hungUp = TRUE]
    BY <1>0, <1>8, HangUpChanges DEF HangUp, At
  <2>2. /\ req'[r] \in Request /\ req'[r].at = req[r].at /\ req'[r].key = req[r].key
    BY <2>1 DEF Request
  <2>3. \A q \in Reqs \ {r} : req'[q] = req[q]
    BY <1>0, <1>8, HangUpChanges
  <2>4. req'[r] # None /\ req[r] # None
    BY <2>1, <2>2, NoRequestAssumption
  <2>5. \A q \in Reqs : (At(q, "scanning")' <=> At(q, "scanning"))
    BY <2>2, <2>3, <2>4 DEF At
  <2>6. \A q \in Reqs : At(q, "scanning") => req'[q].key = req[q].key
    BY <2>2, <2>3
  <2>7. UNCHANGED <<phase, sub, mode>>
    BY <1>8 DEF HangUp, Cancel, vars, scanVars
  <2> QED
    BY <2>5, <2>6, <2>7 DEF OneScans
<1>10. ASSUME NEW r \in Reqs, Reply(r) PROVE OneScans'
  <2>1. req[r] # None /\ req[r].at = "replying" /\ req' = [req EXCEPT ![r] = None]
        /\ UNCHANGED <<phase, sub, mode>>
    BY <1>10 DEF Reply, At, vars, scanVars
  <2>2. \A q \in Reqs : At(q, "scanning")' <=> At(q, "scanning")
    BY <1>0, <2>1 DEF At
  <2>3. \A q \in Reqs : At(q, "scanning") => req'[q] = req[q]
    BY <1>0, <2>1 DEF At
  <2> QED
    BY <2>1, <2>2, <2>3 DEF OneScans
<1>9. CASE UNCHANGED allVars
  BY <1>9 DEF allVars, serverVars, vars, scanVars, OneScans, At
<1> QED
  BY <1>1, <1>2, <1>3, <1>4, <1>5, <1>6, <1>7, <1>8, <1>9, <1>10
  DEF ServerAction, ServerNext, Handler

-----------------------------------------------------------------------------
(* Nothing is newer than the tree.                                         *)

LEMMA StoredIsOldStep ==
  ASSUME ServerTypes, ServerAction, OneScans, VisitedInOrder, StoredIsOld
  PROVE  StoredIsOld'
<1>0. /\ stored \in Manifest \cup {None}
      /\ \A s \in Subs, f \in Names : fs[s][f].ver \in Nat
  BY ScanAssumption DEF ServerTypes, ServerTypeOK, TypeOK, File
<1>1. CASE Environment /\ UNCHANGED serverVars
  <2>1. ASSUME stored # None, NEW f \in Names
        PROVE  stored.vers[f] <= fs'[stored.key.sub][f].ver
    <3>1. stored.key.sub \in Subs /\ stored.vers[f] \in Nat
      BY <1>0, <2>1 DEF Manifest, Key
    <3>2. stored.vers[f] <= fs[stored.key.sub][f].ver
      BY <2>1 DEF StoredIsOld
    <3>3. /\ fs[stored.key.sub][f].ver \in Nat /\ fs'[stored.key.sub][f].ver \in Nat
          /\ fs[stored.key.sub][f].ver <= fs'[stored.key.sub][f].ver
      BY <1>1, <3>1, ContentsGrow DEF ServerTypes, ScanTypes
    <3> QED
      BY <3>1, <3>2, <3>3
  <2> QED
    BY <1>1, <2>1 DEF StoredIsOld, serverVars
<1>2. CASE ScanWork
  BY <1>2, ScanWorkKeeps DEF ServerTypes, ScanTypes, StoredIsOld
<1>3. CASE AgentCrash
  BY <1>3 DEF AgentCrash, StoredIsOld
<1>4. ASSUME NEW r \in Reqs, FinishScan(r) PROVE StoredIsOld'
  <2>1. stored' = Scanned(r) /\ UNCHANGED fs /\ phase = "hash"
    BY <1>4 DEF FinishScan, EndScan, fsVars
  <2>2. req[r].key.sub = sub
    BY <1>4 DEF FinishScan, OneScans
  <2>3. \A f \in Names : seenVer[f] <= fs[sub][f].ver
    BY <2>1 DEF VisitedInOrder
  <2> QED
    BY <2>1, <2>2, <2>3 DEF StoredIsOld, Scanned
<1>5. ASSUME UNCHANGED <<fs, stored>> PROVE StoredIsOld'
  BY <1>5 DEF StoredIsOld
<1> QED
  BY <1>1, <1>2, <1>3, <1>4, <1>5
  DEF ServerAction, ServerNext, Handler, Arrive, Reuse, StartScan, BeginScan, ScanFails,
      Reply, HangUp, Cancel, vars, fsVars, allVars, serverVars

\* A stored manifest that lacks a digest is of a file that has changed: it stays so.
LEMMA StoredIsWholeStep ==
  ASSUME ServerTypes, ServerAction, OneScans, StoredIsOld, SeenInOrder, DoneHasDigest,
         StoredIsWhole
  PROVE  StoredIsWhole'
<1>0. stored \in Manifest \cup {None}
  BY DEF ServerTypes, ServerTypeOK
<1>1. CASE Environment /\ UNCHANGED serverVars
  <2>1. ASSUME stored # None, NEW f \in Names, fs[stored.key.sub][f].ver # stored.vers[f]
        PROVE  fs'[stored.key.sub][f].ver # stored.vers[f]
    <3>1. stored.key.sub \in Subs /\ stored.vers[f] \in Nat
      BY <1>0, <2>1 DEF Manifest, Key
    <3>2. stored.vers[f] <= fs[stored.key.sub][f].ver
      BY <2>1 DEF StoredIsOld
    <3>3. /\ fs[stored.key.sub][f].ver \in Nat /\ fs'[stored.key.sub][f].ver \in Nat
          /\ fs[stored.key.sub][f].ver <= fs'[stored.key.sub][f].ver
      BY <1>1, <3>1, ContentsGrow DEF ServerTypes, ScanTypes
    <3> QED
      BY <2>1, <3>1, <3>2, <3>3
  <2> QED
    BY <1>1, <2>1 DEF StoredIsWhole, serverVars
<1>2. CASE ScanWork
  BY <1>2, ScanWorkKeeps DEF ServerTypes, ScanTypes, StoredIsWhole
<1>3. CASE AgentCrash
  BY <1>3 DEF AgentCrash, StoredIsWhole
<1>4. ASSUME NEW r \in Reqs, FinishScan(r) PROVE StoredIsWhole'
  <2>1. stored' = Scanned(r) /\ UNCHANGED fs
    BY <1>4 DEF FinishScan, EndScan, fsVars
  <2>2. req[r].key.sub = sub /\ req[r].key.mode = mode
    BY <1>4 DEF FinishScan, OneScans
  <2>3. ASSUME ~cancelled, mode = "always", NEW f \in Names
        PROVE  \/ list[f] = None \/ list[f].sum # NoSum \/ f \in unread
               \/ fs[sub][f].ver # seenVer[f]
    <3>1. step[f] # "reading" /\ step[f] # "todo"
      BY <1>4, <2>3 DEF FinishScan, EndScan
    <3>2. step[f] \in {"unvisited", "todo", "reading", "done"}
      BY DEF ServerTypes, ScanTypes, TypeOK
    <3> QED
      BY <2>3, <3>1, <3>2 DEF DoneHasDigest
  <2> QED
    BY <2>1, <2>2, <2>3 DEF StoredIsWhole, Scanned
<1>5. ASSUME UNCHANGED <<fs, stored>> PROVE StoredIsWhole'
  BY <1>5 DEF StoredIsWhole
<1> QED
  BY <1>1, <1>2, <1>3, <1>4, <1>5
  DEF ServerAction, ServerNext, Handler, Arrive, Reuse, StartScan, BeginScan, ScanFails,
      Reply, HangUp, Cancel, vars, fsVars, allVars, serverVars

\* No handler is given less than another was before.
LEMMA GivenGrows ==
  ASSUME TreeFits, ServerTypes, ServerAction, OneScans, VisitedInOrder, GivenIsOld,
         NEW s \in Subs, NEW f \in Names
  PROVE  given[s][f] <= given'[s][f]
<1>0. /\ req \in [Reqs -> Request \cup {None}] /\ stored \in Manifest \cup {None}
      /\ given \in [Subs -> [Names -> Nat]] /\ sub \in Subs
      /\ scanFrom \in [Names -> Nat] /\ seenVer \in [Names -> Nat]
  BY DEF ServerTypes, ServerTypeOK, TypeOK
<1>1. given[s][f] \in Nat
  BY <1>0
<1>2. ASSUME NEW r \in Reqs, Reuse(r) PROVE given[s][f] <= given'[s][f]
  <2>1. stored # None /\ stored.key.sub = req[r].key.sub
    BY <1>2 DEF Reuse, Reusable
  <2>2. given[stored.key.sub][f] <= stored.vers[f]
    BY <2>1 DEF GivenIsOld
  <2>3. given' = [given EXCEPT ![req[r].key.sub] = stored.vers]
    BY <1>2 DEF Reuse, Give
  <2> QED
    BY <1>0, <1>1, <2>1, <2>2, <2>3
<1>3. ASSUME NEW r \in Reqs, FinishScan(r) PROVE given[s][f] <= given'[s][f]
  <2>1. req[r].key.sub = sub /\ phase = "hash"
    BY <1>3 DEF FinishScan, OneScans, EndScan
  <2>2. given[sub][f] <= scanFrom[f] /\ scanFrom[f] <= seenVer[f]
    BY <2>1 DEF GivenIsOld, VisitedInOrder
  <2>3. given[sub][f] <= seenVer[f]
    BY <1>0, <2>2
  <2>4. given' = [given EXCEPT ![sub] = seenVer]
    BY <1>3, <2>1 DEF FinishScan, Give, Scanned
  <2> QED
    BY <1>0, <1>1, <2>3, <2>4
<1>4. ASSUME UNCHANGED given PROVE given[s][f] <= given'[s][f]
  BY <1>1, <1>4
<1> QED
  BY <1>2, <1>3, <1>4, ScanWorkKeeps
  DEF ServerAction, ServerNext, Handler, Arrive, StartScan, ScanFails, Reply, HangUp,
      ScanWork, AgentCrash, allVars, serverVars

LEMMA GivenIsOldStep ==
  ASSUME TreeFits, ServerTypes, ServerAction, OneScans, VisitedInOrder, StoredIsOld,
         GivenIsOld
  PROVE  GivenIsOld'
<1>0. /\ req \in [Reqs -> Request \cup {None}] /\ stored \in Manifest \cup {None}
      /\ given \in [Subs -> [Names -> Nat]] /\ sub \in Subs
      /\ scanFrom \in [Names -> Nat] /\ seenVer \in [Names -> Nat]
      /\ \A s \in Subs, f \in Names : fs[s][f].ver \in Nat
  BY ScanAssumption DEF ServerTypes, ServerTypeOK, TypeOK, File
<1>1. CASE Environment /\ UNCHANGED serverVars
  <2>1. UNCHANGED <<phase, sub, scanFrom>>
    BY <1>1, EnvironmentMoves DEF ServerTypes, ScanTypes, scanVars
  <2>2. ASSUME NEW s \in Subs, NEW f \in Names PROVE given[s][f] <= fs'[s][f].ver
    <3>1. /\ fs[s][f].ver \in Nat /\ fs'[s][f].ver \in Nat
          /\ fs[s][f].ver <= fs'[s][f].ver
      BY <1>1, ContentsGrow DEF ServerTypes, ScanTypes
    <3>2. given[s][f] \in Nat /\ given[s][f] <= fs[s][f].ver
      BY <1>0 DEF GivenIsOld
    <3> QED
      BY <3>1, <3>2
  <2> QED
    BY <1>1, <2>1, <2>2 DEF GivenIsOld, serverVars
<1>2. CASE ScanWork
  BY <1>2, ScanWorkKeeps DEF ServerTypes, ScanTypes, GivenIsOld
<1>3. CASE AgentCrash
  BY <1>3 DEF AgentCrash, Restart, ForgetScan, GivenIsOld, fsVars
<1>4. ASSUME NEW r \in Reqs, Reuse(r) PROVE GivenIsOld'
  <2>1. stored # None /\ stored.key.sub = req[r].key.sub
    BY <1>4 DEF Reuse, Reusable
  <2>2. stored.key.sub \in Subs /\ stored.vers \in [Names -> Nat]
    BY <1>0, <2>1 DEF Manifest, Key
  <2>3. given' = [given EXCEPT ![stored.key.sub] = stored.vers]
    BY <1>4, <2>1 DEF Reuse, Give
  <2>4. phase = "idle"
    BY <1>4 DEF Reuse, LockFree, OneScans
  <2>5. UNCHANGED <<fs, phase, sub, stored>>
    BY <1>4 DEF Reuse, vars, fsVars, scanVars
  <2>6. \A f \in Names : stored.vers[f] <= stored.vers[f]
    BY <2>2
  <2>7. \A f \in Names : stored.vers[f] <= fs[stored.key.sub][f].ver
    BY <2>1 DEF StoredIsOld
  <2> QED
    BY <1>0, <2>1, <2>2, <2>3, <2>4, <2>5, <2>6, <2>7 DEF GivenIsOld
<1>5. ASSUME NEW r \in Reqs, StartScan(r) PROVE GivenIsOld'
  <2>1. req[r] \in Request /\ req[r].key.sub \in Subs
    BY <1>0, <1>5 DEF StartScan, At, Request, Key
  <2>2. /\ UNCHANGED <<fs, stored, given>> /\ sub' = req[r].key.sub
        /\ scanFrom' = [f \in Names |-> fs[sub'][f].ver]
    BY <1>5 DEF StartScan, BeginScan, fsVars
  <2> QED
    BY <2>1, <2>2 DEF GivenIsOld
<1>6. ASSUME NEW r \in Reqs, FinishScan(r) PROVE GivenIsOld'
  <2>1. /\ req[r].key.sub = sub /\ phase = "hash" /\ phase' = "idle"
        /\ UNCHANGED <<fs, sub>> /\ stored' = Scanned(r)
    BY <1>6 DEF FinishScan, OneScans, EndScan, ForgetScan, fsVars
  <2>2. ASSUME NEW f \in Names
        PROVE  given[sub][f] <= seenVer[f] /\ seenVer[f] <= seenVer[f]
               /\ seenVer[f] <= fs[sub][f].ver
    <3>1. /\ given[sub][f] <= scanFrom[f] /\ scanFrom[f] <= seenVer[f]
          /\ seenVer[f] <= fs[sub][f].ver
      BY <2>1 DEF GivenIsOld, VisitedInOrder
    <3> QED
      BY <1>0, <3>1
  <2>3. given' = [given EXCEPT ![sub] = seenVer]
    BY <1>6, <2>1 DEF FinishScan, Give, Scanned
  <2>4. stored'.key.sub = sub /\ stored'.vers = seenVer
    BY <2>1 DEF Scanned
  <2> QED
    BY <1>0, <2>1, <2>2, <2>3, <2>4 DEF GivenIsOld
<1>7. ASSUME UNCHANGED <<fs, phase, sub, scanFrom, stored, given>> PROVE GivenIsOld'
  BY <1>7 DEF GivenIsOld
<1> QED
  BY <1>1, <1>2, <1>3, <1>4, <1>5, <1>6, <1>7
  DEF ServerAction, ServerNext, Handler, Arrive, ScanFails, Reply, HangUp, Cancel,
      vars, fsVars, scanVars, allVars, serverVars

\* A scan begun after a request sees all that the request found published.
LEMMA FoundIsOldStep ==
  ASSUME TreeFits, ServerTypes, ServerAction, OneScans, VisitedInOrder, FoundIsOld
  PROVE  FoundIsOld'
<1>0. /\ req \in [Reqs -> Request \cup {None}] /\ stored \in Manifest \cup {None}
      /\ scanFrom \in [Names -> Nat] /\ seenVer \in [Names -> Nat]
      /\ \A s \in Subs, f \in Names : fs[s][f].ver \in Nat
  BY ScanAssumption DEF ServerTypes, ServerTypeOK, TypeOK, File
<1>1. CASE Environment /\ UNCHANGED serverVars
  <2>1. UNCHANGED <<phase, sub, scanFrom>>
    BY <1>1, EnvironmentMoves DEF ServerTypes, ScanTypes, scanVars
  <2>2. ASSUME NEW r \in Reqs, req[r] # None, NEW f \in Names
        PROVE  req[r].floor[f] <= fs'[req[r].key.sub][f].ver
    <3>1. req[r].key.sub \in Subs /\ req[r].floor[f] \in Nat
      BY <1>0, <2>2 DEF Request, Key
    <3>2. /\ fs[req[r].key.sub][f].ver \in Nat /\ fs'[req[r].key.sub][f].ver \in Nat
          /\ fs[req[r].key.sub][f].ver <= fs'[req[r].key.sub][f].ver
      BY <1>1, <3>1, ContentsGrow DEF ServerTypes, ScanTypes
    <3>3. req[r].floor[f] <= fs[req[r].key.sub][f].ver
      BY <2>2 DEF FoundIsOld
    <3> QED
      BY <3>1, <3>2, <3>3
  <2> QED
    BY <1>1, <2>1, <2>2 DEF FoundIsOld, serverVars
<1>2. CASE ScanWork
  BY <1>2, ScanWorkKeeps DEF ServerTypes, ScanTypes, FoundIsOld
<1>3. CASE AgentCrash
  BY <1>3 DEF AgentCrash, FoundIsOld
<1>4. ASSUME NEW r \in Reqs, NEW k \in Key, Arrive(r, k) PROVE FoundIsOld'
  <2>1. req'[r] = Arrival(k) /\ \A q \in Reqs \ {r} : req'[q] = req[q]
    BY <1>0, <1>4 DEF Arrive, Arrival
  <2>2. UNCHANGED <<fs, phase, sub, scanFrom, stored>>
    BY <1>4 DEF Arrive, vars, fsVars, scanVars
  <2>3. \A f \in Names : fs[k.sub][f].ver \in Nat
    BY <1>0 DEF Key
  <2>4. ASSUME NEW f \in Names PROVE req'[r].floor[f] <= fs[req'[r].key.sub][f].ver
    <3>1. Arrival(k).key = k /\ Arrival(k).floor = [g \in Names |-> fs[k.sub][g].ver]
      BY ArrivalIsNew
    <3>2. Arrival(k).floor[f] = fs[k.sub][f].ver
      BY <3>1
    <3>3. fs[k.sub][f].ver \in Nat
      BY <2>3
    <3> QED
      BY <2>1, <3>1, <3>2, <3>3
  <2>5. (req'[r].quiet => phase = "idle") /\ ~req'[r].storedAfter
    BY <2>1, ArrivalIsNew
  <2>6. \A q \in Reqs \ {r} : req'[q] = req[q]
    BY <2>1
  <2> QED
    BY <2>2, <2>4, <2>5, <2>6 DEF FoundIsOld
<1>5. ASSUME NEW r \in Reqs, ScanFails(r) \/ Reply(r) PROVE FoundIsOld'
  <2>1. req' = [req EXCEPT ![r] = None] /\ UNCHANGED <<fs, phase, sub, scanFrom, stored>>
    BY <1>5 DEF ScanFails, Reply, vars, fsVars, scanVars
  <2> QED
    BY <1>0, <2>1 DEF FoundIsOld
<1>10. ASSUME NEW r \in Reqs, Reuse(r) PROVE FoundIsOld'
  <2>1. /\ req[r] \in Request /\ req[r].key.sub \in Subs /\ stored \in Manifest
        /\ req'[r] = Provided(r, stored) /\ \A q \in Reqs \ {r} : req'[q] = req[q]
        /\ UNCHANGED <<fs, phase, sub, scanFrom, stored>>
    BY <1>0, <1>10 DEF Reuse, Reusable, At, Request, Key, vars, fsVars, scanVars
  <2>2. req'[r] # None =>
          /\ req'[r].key = req[r].key /\ req'[r].floor = [f \in Names |-> 0]
          /\ ~req'[r].quiet
    BY <2>1, ProvidedIs
  <2> QED
    BY <1>0, <2>1, <2>2 DEF FoundIsOld
<1>6. ASSUME NEW r \in Reqs, StartScan(r) PROVE FoundIsOld'
  <2>1. req[r] \in Request /\ req[r] # None
    BY <1>0, <1>6 DEF StartScan, At
  <2>2. /\ UNCHANGED <<fs, stored>>
        /\ scanFrom' = [f \in Names |-> fs[sub'][f].ver]
    BY <1>6 DEF StartScan, BeginScan, fsVars
  <2>3. ASSUME NEW q \in Reqs, req'[q] # None
        PROVE  /\ req[q] # None /\ req'[q].floor = req[q].floor /\ req'[q].key = req[q].key
               /\ req'[q].quiet = req[q].quiet /\ req'[q].storedAfter = req[q].storedAfter
    BY <1>0, <1>6, <2>1, <2>3, StartScanChanges DEF Request
  <2> QED
    BY <2>2, <2>3 DEF FoundIsOld
<1>7. ASSUME NEW r \in Reqs, FinishScan(r) PROVE FoundIsOld'
  <2>1. /\ phase = "hash" /\ phase' = "idle" /\ UNCHANGED fs
        /\ stored' = Scanned(r) /\ req[r].key.sub = sub
    BY <1>7 DEF FinishScan, EndScan, ForgetScan, fsVars, OneScans
  <2>2. stored'.key.sub = sub /\ stored'.vers = seenVer
    BY <2>1 DEF Scanned
  <2>3. ASSUME NEW q \in Reqs \ {r}, req'[q] # None
        PROVE  /\ req[q] # None /\ req'[q].floor = req[q].floor /\ req'[q].key = req[q].key
               /\ req'[q].quiet = req[q].quiet
    <3>1. req[q] # None /\ req'[q] = [req[q] EXCEPT !.storedAfter = TRUE]
      BY <1>7, <2>3 DEF FinishScan, Left
    <3> QED
      BY <1>0, <3>1 DEF Request
  <2>5. req'[r] # None =>
          /\ req'[r].key = req[r].key /\ req'[r].floor = [f \in Names |-> 0]
          /\ ~req'[r].quiet /\ req[r].key.sub \in Subs
    <3>1. req[r] \in Request /\ Scanned(r) \in Manifest /\ req'[r] = Provided(r, Scanned(r))
      BY <1>0, <1>7, ScannedTyped DEF FinishScan, Left, At
    <3> QED
      BY <3>1, ProvidedIs DEF Request, Key
  <2>4. ASSUME NEW q \in Reqs, req[q] # None, req[q].quiet, req[q].key.sub = sub,
               NEW f \in Names
        PROVE  req[q].floor[f] <= seenVer[f]
    <3>1. req[q].floor[f] <= scanFrom[f] /\ scanFrom[f] <= seenVer[f]
      BY <2>1, <2>4 DEF FoundIsOld, VisitedInOrder
    <3>2. req[q].floor[f] \in Nat
      BY <1>0, <2>4 DEF Request
    <3> QED
      BY <1>0, <3>1, <3>2
  <2> QED
    BY <1>0, <2>1, <2>2, <2>3, <2>4, <2>5 DEF FoundIsOld
<1>8. ASSUME NEW r \in Reqs, HangUp(r) PROVE FoundIsOld'
  <2>1. UNCHANGED <<fs, phase, sub, scanFrom, stored>>
    BY <1>8 DEF HangUp, Cancel, vars, fsVars, scanVars
  <2>2. ASSUME NEW q \in Reqs, req'[q] # None
        PROVE  /\ req[q] # None /\ req'[q].floor = req[q].floor /\ req'[q].key = req[q].key
               /\ req'[q].quiet = req[q].quiet /\ req'[q].storedAfter = req[q].storedAfter
    BY <1>0, <1>8, <2>2, HangUpChanges DEF HangUp, At, Request
  <2> QED
    BY <2>1, <2>2 DEF FoundIsOld
<1>9. CASE UNCHANGED allVars
  BY <1>9 DEF allVars, serverVars, vars, fsVars, scanVars, FoundIsOld
<1> QED
  BY <1>1, <1>2, <1>3, <1>4, <1>5, <1>6, <1>7, <1>8, <1>9, <1>10
  DEF ServerAction, ServerNext, Handler

\* What had been given when a request came, stays below what is given later, the answer
\* to the request included.
LEMMA SeenIsOldStep ==
  ASSUME TreeFits, ServerTypes, ServerTypes', ServerAction, OneScans, VisitedInOrder,
         GivenIsOld, SeenIsOld
  PROVE  SeenIsOld'
<1> DEFINE Old(q) == \A f \in Names :
             /\ req'[q].seen[f] <= given'[req'[q].key.sub][f]
             /\ req'[q].at = "replying" => req'[q].seen[f] <= req'[q].vers[f]
<1>0. /\ req \in [Reqs -> Request \cup {None}] /\ req' \in [Reqs -> Request \cup {None}]
      /\ stored \in Manifest \cup {None}
      /\ given \in [Subs -> [Names -> Nat]] /\ given' \in [Subs -> [Names -> Nat]]
      /\ scanFrom \in [Names -> Nat] /\ seenVer \in [Names -> Nat] /\ sub \in Subs
  BY DEF ServerTypes, ServerTypeOK, TypeOK
<1>1. \A s \in Subs, f \in Names : given[s][f] <= given'[s][f]
  BY GivenGrows
<1>2. ASSUME NEW q \in Reqs, req[q] # None, req'[q] # None,
             req'[q].key = req[q].key, req'[q].seen = req[q].seen,
             req'[q].at = "replying" => req[q].at = "replying" /\ req'[q].vers = req[q].vers
      PROVE  Old(q)
  <2> SUFFICES ASSUME NEW f \in Names PROVE req[q].seen[f] <= given'[req[q].key.sub][f]
    BY <1>2 DEF SeenIsOld
  <2>1. req[q].key.sub \in Subs /\ req[q].seen[f] \in Nat
    BY <1>0, <1>2 DEF Request, Key
  <2>2. req[q].seen[f] <= given[req[q].key.sub][f]
    BY <1>2 DEF SeenIsOld
  <2>3. /\ given[req[q].key.sub][f] \in Nat /\ given'[req[q].key.sub][f] \in Nat
        /\ given[req[q].key.sub][f] <= given'[req[q].key.sub][f]
    BY <1>0, <1>1, <2>1
  <2> QED
    BY <2>1, <2>2, <2>3
<1>3. ASSUME NEW q \in Reqs, req[q] # None, req'[q] = req[q] PROVE Old(q)
  BY <1>2, <1>3
<1>4. ASSUME NEW r \in Reqs, NEW man \in Manifest, req[r] \in Request, req[r] # None,
             req'[r] = Provided(r, man), req'[r] # None, Give(r, man)
      PROVE  Old(r)
  <2>1. /\ req'[r].key = req[r].key /\ req'[r].seen = req[r].seen
        /\ req'[r].vers = man.vers /\ req[r].key.sub \in Subs /\ req[r].seen \in [Names -> Nat]
    BY <1>4, ProvidedIs DEF Request, Key
  <2>2. given'[req[r].key.sub] = man.vers /\ man.vers \in [Names -> Nat]
    BY <1>0, <1>4, <2>1 DEF Give, Manifest
  <2>3. ASSUME NEW f \in Names PROVE req[r].seen[f] <= man.vers[f]
    <3>1. req[r].seen[f] <= given[req[r].key.sub][f]
      BY <1>4 DEF SeenIsOld
    <3>2. given[req[r].key.sub][f] <= man.vers[f]
      BY <1>1, <2>1, <2>2
    <3>3. req[r].seen[f] \in Nat /\ given[req[r].key.sub][f] \in Nat /\ man.vers[f] \in Nat
      BY <1>0, <2>1, <2>2
    <3> QED
      BY <3>1, <3>2, <3>3
  <2> QED
    BY <2>1, <2>2, <2>3
<1> SUFFICES ASSUME NEW q \in Reqs, req'[q] # None PROVE Old(q)
  BY DEF SeenIsOld
<1>5. ASSUME UNCHANGED req PROVE Old(q)
  BY <1>3, <1>5
<1>6. ASSUME NEW r \in Reqs, NEW k \in Key, Arrive(r, k) PROVE Old(q)
  <2>1. req'[r] = Arrival(k) /\ \A p \in Reqs \ {r} : req'[p] = req[p]
    BY <1>0, <1>6 DEF Arrive, Arrival
  <2>2. UNCHANGED given /\ k.sub \in Subs
    BY <1>6 DEF Arrive, Key
  <2>3. CASE q = r
    <3>1. /\ Arrival(k).key = k /\ Arrival(k).seen = given[k.sub]
          /\ Arrival(k).at = "waiting"
      BY ArrivalIsNew
    <3>2. \A f \in Names : given[k.sub][f] \in Nat
      BY <1>0, <2>2
    <3>3. req'[q] = Arrival(k)
      BY <2>1, <2>3
    <3> QED
      BY <2>2, <3>1, <3>2, <3>3
  <2>4. CASE q # r
    BY <1>3, <2>1, <2>4
  <2> QED
    BY <2>3, <2>4
<1>7. ASSUME NEW r \in Reqs, ScanFails(r) \/ Reply(r) PROVE Old(q)
  <2>1. req' = [req EXCEPT ![r] = None]
    BY <1>7 DEF ScanFails, Reply
  <2> QED
    BY <1>0, <1>3, <2>1
<1>8. ASSUME NEW r \in Reqs, Reuse(r) PROVE Old(q)
  <2>1. /\ req[r] \in Request /\ req[r] # None /\ stored \in Manifest /\ Give(r, stored)
        /\ req'[r] = Provided(r, stored) /\ \A p \in Reqs \ {r} : req'[p] = req[p]
    BY <1>0, <1>8 DEF Reuse, Reusable, At
  <2> QED
    BY <1>3, <1>4, <2>1
<1>9. ASSUME NEW r \in Reqs, FinishScan(r) PROVE Old(q)
  <2>1. /\ req[r] \in Request /\ req[r] # None /\ Scanned(r) \in Manifest
        /\ Give(r, Scanned(r)) /\ req'[r] = Provided(r, Scanned(r))
    BY <1>0, <1>9, ScannedTyped DEF FinishScan, Left, At
  <2>2. CASE q = r
    BY <1>4, <2>1, <2>2
  <2>3. CASE q # r
    <3>1. req[q] # None /\ req[q] \in Request
          /\ req'[q] = [req[q] EXCEPT !.storedAfter = TRUE]
      BY <1>0, <1>9, <2>3 DEF FinishScan, Left
    <3>2. /\ req'[q].key = req[q].key /\ req'[q].seen = req[q].seen
          /\ req'[q].at = req[q].at /\ req'[q].vers = req[q].vers
      BY <3>1 DEF Request
    <3> QED
      BY <1>2, <3>1, <3>2
  <2> QED
    BY <2>2, <2>3
<1>10. ASSUME NEW r \in Reqs, StartScan(r) \/ HangUp(r) PROVE Old(q)
  <2>1. req[r] \in Request /\ req[r] # None
    BY <1>0, <1>10 DEF StartScan, HangUp, At
  <2>2. CASE q = r
    <3>1. req'[r] = [req[r] EXCEPT !.at = "scanning"] \/ req'[r] = [req[r] EXCEPT !.hungUp = TRUE]
      BY <1>0, <1>10, StartScanChanges, HangUpChanges
    <3>2. /\ req'[r].key = req[r].key /\ req'[r].seen = req[r].seen
          /\ req'[r].vers = req[r].vers
          /\ req'[r].at = "replying" => req[r].at = "replying"
      BY <2>1, <3>1 DEF Request
    <3> QED
      BY <1>2, <2>1, <2>2, <3>2
  <2>3. CASE q # r
    BY <1>0, <1>3, <1>10, <2>3, StartScanChanges, HangUpChanges
  <2> QED
    BY <2>2, <2>3
<1>11. AgentCrash => req'[q] = None
  BY DEF AgentCrash
<1> HIDE DEF Old
<1> QED
  BY <1>5, <1>6, <1>7, <1>8, <1>9, <1>10, <1>11, ScanWorkKeeps
  DEF ServerAction, ServerNext, Handler, ScanWork, serverVars, allVars

-----------------------------------------------------------------------------
(* The theorems.                                                           *)

LEMMA ServerInitInductive ==
  ASSUME ServerInit
  PROVE  WholeInductive /\ AgeInductive
<1>1. ScanInductive
  BY InitInductive DEF ServerInit
<1>2. \A s \in Subs, f \in Names : fs[s][f].ver = 0
  BY DEF ServerInit, Init, InitTree
<1>3. /\ step = [f \in Names |-> "done"] /\ list = [f \in Names |-> None] /\ phase = "idle"
      /\ req = [r \in Reqs |-> None] /\ stored = None
      /\ given = [s \in Subs |-> [f \in Names |-> 0]]
  BY DEF ServerInit, Init, InitScan
<1>4. ServerTypes
  BY <1>1, <1>3 DEF ScanInductive, ScanTypes, ServerTypes, ServerTypeOK
<1>5. OneScans /\ FoundIsOld /\ SeenIsOld
  BY <1>3 DEF OneScans, FoundIsOld, SeenIsOld, At
<1>6. VisitedInOrder /\ DoneHasDigest /\ StoredIsOld /\ StoredIsWhole
  BY <1>3 DEF VisitedInOrder, DoneHasDigest, StoredIsOld, StoredIsWhole
<1>7. GivenIsOld
  BY <1>2, <1>3 DEF GivenIsOld
<1> QED
  BY <1>1, <1>4, <1>5, <1>6, <1>7
  DEF ScanInductive, AnswerInductive, WholeInductive, AgeInductive

LEMMA AnswerStep ==
  ASSUME AnswerInductive, ServerAction
  PROVE  AnswerInductive'
<1>1. ScanTypes /\ ScanAction
  BY ServerIsScanAction DEF AnswerInductive, ServerTypes
<1> QED
  BY <1>1, ServerTypesStep, SeenInOrderStep, OneScansStep, VisitedInOrderStep, StoredIsOldStep
  DEF AnswerInductive

LEMMA WholeStep ==
  ASSUME WholeInductive, ServerAction
  PROVE  WholeInductive'
<1>1. ScanTypes /\ ScanAction
  BY ServerIsScanAction DEF WholeInductive, AnswerInductive, ServerTypes
<1> QED
  BY <1>1, AnswerStep, DoneHasDigestStep, StoredIsWholeStep
  DEF WholeInductive, AnswerInductive

LEMMA AgeStep ==
  ASSUME TreeFits, AgeInductive, ServerAction
  PROVE  AgeInductive'
<1>1. AnswerInductive'
  BY AnswerStep DEF AgeInductive
<1> QED
  BY <1>1, GivenIsOldStep, FoundIsOldStep, SeenIsOldStep DEF AgeInductive, AnswerInductive

LEMMA NextIsServerAction ==
  ASSUME [ServerNext]_allVars
  PROVE  ServerAction
  BY DEF ServerAction

\* Whoever scanned, and whatever key was asked for before, a request that wants digests
\* gets one for every file that could be read and is still as the walk saw it, unless the
\* scan was cut short (server.go:312, scan.go:301, docs/PROTOCOL.md:72).
THEOREM ServerAnswersWhole == ServerSpec => ServerInv
<1> DEFINE Whole(r, f) ==
      Answers(r) /\ stored'.whole /\ req[r].key.mode = "always" =>
        \/ stored'.list[f] = None
        \/ stored'.list[f].sum # NoSum
        \/ f \in stored'.unread
        \/ fs[req[r].key.sub][f].ver # stored'.vers[f]
<1>1. ServerInit => WholeInductive
  BY ServerInitInductive
<1>2. WholeInductive /\ [ServerNext]_allVars => WholeInductive'
  BY WholeStep, NextIsServerAction
<1>3. WholeInductive => ServerTypeOK
  BY DEF WholeInductive, AnswerInductive, ServerTypes
<1>4. WholeInductive /\ WholeInductive' => [\A r \in Reqs, f \in Names : Whole(r, f)]_allVars
  <2> SUFFICES ASSUME WholeInductive, WholeInductive', NEW r \in Reqs, NEW f \in Names
               PROVE  Whole(r, f)
    OBVIOUS
  <2>1. ASSUME Reuse(r) PROVE Whole(r, f)
    BY <2>1 DEF Reuse, Reusable, WholeInductive, StoredIsWhole
  <2>2. ASSUME FinishScan(r) PROVE Whole(r, f)
    <3>1. stored' = Scanned(r) /\ fs' = fs
      BY <2>2 DEF FinishScan, EndScan, fsVars
    <3>2. Scanned(r) \in Manifest
      BY <2>2, ScannedTyped DEF FinishScan, WholeInductive, AnswerInductive
    <3>3. stored'.key = req[r].key /\ stored' # None
      BY <3>1, <3>2, NoManifestAssumption DEF Scanned
    <3> QED
      BY <3>1, <3>3 DEF WholeInductive, StoredIsWhole
  <2> QED
    BY <2>1, <2>2 DEF Answers
<1> QED
  BY <1>1, <1>2, <1>3, <1>4, PTL DEF ServerSpec, ServerInv

\* What any answer showed that was made up before a request came, the answer to that
\* request does not take back, through shared scans, stored manifests, hash modes and
\* restarts, and in whatever order answers are written, if the tree fits into a manifest
\* (server.go:294, 338).
THEOREM ServerNeverGoesBack == ASSUME TreeFits PROVE ServerSpec => NeverGoesBack
<1>1. ServerInit => AgeInductive
  BY ServerInitInductive
<1>2. AgeInductive /\ [ServerNext]_allVars => AgeInductive'
  BY AgeStep, NextIsServerAction
<1>3. AgeInductive =>
        [\A r \in Reqs, f \in Names : Reply(r) => req[r].vers[f] >= req[r].seen[f]]_allVars
  <2> SUFFICES ASSUME AgeInductive, NEW r \in Reqs, NEW f \in Names, Reply(r)
               PROVE  req[r].vers[f] >= req[r].seen[f]
    OBVIOUS
  <2>1. req[r] # None /\ req[r].at = "replying"
    BY DEF Reply, At
  <2>2. req[r].seen[f] <= req[r].vers[f]
    BY <2>1 DEF AgeInductive, SeenIsOld
  <2>3. req[r].seen[f] \in Nat /\ req[r].vers[f] \in Nat
    BY <2>1 DEF AgeInductive, AnswerInductive, ServerTypes, ServerTypeOK, Request
  <2> QED
    BY <2>2, <2>3
<1> QED
  BY <1>1, <1>2, <1>3, PTL DEF ServerSpec, NeverGoesBack

\* A client that asks when no scan is running is shown what was published then, or
\* something later, or a manifest that is younger than manifest_ttl (server.go:300-305,
\* 313).
THEOREM ServerReplyIsRecent == ASSUME TreeFits PROVE ServerSpec => ReplyIsRecent
<1> DEFINE Recent(r) ==
      Answers(r) /\ req[r].quiet =>
        \/ \A f \in Names : stored'.vers[f] >= req[r].floor[f]
        \/ TTL > 0 /\ clock - stored'.at < TTL
<1>1. ServerInit => AgeInductive
  BY ServerInitInductive
<1>2. AgeInductive /\ [ServerNext]_allVars => AgeInductive'
  BY AgeStep, NextIsServerAction
<1>3. AgeInductive => [\A r \in Reqs : Recent(r)]_allVars
  <2> SUFFICES ASSUME AgeInductive, NEW r \in Reqs PROVE Recent(r)
    OBVIOUS
  <2>0. /\ req \in [Reqs -> Request \cup {None}] /\ stored \in Manifest \cup {None}
        /\ scanFrom \in [Names -> Nat] /\ seenVer \in [Names -> Nat]
    BY DEF AgeInductive, AnswerInductive, ServerTypes, ServerTypeOK, TypeOK
  <2>1. ASSUME Reuse(r), req[r].quiet, req[r].storedAfter, NEW f \in Names
        PROVE  stored'.vers[f] >= req[r].floor[f]
    <3>1. /\ req[r] # None /\ stored # None /\ stored.key = req[r].key /\ stored' = stored
      BY <2>1 DEF Reuse, Reusable, At
    <3>2. req[r].floor[f] <= stored.vers[f]
      BY <2>1, <3>1 DEF AgeInductive, FoundIsOld
    <3>3. req[r].floor[f] \in Nat /\ stored.vers[f] \in Nat
      BY <2>0, <3>1 DEF Request, Manifest
    <3> QED
      BY <3>1, <3>2, <3>3
  <2>2. ASSUME Reuse(r), ~req[r].storedAfter
        PROVE  TTL > 0 /\ clock - stored'.at < TTL
    BY <2>2 DEF Reuse, Reusable
  <2>3. ASSUME FinishScan(r), req[r].quiet, NEW f \in Names
        PROVE  stored'.vers[f] >= req[r].floor[f]
    <3>1. /\ req[r] # None /\ req[r].key.sub = sub /\ phase = "hash"
          /\ stored' = Scanned(r)
      BY <2>3 DEF FinishScan, EndScan, At, AgeInductive, AnswerInductive, OneScans
    <3>2. req[r].floor[f] <= scanFrom[f] /\ scanFrom[f] <= seenVer[f]
      BY <2>3, <3>1 DEF AgeInductive, AnswerInductive, FoundIsOld, VisitedInOrder
    <3>3. /\ req[r].floor[f] \in Nat /\ scanFrom[f] \in Nat /\ seenVer[f] \in Nat
      BY <2>0, <3>1 DEF Request
    <3>4. stored'.vers[f] = seenVer[f]
      BY <3>1 DEF Scanned
    <3> QED
      BY <3>2, <3>3, <3>4
  <2> QED
    BY <2>1, <2>2, <2>3 DEF Answers
<1> QED
  BY <1>1, <1>2, <1>3, PTL DEF ServerSpec, ReplyIsRecent
=============================================================================
