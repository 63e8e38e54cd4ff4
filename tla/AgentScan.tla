----------------------------- MODULE AgentScan ------------------------------
(***************************************************************************)
(* The agent's scanner and its digest cache (server/scan.go,               *)
(* server/hashcache.go), while other programs keep rewriting the published *)
(* tree.                                                                   *)
(*                                                                         *)
(* A scan stats every file of one sub path first and hashes them later, so *)
(* the tree moves between the two.  A digest may come from the cache,      *)
(* which believes that a file with the same size and modification time has *)
(* the same content.                                                       *)
(*                                                                         *)
(* The content of a file is the number of changes made to it so far: two   *)
(* writes never leave the same bytes, which is the hard case for a cache.  *)
(* `clock` is the coarse clock of the file system, in stamp ticks.         *)
(***************************************************************************)
EXTENDS Naturals, FiniteSets

CONSTANTS Subs,        \* sub paths that clients ask manifests of
          Modes,       \* hash modes that configuration and requests lead to
          Names,       \* file names, relative to the sub path
          Sizes,       \* file sizes
          HashMax,     \* hash_max_size_mb: mode "auto" hashes files up to this size
          UseCache,    \* hash_cache
          Grace,       \* hash_grace, in ticks
          MaxEntries,  \* manifest_max_entries
          Stamps,      \* how writers stamp: "fresh", "coarse" or "rewound"
          Flaky,       \* names that the agent may fail to read although they are there
          NoSum, Torn, \* no digest; the digest of a half-rewritten file
          None,        \* no entry, no cache row
          MaxChanges, MaxClock   \* bounds: changes per file, clock ticks

ASSUME ScanAssumption ==
    /\ Sizes \subseteq Nat /\ HashMax \in Nat /\ Grace \in Nat
    /\ MaxEntries \in Nat /\ MaxChanges \in Nat /\ MaxClock \in Nat
    /\ UseCache \in BOOLEAN
    /\ Stamps \in {"fresh", "coarse", "rewound"}
    /\ Flaky \subseteq Names
    /\ Modes \subseteq {"always", "auto", "never"}
    /\ NoSum \notin Nat /\ Torn \notin Nat /\ NoSum # Torn

Sums == Nat \cup {NoSum, Torn}
Row == [size : Sizes, mtime : Nat, sum : Sums]
CacheRow == [size : Sizes, mtime : Nat, sum : Sums \ {NoSum}]

ASSUME NoneAssumption == None \notin Row

VARIABLES
    fs,         \* the published tree: presence, content, size, stamp of each file
    clock,      \* the file system clock
    cache,      \* hashCache.entries, keyed by the path within the sub path
    disk,       \* the cache file
    phase,      \* "idle", "walk" or "hash"
    sub, mode,  \* what the current scan scans, and how it hashes
    cancelled,  \* the context of the request that scans is cancelled
    list,       \* the manifest entries found so far
    step,       \* how far the scan is with each name
    begun,      \* content that was there when SHA256File opened the file
    seenVer,    \* ghost: the content each name had when the walk visited it
    scanFrom,   \* ghost: the content each name had when the scan began
    unread      \* ghost: the files that SHA256File failed to read in this scan

fsVars == <<fs, clock>>
cacheVars == <<cache, disk>>
scanVars ==
    <<phase, sub, mode, cancelled, list, step, begun, seenVer, scanFrom, unread>>
vars == <<fsVars, cacheVars, scanVars>>

File == [there : BOOLEAN, ver : 0..MaxChanges, size : Sizes, mtime : 0..MaxClock]

TypeOK ==
    /\ fs \in [Subs -> [Names -> File]]
    /\ clock \in 0..MaxClock
    /\ cache \in [Names -> CacheRow \cup {None}]
    /\ disk \in [Names -> CacheRow \cup {None}]
    /\ phase \in {"idle", "walk", "hash"}
    /\ sub \in Subs /\ mode \in Modes
    /\ cancelled \in BOOLEAN
    /\ list \in [Names -> Row \cup {None}]
    /\ step \in [Names -> {"unvisited", "todo", "reading", "done"}]
    /\ begun \in [Names -> Nat]
    /\ seenVer \in [Names -> Nat]
    /\ scanFrom \in [Names -> Nat]
    /\ unread \subseteq Names

InitTree ==
    /\ \E n \in Sizes :
         fs = [s \in Subs |-> [f \in Names |->
                 [there |-> TRUE, ver |-> 0, size |-> n, mtime |-> 0]]]
    /\ clock = 0

InitScan ==
    /\ cache = [f \in Names |-> None]
    /\ disk = [f \in Names |-> None]
    /\ phase = "idle"
    /\ sub \in Subs
    /\ mode \in Modes
    /\ cancelled = FALSE
    /\ list = [f \in Names |-> None]
    /\ step = [f \in Names |-> "done"]
    /\ begun = [f \in Names |-> 0]
    /\ seenVer = [f \in Names |-> 0]
    /\ scanFrom = [f \in Names |-> 0]
    /\ unread = {}

Init == InitTree /\ InitScan

-----------------------------------------------------------------------------
(* Other programs on the agent's machine.                                  *)

\* The stamps a write may leave on a file that now carries `old`: a later
\* tick, the current tick, or (a tool that restores times) the old one.
NewStamps(old) ==
    CASE Stamps = "fresh"   -> {clock} \cap {t \in 0..clock : t > old}
      [] Stamps = "coarse"  -> {clock}
      [] Stamps = "rewound" -> {clock, old}

Write(s, f) ==
    /\ fs[s][f].ver < MaxChanges
    /\ \E n \in Sizes, t \in NewStamps(fs[s][f].mtime) :
         fs' = [fs EXCEPT ![s][f] =
                  [there |-> TRUE, ver |-> fs[s][f].ver + 1, size |-> n, mtime |-> t]]
    /\ UNCHANGED <<clock, cacheVars, scanVars>>

Delete(s, f) ==
    /\ fs[s][f].there
    /\ fs[s][f].ver < MaxChanges
    /\ fs' = [fs EXCEPT ![s][f] =
                 [there |-> FALSE, ver |-> fs[s][f].ver + 1,
                  size |-> fs[s][f].size, mtime |-> fs[s][f].mtime]]
    /\ UNCHANGED <<clock, cacheVars, scanVars>>

Tick ==
    /\ clock < MaxClock
    /\ clock' = clock + 1
    /\ UNCHANGED <<fs, cacheVars, scanVars>>

Environment == Tick \/ \E s \in Subs, f \in Names : Write(s, f) \/ Delete(s, f)

-----------------------------------------------------------------------------
(* The scan.                                                               *)

NeedHash(size) == mode = "always" \/ (mode = "auto" /\ size <= HashMax)

Listed == {f \in Names : list[f] # None}
Truncated == Cardinality(Listed) > MaxEntries

\* Scan starts over an empty list; `c` is the state of the request's context.
BeginScan(s, m, c) ==
    /\ phase = "idle"
    /\ phase' = "walk"
    /\ sub' = s
    /\ mode' = m
    /\ cancelled' = c
    /\ list' = [f \in Names |-> None]
    /\ step' = [f \in Names |-> "unvisited"]
    /\ seenVer' = [f \in Names |-> 0]
    /\ scanFrom' = [f \in Names |-> fs[s][f].ver]
    /\ unread' = {}
    /\ UNCHANGED <<fsVars, cacheVars, begun>>

\* WalkDir visits a name: a regular file becomes an entry, to be hashed or not.
Walk(f) ==
    /\ phase = "walk"
    /\ step[f] = "unvisited"
    /\ ~Truncated
    /\ seenVer' = [seenVer EXCEPT ![f] = fs[sub][f].ver]
    /\ IF fs[sub][f].there
       THEN /\ list' = [list EXCEPT ![f] = [size |-> fs[sub][f].size,
                                            mtime |-> fs[sub][f].mtime,
                                            sum |-> NoSum]]
            /\ step' = [step EXCEPT ![f] =
                          IF NeedHash(fs[sub][f].size) THEN "todo" ELSE "done"]
       ELSE /\ step' = [step EXCEPT ![f] = "done"]
            /\ UNCHANGED list
    /\ UNCHANGED <<fsVars, cacheVars, phase, sub, mode, cancelled, begun, scanFrom,
                   unread>>

\* "skipping unreadable entry": the walk goes on without it.
WalkSkips(f) ==
    /\ phase = "walk"
    /\ f \in Flaky
    /\ step[f] = "unvisited"
    /\ ~Truncated
    /\ seenVer' = [seenVer EXCEPT ![f] = fs[sub][f].ver]
    /\ step' = [step EXCEPT ![f] = "done"]
    /\ UNCHANGED <<fsVars, cacheVars, phase, sub, mode, cancelled, list, begun, scanFrom,
                   unread>>

\* The whole tree is visited, or SkipAll was returned at manifest_max_entries.
EndWalk ==
    /\ phase = "walk"
    /\ Truncated \/ \A f \in Names : step[f] # "unvisited"
    /\ phase' = "hash"
    /\ UNCHANGED <<fsVars, cacheVars, sub, mode, cancelled, list, step, begun,
                   seenVer, scanFrom, unread>>

-----------------------------------------------------------------------------
(* hashEntries: several workers, each takes one entry at a time.           *)

Quiet(f) == clock - list[f].mtime >= Grace /\ clock >= list[f].mtime

\* Mutation of Hit: only the size is compared.
HitBySize(f) ==
    /\ cache[f] # None
    /\ cache[f].size = list[f].size
    /\ cache[f].sum # NoSum

\* hashCache.get
Hit(f) ==
    /\ cache[f] # None
    /\ cache[f].size = list[f].size
    /\ cache[f].mtime = list[f].mtime
    /\ cache[f].sum # NoSum

FromCache(f) == UseCache /\ Quiet(f) /\ Hit(f)

\* A worker trusts the cached digest of a file that has been quiet.
HashCached(f) ==
    /\ phase = "hash"
    /\ step[f] = "todo"
    /\ ~cancelled
    /\ FromCache(f)
    /\ list' = [list EXCEPT ![f].sum = cache[f].sum]
    /\ step' = [step EXCEPT ![f] = "done"]
    /\ UNCHANGED <<fsVars, cacheVars, phase, sub, mode, cancelled, begun,
                   seenVer, scanFrom, unread>>

\* A worker opens the file; if it is gone the entry stays without a digest.
HashOpen(f) ==
    /\ phase = "hash"
    /\ step[f] = "todo"
    /\ ~cancelled
    /\ ~FromCache(f)
    /\ IF fs[sub][f].there
       THEN /\ begun' = [begun EXCEPT ![f] = fs[sub][f].ver]
            /\ step' = [step EXCEPT ![f] = "reading"]
       ELSE /\ step' = [step EXCEPT ![f] = "done"]
            /\ UNCHANGED begun
    /\ UNCHANGED <<fsVars, cacheVars, phase, sub, mode, cancelled, list, seenVer,
                   scanFrom, unread>>

\* What SHA256File may return for a file that changed while it was read.
ReadSums(f) ==
    IF fs[sub][f].ver = begun[f] THEN {begun[f]}
                                 ELSE {begun[f], fs[sub][f].ver, Torn}

\* Mutation of Put: the row carries the stamp the file has by now.
PutRestat(f, d) ==
    cache' = IF UseCache
             THEN [cache EXCEPT ![f] = [size |-> fs[sub][f].size,
                                        mtime |-> fs[sub][f].mtime, sum |-> d]]
             ELSE cache

\* hashCache.put
Put(f, d) ==
    cache' = IF UseCache
             THEN [cache EXCEPT ![f] = [size |-> list[f].size,
                                        mtime |-> list[f].mtime, sum |-> d]]
             ELSE cache

\* The worker has read the file: the digest goes to the entry and to the cache,
\* under the size and the stamp that the walk saw.
HashDone(f) ==
    /\ phase = "hash"
    /\ step[f] = "reading"
    /\ \E d \in ReadSums(f) :
         /\ list' = [list EXCEPT ![f].sum = d]
         /\ Put(f, d)
    /\ step' = [step EXCEPT ![f] = "done"]
    /\ begun' = [begun EXCEPT ![f] = 0]
    /\ UNCHANGED <<fsVars, disk, phase, sub, mode, cancelled, seenVer, scanFrom, unread>>

\* "hashing failed": SHA256File cannot open or read a file that is there (no permission,
\* a sharing violation, a read error), and its entry stays without a digest.
HashFails(f) ==
    /\ phase = "hash"
    /\ f \in Flaky
    /\ \/ step[f] = "todo" /\ ~cancelled /\ ~FromCache(f)
       \/ step[f] = "reading"
    /\ step' = [step EXCEPT ![f] = "done"]
    /\ begun' = [begun EXCEPT ![f] = 0]
    /\ unread' = unread \cup {f}
    /\ UNCHANGED <<fsVars, cacheVars, phase, sub, mode, cancelled, list, seenVer,
                   scanFrom>>

\* The scan's own data are gone with it.
ForgetScan ==
    /\ phase' = "idle"
    /\ cancelled' = FALSE
    /\ list' = [f \in Names |-> None]
    /\ step' = [f \in Names |-> "done"]
    /\ begun' = [f \in Names |-> 0]
    /\ seenVer' = [f \in Names |-> 0]
    /\ scanFrom' = [f \in Names |-> 0]
    /\ unread' = {}
    /\ UNCHANGED <<sub, mode>>

\* hashCache.prune(seen) and save; saving may fail, which is only logged.
EndScan ==
    /\ phase = "hash"
    /\ \A f \in Names : step[f] # "reading"
    /\ cancelled \/ \A f \in Names : step[f] # "todo"
    /\ cache' = [f \in Names |-> IF f \in Listed THEN cache[f] ELSE None]
    /\ disk' \in {disk, cache'}
    /\ ForgetScan
    /\ UNCHANGED fsVars

\* The client of the request that scans hangs up: its context is cancelled, the
\* workers stop taking entries, and the scan still ends without an error.
Cancel ==
    /\ phase # "idle"
    /\ ~cancelled
    /\ cancelled' = TRUE
    /\ UNCHANGED <<fsVars, cacheVars, phase, sub, mode, list, step, begun, seenVer,
                   scanFrom, unread>>

\* The agent dies; a new one starts from the cache file.
Restart ==
    /\ cache' = disk
    /\ ForgetScan
    /\ UNCHANGED <<fsVars, disk>>

ScanStep ==
    \/ EndWalk \/ EndScan
    \/ \E f \in Names : \/ Walk(f) \/ WalkSkips(f)
                        \/ HashCached(f) \/ HashOpen(f) \/ HashDone(f) \/ HashFails(f)

Next ==
    \/ Environment
    \/ \E s \in Subs, m \in Modes : BeginScan(s, m, FALSE)
    \/ ScanStep
    \/ Cancel
    \/ Restart

Spec == Init /\ [][Next]_vars

-----------------------------------------------------------------------------
(* Properties.                                                             *)

Matches(row, file) ==
    row # None /\ file.there /\ row.size = file.size /\ row.mtime = file.mtime

\* A row of the digest cache, or of its file, that matches a published file by
\* size and stamp carries that file's digest (hashcache.go:60).
CacheSound ==
    \A s \in Subs, f \in Names :
        /\ Matches(cache[f], fs[s][f]) => cache[f].sum = fs[s][f].ver
        /\ Matches(disk[f], fs[s][f]) => disk[f].sum = fs[s][f].ver

\* Cache rows in memory and on the disk are sound, and everything keeps its type.
ScanInv == TypeOK /\ CacheSound

\* A digest in a manifest is of a content the file had during the scan, never
\* of an older one: rewritten files are always noticed.
DigestHonest ==
    \A f \in Names :
        list[f] # None /\ list[f].sum \in Nat => list[f].sum >= scanFrom[f]

\* A scan ends with the right digest or none for every entry whose content did
\* not change while it ran.
StableDigestExact ==
    [][EndScan =>
         \A f \in Names : list[f] # None /\ fs[sub][f].ver = scanFrom[f]
                            => list[f].sum \in {scanFrom[f], NoSum}]_vars
=============================================================================
