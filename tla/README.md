# TideSync in TLA+

TideSync publishes a directory with an *agent* (`tidesync serve`) and mirrors
it with *clients* (`tidesync sync`) that pull over HTTP: a manifest, then the
files that differ, then, in mirror mode, deletions. These modules model the
parts in which processes, threads, files and the network interleave; TLC
checks them on small instances, and TLAPS proves their safety properties for
every instance: each invariant and each action property that a run below checks
has a theorem. What is left to TLC alone is liveness. Paths below are relative
to the repository.

    tlc -workers 2 -config JobLock_runs.cfg MCJobLock     # one run
    tlapm JobLockProofs.tla                               # the proofs

`PROJECT.json` lists components, runs, the mutants that show that each
property can fail, the lines each definition stands for, the hazards and the
theorems.

## 1. The system

| Component | Code | State | Operations |
|---|---|---|---|
| Job lock | `internal/client/lock.go`, `cmd_sync.go` | a lock file and its modification time | AcquireLock, heartbeat, Release; a run is wrapped in them |
| Sync run | `internal/client/sync.go`, `plan.go` | plan of the run, result, the destination tree | buildPlan/decide, adopt, bulk or pool, removeExtras |
| Sync journal | `internal/client/state.go` | a row (size, stamp, digest) per file, in memory and on disk | LoadState, Get, Set, Drop, Prune, Save |
| File transfer | `internal/client/remote.go` | staging file, attempt | DownloadTo, withRetry, transferOnce |
| Archive transfer | `server.go` handleArchive, `remote.go` OpenArchive, `sync.go` bulkTransfer | tar stream, members installed | stream, unpack, verify, fall back |
| Agent scanner | `internal/server/scan.go` | manifest under construction | walk, then hash with workers |
| Digest cache | `internal/server/hashcache.go` | size, stamp and digest per relative path, in memory and on disk | get, put, prune, save, load |
| Manifest endpoint | `server.go` handleManifest, manifestFor | one stored manifest, one scan lock | reuse, scan, store |
| File endpoint | `server.go` handleFile | none | whole and ranged answers |
| Transfer slots | `server.go` acquire | a channel of `max_concurrent` tokens | acquire with a wait of 30 s, release |
| File system helpers | `internal/fsx/fsx.go` | staging names, the destination's directories | TempPath, Replace, RemoveEmptyDirs |
| Scheduler | `cmd_sync.go`, `config.go` | next run time | runDaemon, nextRun, ScheduleSeconds |
| Paths and rules | `internal/proto` | compiled patterns | CleanRel, Resolve, Matcher |
| Logging | `internal/logx/logx.go` | open file, size, generations on disk | Write, rotate, open, Close |
| Service | `internal/service`, `cmd_service.go` | SERVICE_STATUS record, context of the job | serviceMain, control handler, signals; install and so on |
| Configuration, command line, scripts | `internal/config`, `cmd_*.go`, `scripts/` | none that lasts | defaults, validation, templates, diagnostics |

How they interact. `runLocked` takes the job lock, `RunOnce` asks the
manifest endpoint (which scans, or shares another request's scan), compares it
with the destination and the journal, and transfers files one by one or over
the archive; both pass through the transfer slots. The agent's digests come
from the cache. The journal is written when the run ends. Nothing but the
tree itself connects the publisher's programs with the agent, and nothing but
the destination connects local users with the client. A daemon, a run by hand
and the service may share one log file, and two jobs may share a stretch of
the disk; each does so without knowing of the other.

What is hard, and what makes each part correct:

- **Lock**: create, stat and remove are separate system calls between
  processes; heartbeats race the staleness test; owners die. Two runs of one
  job must not overlap, and a dead run's lock must not stay.
- **Run and journal**: a row vouches for content without reading it; it must
  never do so wrongly, whatever edits, cancellations and deaths came between.
  A deletion must follow an absence at the agent. A run that reports `ok`
  must be complete, and runs must converge and then stop transferring.
- **Transfer**: a range may continue a file that has been replaced; a broken
  body must be resumed without a lost or doubled block; attempts must end.
- **Archive**: sizes in the tar come from one walk, contents from later reads,
  checks from another manifest; the stream looks whole however it ended.
- **Scanner and cache**: stat and hash are two reads of a moving file; a
  cached digest must never be served for other content.
- **Manifest endpoint**: a shared manifest must not be older than what a
  client was entitled to, made for another key, or older than one made up
  before its request came; nobody may wait for ever for a client that does not
  read.
- **Slots**: every path of a handler gives back what it took, also when its
  client has gone; a client that stays and does not read keeps its slot, and
  must not keep others waiting.
- **Tree**: directories, links and files take each other's place; the sweep of
  empty directories of one job meets downloads of another. Nothing may go that
  a rule keeps, and a run that reports `ok` must have put its files in place.
- **Rules**: the agent's walk skips whole directories, the plan asks entry by
  entry; the two must agree.
- **Log**: each process counts only its own bytes and renames files under the
  others' open descriptors. Lines must stay in order and be kept.
- **Scheduler and service**: days are not always 24 hours; a stop may come at
  any moment, while another thread reports a status.

## 2. The modules

| Module | Models | Correspondence |
|---|---|---|
| `JobMutex` | what the lock promises | runs enter and leave; the promise ends with the first death |
| `JobLock` | `lock.go`, its callers | one action per system call; `owner`/`age` are the lock file, `timer` the time since the holder's last touch |
| `JobLockProofs` | theorems about `JobLock` | section 5 |
| `AgentScan` | scanner and digest cache | `Walk` stats a name, `HashOpen` opens it or takes the cache's word, `HashDone` finishes reading and fills the cache, `HashFails` meets a file that is there and cannot be read, `EndScan` prunes and saves; `Environment` rewrites the tree |
| `ManifestServer` | handleManifest, manifestFor | extends `AgentScan`: a request waits for the scan lock, reuses the stored manifest or scans with its own context; the lock is free as soon as manifestFor has returned (`Give`), the answer is written later (`Reply`) |
| `AgentProofs` | theorems about `AgentScan` and `ManifestServer` | section 5 |
| `Transfer` | one download | `Start`, headers, blocks, retries, `Install`; the agent's file handler answers whole, from an offset, that there is no such file (`RequestRefused`) or that it will not hand it out (`RequestDenied`) |
| `TransferProofs` | theorems about `Transfer` | section 5 |
| `Slots` | acquire and its release | a counter and the queue of blocked requests |
| `Archive` | handleArchive, bulkTransfer, writeFromArchive, downloadAll for the rest | extends `Slots`; `tar` is the handler's loop and tar writer, `wire` the connection, `member` the tar reader; `OpenFails` and `CopyFails` are the agent's failures with a file that is there, `Denied` its 403 and 400 |
| `ArchiveProofs` | theorems about `Slots` and `Archive` | section 5 |
| `SyncRun` | RunOnce, plan, journal, pool, mirror delete, daemon | one action per step of RunOnce and per file; a transfer is one step, opened up by `Transfer` and `Archive` |
| `SyncRunProofs` | theorems about `SyncRun` | section 5 |
| `ExcludeRules` | `match.go` | `matchSegments` as a function of the pattern's index, whose value is where the rest of the path may begin; `Fits` is what a pattern means; `Match` is the last rule that matches |
| `Tree` | the shape of a destination: buildPlan, makeSymlink, download, removeExtras, RemoveEmptyDirs | extends `ExcludeRules`; one action per entry of a run's plan, per system call of a download where another job may come between, and per directory of a sweep; `staged` is a living staging file, `debris` a dead one; an `Alias` is a link to a file with the very content published at its path, which `os.Stat` cannot tell from that file; `Cancel` is SIGTERM |
| `TreeProofs` | theorems about `ExcludeRules` and `Tree` | section 5 |
| `LogRotate` | RotatingWriter | one action per call of Open, Rename and Write; files are numbered by age, `name` says which one a path stands for; `under` and `crossed` count the rotations of others that an open file has lived through |
| `LogRotateProofs` | theorems about `LogRotate` | section 5 |
| `Daemon` | runDaemon, nextRun, ScheduleSeconds | time in units; a calendar is the sequence of the midnights, with days that are a unit short or long; `Arm` sets the timer to what nextRun returns, a run is a stretch of time |
| `ServiceRun` | `service run` on Windows and in the foreground | extends `Daemon`; setStatus is two steps of a thread, one that fills in the shared record and one that hands it over |
| `ServiceRunProofs` | theorems about `Daemon` and `ServiceRun` | section 5 |
| `MC*` | small instances | model values and small sets |

Abstractions. Content is a version number, a model value or a sequence of
blocks, and a SHA-256 digest is the content itself. Stamps and times are
integers on one clock per model. A network fault is any end of a request
before its answer is complete. Names of files are opaque but in `Tree` and
`ExcludeRules`, where a path is a sequence of names and a glob the set of names
it matches. `SyncRun` tells the contents of files apart, `Tree` their kinds and
places; the two look at the same run from two sides.

Mutants. Beside some definitions stands an altered form of them, marked
as a mutation: a dropped guard, a wrong comparison, a forgotten release. None
is used by a specification; each is what a plausible slip in that code would
look like, and the property named for it in `PROJECT.json` finds it.

## 3. The runs

| Run | Question | Result |
|---|---|---|
| `JobLock_runs` | Two daemons and a manual run, two deaths: do runs overlap before a death, are only dead processes' locks taken over, does the lock implement `JobMutex`, does the job go on? | holds |
| `JobLock_takeover` | Do two runs never overlap, as `lock.go:12` says? | violated |
| `AgentScan_scans` | Are cache rows and manifest digests right while the tree is rewritten, in every hash mode, over cancelled scans and restarts? | holds |
| `AgentScan_subs` | The same with two published sub paths that share one cache | violated |
| `ManifestServer_burst` | Are shared manifests recent, complete, never older than one made up before, and does every request get its turn, with files that cannot be read and clients that hang up or do not read? | holds |
| `Transfer_file` | Is what is installed what was planned, and does a download end? | holds |
| `Archive_cold` | Does an archive over a moving tree, with a file that cannot be opened, drop nothing else, install nothing wrong, and give its slot back, while another client may read or not? | holds |
| `SyncRun_pool` | Two files and two workers, one file that the agent sometimes cannot read, SIGTERM and a death: journal, mirror delete, `ok` | holds |
| `SyncRun_years` | Long sequences of runs, edits in the middle of them, digests now and then: convergence, no transfer afterwards | holds |
| `Tree_nested` | A mirror of a whole tree that leaves out a directory, and a job whose destination is that directory: where may staging files be, what may be deleted, what does `ok` mean, do both get their shape, over a SIGTERM or a death? | holds |
| `LogRotate_shared` | Three processes share a log, so that two rotate it while the third holds its file, on systems that do and do not rename open files, with a failed call and a restart: order, lost lines, sizes | holds |
| `Service_calendar` | Every schedule over days of any length, stops at any moment: does the daemon wake at its slots, is a stop carried out? | holds |

Some properties gather what one question asks of a module, its types among it:
`LockInv`, `ScanInv`, `ServerInv`, `TransferInv`, `ArchiveInv`, `SyncInv`,
`TreeInv`, `LogInv`, `Punctual`. `MCTree` also evaluates two facts about its
rules: `MatcherMeansItsRules`, that the matcher agrees with what `match.go` says
a pattern means, for all patterns and paths of up to three segments, and
`RulesKeepApart`, that the two jobs satisfy what the theorems about `Tree` assume.

The violated ones are disagreements between what the repository says and what
it does:

- **Takeover** (`lock.go:65`). Stat and remove are two steps. After a death
  two contenders both see the stale lock; the second removes the lock the
  first has just created. `ExclusiveUntilDeath`, `TakeoverOnlyOfOrphans` and
  the refinement of `JobMutex` state what is left: no overlap before a death.
- **Shared cache** (`scan.go:296`). The cache is keyed by the path within the
  scanned sub path, so two published directories share rows.

### Bounds, and why they are enough

Where section 5 has a theorem, the property holds for every value of these
constants; the bounds matter to the liveness properties and to what is only
model-checked.

- `JobLock`: three processes are needed for a holder and two contenders;
  `Stale = Late = 2` ticks with a beat every tick puts a heartbeat exactly at
  the limit; ages saturate one tick past it, where the code makes no
  difference. Two deaths let a takeover fail and be repeated.
- `AgentScan`: two names so that a walk moves on while a file changes, and
  `manifest_max_entries` of one so that it is hit; contents are change
  counters, so any two differ; one change per file and two clock ticks are the
  least that put a change on either side of each of the scan's two reads.
- `ManifestServer`: two requests and two keys, one file, one change, a
  `manifest_ttl` of one tick: one request scans, another arrives before, during
  or after it, or while the answer to the first is being written. The file may
  be unreadable whenever it is hashed.
- `Transfer`: versions of one and three blocks (a resume strictly inside a
  file), three attempts, one republication, one dead client's staging file.
- `Archive`: two files, so that a stream can break before, in and after one;
  contents that are equal in size, longer and shorter; one slot, so that
  archive, pool, deserted handlers and another client contend for it; one change
  and one failure at any point, an entry that cannot be opened or is denied
  among them; one tar item in flight, so that the handler blocks on its client;
  another client comes before this one, and reads or does not. 1.3 million states.
- `SyncRun`: two files and two workers for the pool, one of them unreadable to
  the agent whenever it likes; one file over more events for the long runs.
  Contents `c1` and `c2` have one size, `c3` is larger than `max_file_size_mb`.
  Gaps of one and two seconds lie on either side of the two second tolerance
  (in `SyncRun_pool`; the long runs keep the agent's changes two seconds apart).
  Each kind of event happens once or twice, at any point.
- `Tree`: a file, a directory and a link in each other's place need two levels;
  `x` and `x/y` are seen by one job, `b` is excluded by it and the base of the
  other, `b/y` is the other's. One change of what is published, one failed
  call, and one death or cancelled run, at any point; the disk starts with each
  kind of entry in the way of another, and with a link to equal content where
  the agent has a file. 0.8 million states.
- `LogRotate`: two generations beside the log, so that the loop shifts one and
  drops one; three processes, so that two rotations cross over the open file of a
  third; a line fills a file, so that every process but the one that finds an empty
  one has to rotate, and four lines take an open file past the last generation. Smaller
  and larger lines are left to the theorems.
- `Service`: four units make a day, so that slots fall on its first, last and
  inner units; all schedules of up to two slots; one of the first three days is
  a unit longer or shorter, and the daemon starts anywhere on the first. Three
  days pass.

`Archive_cold`, `LogRotate_shared` and `Service_calendar` run without deadlock
checking: a run of the client ends, the last line is written, the service has
stopped, and nothing follows.

### Fairness

- `JobLock`: system calls return, runs end, a daemon's timer fires again, time
  passes. Nobody has to die.
- `ManifestServer`: the scan goes on (WF), and a waiting handler gets the lock
  in the end (SF): Go's `sync.Mutex` hands over to a waiter that has waited
  1 ms. Nothing is assumed of `Reply`: the agent sets no write timeout
  (`server.go:101-106`), and a client reads its answer when it likes.
- `Transfer`: the client's steps and the end of a request without an answer
  (ResponseHeaderTimeout) are the code's; that a body goes on or breaks
  (`WF_vars(Body)`) is the network's, since a body has no deadline
  (`remote.go:91`). It is a separate conjunct for that reason.
- `Archive`: this client's handlers, those it has deserted (their next write
  fails) and its own loop go on, and a request does not wait for a slot for ever
  (30 s). Nothing is assumed of another client that holds a slot (`RivalReads`).
  The system has no cycles, so weak fairness of the disjunctions is enough.
  This client reads what the archive sends; as in `Transfer`, a connection that
  stalls without breaking is left out.
- `SyncRun`: runs follow each other and take their steps; a download or
  deletion that is tried in run after run succeeds in the end (SF): without
  it nothing could converge. Edits, signals and deaths are never required.
- `Tree`: each job's daemon goes on (WF of its steps); failures are bounded, so
  no more is needed.
- `ServiceRun`: threads and goroutines are scheduled (WF); `select` chooses at
  random among ready cases, so it does not pass over a context that is done for
  ever (SF of `StopWaiting`). No control and no signal has to come.

## 4. What the properties say

Each property is stated in words above its definition. The ones that carry
the most:

- `LockInv`, `TakeoverOnlyOfOrphans`, `ImplementsMutex` (lock).
- `ScanInv`, `DigestHonest`, `StableDigestExact` (scanner): a digest never
  describes content older than the scan, although stat and hash are separate.
  They rest on writers leaving later stamps (`Stamps = "fresh"`).
- `ReplyIsRecent`, `NeverGoesBack`, `ServerInv`, `EveryRequestAnswered` (manifest
  endpoint): answers are written one by one after the lock is released, so what
  is compared is what an answer shows with what had been made up when its
  request came.
- `InstallsWhatWasPlanned`, `TornNeedsChange`, `RetriesAbsorbFaults` (transfer).
- `NothingForgotten`, `InstalledAsPlanned`, `QuietArchiveIsWhole`, `SlotsReturn`
  (archive and slots): the archive is an optimisation and never a correctness
  dependency (`docs/PROTOCOL.md:123`).
- `SyncInv`, `DeletesOnlyUnpublished`, `OkMeansComplete`,
  `NoRedundantTransfer`, `EventuallyMirrored` (runs).
- `TreeInv`, `DeletionsJustified`, `OkMeansInstalled`, `EventuallyInShape`
  (tree). `TreeInv` ties two walks together: downloads are planned entry by
  entry, and the search for what dead processes have left goes by directories,
  so that a download into a directory that the search skips would leave a
  staging file for ever. `EventuallyInShape` says that none stays.
- `LogInv`, `LogKept`, `SizesBounded` (log).
- `Punctual`, `NoWayBack`, `StopIsCarriedOut` (scheduler and service).

### Behaviour met on the way

Read in the code, or shown by TLC, while modelling. The properties above are
stated so as to hold with it, and name what they set aside.

Scans, transfers and runs:

- What the walk cannot read is missing from the manifest (`scan.go:97`), and
  mirror mode deletes by absence (`sync.go:586`): `DeletesOnlyUnpublished`
  excepts `Flaky` files.
- A local edit between the comparison and the realignment of a stamp gets the
  agent's stamp, and a journal row that vouches for it (`sync.go:219-230`,
  `plan.go:170-174`); it is not noticed again until either end changes
  (`README.md:473` says damaged local files are repaired): `Masked`, which `NoRedundantTransfer` and `EventuallyMirrored` set aside.
- `ErrLocked` is returned for a dead holder's lock until it is stale
  (`lock.go:28-30` speaks of a live process).
- A scan whose client hung up ends early and is stored and shared without
  digests (`server.go:338`; `docs/PROTOCOL.md:72` says `hash=1` forces them).
  `ServerInv` speaks of whole scans for that reason.
- A file that is there and cannot be read (no permission, a sharing violation, a
  read error) is listed without a digest (`scan.go:301-307`), even with
  `hash=1`; the archive leaves it out without a word (`server.go:480-484`), and
  a download of it is answered with 403 or 400 and not tried again
  (`server.go:370-386`, `remote.go:165-171`). `ServerInv` excepts the files in
  `unread`, `QuietArchiveIsWhole` those in `unopened`; `RetriesAbsorbFaults` and
  `NothingForgotten` count a denial as trouble.
- An archive that the agent cannot read on ends in the middle and is closed as if
  it were whole (`server.go:496-503`): `CopyFails`.
- The manifest is written to the client after `scanMu` has been released
  (`server.go:311`, `server.go:294`), so that answers to requests that were under
  way together may reach their clients in either order, and one client may be
  shown an older state than another has been shown meanwhile. `NeverGoesBack`
  compares an answer with what had been handed to handlers when its request came.
- The agent sets no write timeout (`server.go:101-106`): a client that stops
  reading keeps its handler, and with a file or an archive its transfer slot,
  for as long as its connection lasts. `SlotsReturn` and `EveryRequestAnswered`
  say that nobody else is kept waiting for ever, and no other slot is lost.
- A request that arrives during another's scan may be answered with content
  older than its arrival (`server.go:302`, `docs/PROTOCOL.md:102`).
  `ReplyIsRecent` speaks of requests that find no scan running.
- With coarse or rewound stamps the cache serves old digests, also with
  `hash_mode: always` (`scan.go:295`, `README.md:329`).
- Without a digest, a file that is republished with the same size during a
  resumed download, or while the archive streams it, may be installed torn
  (`README.md:314`); the next manifest's stamp repairs it.
- A run that was cancelled leaves its queue (`sync.go:353-357`) and is recorded as
  `ok` (`sync.go:283`). `OkMeansComplete` and `OkMeansInstalled` leave it out.
- `full_scan_every` sets a flag that nothing reads (`sync.go:165-168`,
  `config.go:121`).
- A checksum mismatch waits `retry_backoff` before it is retried
  (`remote.go:208-210`, `docs/PROTOCOL.md:141` says immediately).

Directories, links and rules (`Tree`, `ExcludeRules`):

- RemoveEmptyDirs removes staging files of any age, those of a living transfer
  of another job too (`fsx.go:195`; `README.md:317` says files in transfer are
  not touched). That download fails, and the next run repeats it. It also
  removes empty directories that a rule excludes or that were never published.
- `decide` looks at the destination with `os.Stat` (`plan.go:137`), which follows
  links: a local link to a file with the listed size and digest or stamp is
  skipped in every run and never becomes a file. `OkMeansInstalled` and
  `EventuallyInShape` allow it (`UpToDate`); it is replaced once the content differs.
- `ok` does not promise directories: one that cannot be made is only a warning
  in the log.
- A file where the agent has a directory is never replaced (`sync.go:393`), and
  a directory with nothing but empty directories, or with a link, stays where
  the agent has a file: only files are extras, and the sweep runs only after a
  deletion. `Obstructed` lists these shapes.
- makeSymlink removes the local file before it creates the link; if that fails
  the path is empty until the next run. Links are never deleted as extras.
- A leading `/` is dropped before a pattern is looked at for slashes, so `/a`
  is not anchored although `match.go:17` says that a pattern with `/` is.
- A `!` rule cannot take back what is below a pruned directory in the agent's
  walk and the search for extras, while the plan, which asks per entry, would.
  With such a rule of the client alone, downloads are staged where no search for
  staging files comes; `TreeInv` is checked and proved for rules without.

Log (`LogRotate`):

- Of two processes that rotate at once, one may rename a younger file onto the
  one the other has just moved: a generation is dropped early, and a third
  process that has it open goes on writing to a file without a name, after two
  rotations, however many generations are kept. `HeldLogKept` sets aside the
  writers this may have happened to (`crossed`).
- Where an open file cannot be renamed (Windows, the other process), every
  rotation fails and drops one more of the older generations, while the log
  grows.
- If the log cannot be reopened after a rotation the line in hand is lost,
  though `logx.go:132` says that never happens; `LogInv` allows one line for
  each failed call. A write to an open log that fails (`logx.go:136`) is not
  modelled.

Schedule and service (`Daemon`, `ServiceRun`):

- `nextRun` adds 24 hours for a day (`cmd_sync.go:265`). A daemon that goes to
  sleep in the last hour before a short day skips the slots of that day; one
  that does so in the first hour of a long day may wake at no slot. `Punctual`
  names the two cases.
- Slots are midnight plus a duration, so on the day of a clock change they are
  an hour off by the clock on the wall (`config.go:110`). A unit of the model is
  that shift, so it does not tell slots within one apart. Jitter has no effect
  with a schedule.
- When the job ends on its own while a stop is delivered, the record of one
  thread may go out as the other has filled it in, and the service controller
  may never read that the service has stopped (`service_windows.go:127`):
  `StopIsCarriedOut` excepts a job that failed. The exit code is always 0.
- Two users, or a user without a home, get different state directories and
  with them different lock files for one job.

## 5. The proofs

Eight modules of proofs; `tlapm` checks every leaf. Each theorem holds for all
values of the constants that satisfy the named assumption of its module
(`RunAssumption` and its like say what a configuration is) and what the theorem
itself assumes, which is said below. TLC finds the assumptions of the modules
true in every run.

### The job lock

`JobLockProofs` proves, for any set of processes, any number of deaths and any
`Stale`, `BeatEvery` and `Late`:

1. `TypeCorrect` — `Spec => []TypeOK`.
2. `AliveIsFresh` — a lock file whose creator lives belongs to a run that goes
   on, and is no older than that run's last heartbeat. It is inductive given
   the types, whoever dies.
3. `TakeoverSafe` — if `Late <= Stale`, a contender decides on a takeover only
   when the creator is dead: a file found older than `Stale` cannot be fresh,
   and by 2 has no living creator.
4. `LockInvariant`, `Exclusion` — if `Late <= Stale`, no overlap before the
   first death. Mutual exclusion alone is not inductive: nothing in it says
   that a holder's file is its own, so a Release might remove another's lock,
   or that no contender stands between stat and remove. `LockInv` adds
   `FreshWhileAlive`, `HolderOwnsFile` and `NoTakeover`; `LockInvStep` shows it
   preserved action by action.
5. `Refinement` — `Spec => ImplementsMutex`: the file lock implements
   `JobMutex` with the set of holders as its state.

`Late <= Stale` is the assumption that a live process touches its lock at
least once in `staleAfter`. The code beats every third of it; a suspended
machine may break it.

### The scanner and its cache

`AgentProofs` has two parts. Of scans, for any tree, hash mode, number of
changes and ticks:

- `ScanTypeCorrect` and `ScanSeesInOrder` assume nothing: a scan sees the
  contents of a file in the order in which they were written. What was there
  when it began, what the walk saw, what a worker opened and what is there now
  follow each other.
- `ScanCacheSound` (`ScanInv`), `ScanDigestHonest` and `ScanStableDigestExact`
  assume `CacheApplies`: the cache is off, or writers leave later stamps and no
  two published directories share it. With `Stamps` other than `"fresh"`, or
  with two directories, the code does serve wrong digests, as `AgentScan_subs`
  and section 4 show.

`DigestHonest` says where a digest came from, and is kept only because of where
the worker's next one will come from. `ScanInductive` therefore adds to the
types `SeenInOrder`, `CacheTells` (a row of the cache, in memory or on disk, or
an entry of the list that has the stamp of the file is of its content),
`HitsAreSeen` (a digest that a worker may take from the cache is of what the
walk saw) and `DigestsInOrder`.

### The manifest endpoint

The other part of `AgentProofs`, for any number of requests, keys and changes,
any `manifest_ttl`, any cache and any stamps: none of it needs `CacheApplies`, since
it is about the walks' view and not about digests being right.

- `ServerAnswersWhole` (`ServerInv`) assumes nothing. `WholeInductive`: an entry
  whose worker is done has its digest unless the file was written since the walk
  or could not be read, so a scan that was not cancelled stores no other gap
  (`StoredIsWhole`).
- `ServerNeverGoesBack` and `ServerReplyIsRecent` assume `TreeFits`, that no
  walk ends at `manifest_max_entries`. A truncated manifest shows nothing of the
  files after its end. `AgeInductive` orders, for each file, what handlers
  were given, what the running scan found at its start and what is there now
  (`GivenIsOld`), the same for what a request found published when it arrived
  (`FoundIsOld`), and what had been given by then with what its answer shows
  (`SeenIsOld`).

`AnswerInductive`, common to both, says that the scan lock works: one request
scans whenever a scan runs, and for its own key (`OneScans`).

### Downloads

`TransferProofs`, for any number of attempts, versions, lengths, faults and
deaths; no theorem needs an assumption beyond the module's.

- `TransferSafe` (`TransferInv`): attempts and staging files are bounded.
- `TransferInstallsPlan` (`InstallsWhatWasPlanned`) rests on `Approved`: between
  the check of the digest and the rename nothing writes to the staging file.
- `TransferWhole` (`TornNeedsChange`) and `TransferAbsorbsFaults`
  (`RetriesAbsorbFaults`) rest on `CalmIsExact`: as long as nobody touches the
  published file, the agent does not deny it and no disk fails, the staging file is
  a prefix of it, so that a range continues it exactly, and each earlier attempt
  has met a fault.

### Transfer slots and the archive

`ArchiveProofs`, for any files, contents, order of the walk, slots, other
clients, buffer and number of changes and faults; again no further assumption.

- `ArchiveSlotsExact`: with the queue of blocked senders holding each waiting
  request once (`SlotsInductive`), the tokens are the handlers at work.
- `ArchiveRowsTrue` (`ArchiveInv`), `ArchiveInstallsPlan`
  (`InstalledAsPlanned`) and `ArchiveForgetsNothing` (`NothingForgotten`) follow
  from `ArchiveInductive`. The heart of it is `StreamTells`: every block on the
  wire, or already unpacked, belongs to a header that still expects it and says what the
  plan says of that place in the file, unless the file was changed. The member
  the client is unpacking, each header on the wire and the file the handler has
  open are three ends of that statement (`GotTells`, `TarTells`, `OwedIsDue`:
  what the tar writer still owes is what the last member still lacks).
- `ArchiveArrivesWhole` (`QuietArchiveIsWhole`) needs more, `QuietInductive`: no
  member promises anything but what the walk saw (`PromisesAreScanned`), the end
  of the tar comes last (`EndIsLast`), and while nothing fails and nothing
  changes, every planned file the handler has passed is installed or on its way, or
  could not be opened (`QuietHandler`), with no member cut short (`QuietStream`).

### The runs and their journal

`SyncRunProofs`, for any files, contents, workers, edits, cancelled runs and
deaths. Three facts about a configuration appear as assumptions:

- `StampsKept`: `preserve_mtime` is on, and a local edit of a file comes at
  least the two seconds of `sameModTime` after its last change. Without either,
  the stamp of a local copy does not tell it from the agent's, and a row may
  vouch for what it has never seen.
- `ChangesApart`: the same of the agent's changes.
- `~ EditsInRun`: nobody edits the destination while a run is in progress. With
  edits in a run, `Masked` files exist (section 4), a deletion may hit what a
  user has just made, and a file may be edited between its arrival and the end.

| Theorem | Assumes | Property |
|---|---|---|
| `SyncTypeCorrect` | nothing | types; no more transfers than workers |
| `SyncDeletesOnlyUnpublished` | `~EditsInRun` | `DeletesOnlyUnpublished` |
| `SyncJournalTruthful` | `StampsKept`, `~EditsInRun` | `SyncInv` |
| `SyncJournalMisledOnlyByMasked` | `StampsKept` | a row is wrong for a `Masked` file at most |
| `SyncOkMeansComplete` | `StampsKept`, `~EditsInRun`, `verify: sha256` | `OkMeansComplete` |
| `SyncNoRedundantTransfer` | `ChangesApart`, no file the agent cannot read | `NoRedundantTransfer`, in every verify mode |

`SyncOkMeansComplete` needs digests compared, because `none` and `size-mtime`
take equal sizes or stamps for equal contents. `SyncNoRedundantTransfer` needs
an agent that reads everything, because a file the walk misses is deleted and
comes back.

`JournalTruthful` speaks of a row and the agent's entry of the moment. It is
not inductive: a row may become relevant when the file is republished, when a
run adopts a stamp, or when a death brings back the row on disk.
`JournalInductive` says what makes a row harmless then: all times are
past (`Past`, `SavedIsOld`); the entries of a running run are what the agent has, or
the agent's file is newer than the run (`EntryIsFresh`); a local stamp equal to
the agent's was taken from an entry with it (`StampIsListed`); a row with the
agent's stamp has the digest of that version (`RowOfAgent`); and rows are honest
against the agent's file and against the run's manifest, in memory and on disk
(`RowsAreHonest`). `ServeInductive` adds that a listed file is still to be
looked at, waiting, counted as an error, or in place; `SettledInductive` that
a run after which nothing changed has planned from what is there
(`PlanIsCurrent`).

The model has many actions that do little to any one file. `FileStep` and
`PlanStep` classify a step by what it does to one file (it stays, is noted,
adopted, put, dropped, edited, ...); `StepsOfAFile` and `PlansOfAFile` show that
each action is one of these for each file, and the invariants are then
preserved class by class.

### The shared log

`LogRotateProofs`, for any finite set of processes and any number of
generations, lines, openings and failed calls, and for both kinds of system.

`LogConsistent` is `Spec => []LogInv`. `LogInv` is not inductive: nothing in it
says why an append cannot put a line before an older one of the same process.
`LogInductive` adds

- `TopIsYoungest`: the path stands for the youngest file or for none, so that
  a rename away from it, and an opening of it, keep the generations in order;
- `WrittenBefore`: nothing a process has written is younger than the file it
  has open, so that its next line comes after all its others;
- `Numbered` and `Control`: the line in hand is the latest of its process, is
  appended to an open file only, and rotation stays within the generations;
- `LostCounted`: lost lines are finitely many, one per failed call;
- `Ordered`: the order of lines, place by place. `OrderedIsLinesInOrder` leads
  from it to the property.

Each action has a lemma; `LinesKept` and `LinesAppended` state once what it
takes to keep the order when no line, or one line, is added.

`LogIsKept` is `Spec => []LogKept`. For a file that is held open while others
rotate, `HeldIsNear` says which name leads to it (`StandsAt`): as long as no two
rotations cross, it has been moved at most once by each rotation that has begun,
and the one under way will put no other file there. `Lone` says how far the only
writer is: `Nth(g)`, the file with `g` younger ones, stands at name `g`, with one
name free while it shifts.

`SizesAreBounded` is `Spec => []SizesBounded`. A writer counts what it has
written and what it found when it opened the file, and nothing else, so no
count bounds the size of a file. `Shared` divides the file's bytes among the
processes instead: the share of one that has the file open is no more than
it knows of, and no share is ever more than `MaxSize` or one line. Nothing
forces one assignment of shares; that there is one is the invariant. `SharesAdd`
sums them.

### The tree

`TreeProofs`, for any jobs, destinations, paths, rules, published trees, failures
and deaths.

- `StagingIsWithinReach` (`TreeInv`) assumes `NoExceptions`, rules without `!`.
  `TreeInductive`, which needs no assumption, adds to the types that the disk is a
  tree, how far each run is (`Phases`), that what is left of its plan is
  wanted, or an extra, by its manifest (`Planned`), and that the manifest is what
  the agent has while nothing is published (`Listed`). Each action has a lemma
  that says what it may do at one path (`Change`): make a directory, take away
  one with nothing but staging files in it, or do what the plan has for that path.
  That a wanted file lies where the search comes (`FileIsReached`) follows from
  `PruningIsSound`, rules being asked about the directories above it; what a
  process leaves when it dies was staged there (`ReachStep`).
- `NothingGoesWithoutReason` (`DeletionsJustified`) and `OkRunsAreInstalled`
  (`OkMeansInstalled`) assume `JobsApart`: where two jobs reach the same path,
  the rules of one of them exclude it. Without it neither holds: one job may put
  a link where another's plan has an extra file, which then deletes the link, or
  delete what another has just brought. `RunsApart` is what the assumption buys:
  extras do not become links (`FileExtras`), and what a run has brought stays
  until it ends (`Served`).

### The exclude rules

In `TreeProofs` too. `PruningIsSound`: for all rules of which none takes an
exclusion back, and all paths, a directory that the rules exclude holds nothing
that they do not. It rests on `RuleReachesBelow`: a rule that matches a directory
matches what is below it. The agent's walk and findExtras rely on it when they
skip a directory. With a `!` rule it fails, which section 4 describes.

`MatcherMeansRules`: for patterns and paths of any length `matchSegments` is
true exactly where `Fits` is, that is, where the path can be cut into one part per
segment of the pattern. The equation that defines `matchSegments` has a
solution (`PlacesExist`, from the meaning of the rest of the pattern), and in
every solution the places of a segment are those at which the rest of the pattern
fits (`PlacesFit`), from the last segment down.

### The schedule and the service

`ServiceRunProofs`, for any schedules, calendars, `interval`, jitter and lengths
of runs; no theorem needs more than the module's assumption, that a day is 24
hours, or one unit more or less.

- `DaemonIsPunctual` (`Punctual`). Midnights are in order (`DaysFollow`) and the
  slots of a day lie between its midnight and the next (`SlotsOfDay`), so a slot
  that `nextRun` passes over is of a day that its step of 24 hours leaps over,
  and that is a short one (`NextRunWakes`). `Timely` carries this from the moment
  the timer is set to the moment it fires, with when the last run began.
- `NoWayBackFromStop` (`NoWayBack`). `Threads` says how far the two threads are
  relative to each other and to the job, `Records` what the shared record may
  hold then and what the service controller may have read of it: a handler that
  runs has been let in by a record that accepts stops, which serviceMain fills
  in only when it reports that the service runs.

### Induction over numbers

What holds of a sequence, a pattern or a calendar of any length is shown by a
first counterexample: a non-empty set of numbers has a least element
(`LeastNat`, from the well-foundedness of `<`), and one step before it, or from
it on, the property holds.

### Only model-checked

Liveness: `OrphanReclaimed`, `JobKeepsRunning`, `EveryRequestAnswered`,
`DownloadEnds`, `RunEnds`, `SlotsReturn`, `EventuallyMirrored`,
`EventuallyInShape` and `StopIsCarriedOut`. Fairness and ENABLED are beyond the
prover.

## 6. Not modelled

- Configuration (`internal/config`): defaults, validation and checks, done once
  before anything runs, without state; parseClock and ScheduleSeconds are in
  `Daemon`.
- Command line, templates and diagnostics (`cmd_init.go`, `cmd_check.go` and
  the flags of the others): sequential input and output.
- Installation, start, stop and status of the service: each hands one command
  to the system's service manager and keeps nothing.
- CleanRel and Resolve: functions on strings; paths are clean where they enter
  the models. Wire formats and authentication.
- The choice of handlers in `logx.New`, which keeps no state.
- Rate limits and statistics, dry runs and a forced archive, permissions of
  files.
- Build, packaging and test scripts.

## 7. Plan

Order so far: the lock first, since everything else relies on runs not
overlapping; then the agent's two halves, the transfer, the run that composes
them, the archive; then the tree, the rules, the log, the schedule and the
service. All of section 2 is done, and every safety property of section 3 is
proved. Next:

1. `SyncRun` shown, and proved, to implement an abstract mirror: a destination
   that moves file by file to what the agent published.
2. The ends of RunOnce that change nothing (a truncated manifest, a failed
   start) as actions of `SyncRun`.
3. `Tree` and `SyncRun` over one plan: contents and kinds together.
