------------------------------ MODULE Transfer ------------------------------
(***************************************************************************)
(* The download of one file: DownloadTo with its retries and its resumed   *)
(* ranges (client/remote.go), the agent's file handler (server/server.go)  *)
(* and the installation of the staging file (client/sync.go), while the    *)
(* agent's file is being republished.                                      *)
(*                                                                         *)
(* Content is a sequence of blocks, and a block is the version it belongs  *)
(* to, so that a file stitched together from two versions shows.  A SHA-256*)
(* digest is the version itself: equal digests, equal content.             *)
(***************************************************************************)
EXTENDS Naturals, Sequences

CONSTANTS MaxVersion,   \* bound: how often the agent's file is published
          Lengths,      \* file lengths, in blocks
          Attempts,     \* sync.retries + 1
          InPlace,      \* writers rewrite the file in place (else rename over it)
          MaxCrashes,   \* bound: staging files of dead clients at a time
          NoDigest      \* the manifest entry carries no digest

Versions == 1..MaxVersion

ASSUME TransferAssumption ==
    /\ MaxVersion \in Nat \ {0} /\ Attempts \in Nat \ {0} /\ MaxCrashes \in Nat
    /\ Lengths \subseteq Nat \ {0}
    /\ InPlace \in BOOLEAN
    /\ NoDigest \notin Nat

VARIABLES
    lens,      \* length of every version
    cur,       \* the version published last
    there,     \* the file exists on the agent
    pc,        \* the downloading worker
    expect,    \* e.SHA256 of the manifest entry
    esize,     \* e.Size of the manifest entry
    attempt,   \* index of the current attempt in withRetry
    tmp,       \* blocks in the staging file
    staged,    \* the staging file exists
    src,       \* version that the open response reads
    end,       \* position at which the response ends
    local,     \* blocks of the destination file, <<>> when there is none
    debris,    \* staging files of dead clients, which no run will use again
    faults,    \* ghost: network faults met by this download
    calm       \* ghost: nothing else went wrong during this download: the file did not
               \* change, no header was late, the agent denied and no disk refused anything

agentVars == <<lens, cur, there>>
workVars == <<pc, expect, esize, attempt, tmp, staged, src, end>>
vars == <<agentVars, workVars, local, debris, faults, calm>>

Active == {"send", "body", "wait", "install"}

TypeOK ==
    /\ lens \in [Versions -> Lengths]
    /\ cur \in Versions
    /\ there \in BOOLEAN
    /\ pc \in Active \cup {"idle", "done", "failed", "dead"}
    /\ expect \in Versions \cup {NoDigest}
    /\ esize \in Nat
    /\ attempt \in 0..(Attempts - 1)
    /\ tmp \in Seq(Versions)
    /\ staged \in BOOLEAN
    /\ src \in Versions
    /\ end \in Nat
    /\ local \in Seq(Versions)
    /\ debris \in 0..MaxCrashes
    /\ faults \in 0..Attempts
    /\ calm \in BOOLEAN

Whole(v) == [i \in 1..lens[v] |-> v]

Init ==
    /\ lens \in [Versions -> Lengths]
    /\ cur = 1
    /\ there = TRUE
    /\ pc = "idle"
    /\ expect = NoDigest
    /\ esize = 0
    /\ attempt = 0
    /\ tmp = <<>>
    /\ staged = FALSE
    /\ src = 1
    /\ end = 0
    /\ local = <<>>
    /\ debris = 0
    /\ faults = 0
    /\ calm = TRUE

-----------------------------------------------------------------------------
(* The published file changes.                                             *)

\* A new version: a rename leaves an open response on the old file, a rewrite
\* in place changes what the response reads from here on.
Publish ==
    /\ cur < MaxVersion
    /\ cur' = cur + 1
    /\ there' = TRUE
    /\ src' = IF InPlace /\ pc = "body" THEN cur + 1 ELSE src
    /\ calm' = FALSE
    /\ UNCHANGED <<lens, pc, expect, esize, attempt, tmp, staged, end, local,
                   debris, faults>>

Unpublish ==
    /\ there
    /\ there' = FALSE
    /\ calm' = FALSE
    /\ UNCHANGED <<lens, cur, workVars, local, debris, faults>>

-----------------------------------------------------------------------------
(* One run's download of the file.                                         *)

Settled == {"idle", "done", "failed", "dead"}

\* Mutation of Start: the staging file has the same name in every run, and what
\* a dead client left in it is resumed.
StartResumesDebris(v, d) ==
    /\ pc \in Settled
    /\ v <= d /\ d <= cur
    /\ expect' \in {d, NoDigest}
    /\ esize' = lens[v]
    /\ attempt' = 0
    /\ pc' = "send"
    /\ faults' = 0
    /\ calm' = (there /\ v = cur)
    /\ UNCHANGED <<agentVars, tmp, staged, src, end, local, debris>>

\* A worker takes the entry of an earlier manifest: the walk saw version v, the
\* digest, if the entry carries one, was computed from version d.  The staging
\* file gets a name of its own; what a dead client left stays behind.
Start(v, d) ==
    /\ pc \in Settled
    /\ v <= d /\ d <= cur
    /\ expect' \in {d, NoDigest}
    /\ esize' = lens[v]
    /\ attempt' = 0
    /\ tmp' = <<>>
    /\ staged' = FALSE
    /\ debris' = IF staged THEN debris + 1 ELSE debris
    /\ pc' = "send"
    /\ faults' = 0
    /\ calm' = (there /\ v = cur)
    /\ UNCHANGED <<agentVars, src, end, local>>

\* Mutation of GiveUp: the staging file stays for the next run to resume.
GiveUpKeepsFile ==
    /\ pc' = "failed"
    /\ UNCHANGED <<attempt, tmp, staged>>

\* The staging file is removed and the download has failed for this run.
GiveUp ==
    /\ pc' = "failed"
    /\ tmp' = <<>>
    /\ staged' = FALSE
    /\ UNCHANGED attempt

\* A retryable error: the next attempt, or the end after the last one.  What
\* was received is kept, unless its digest was wrong.
Retry(keep) ==
    IF attempt + 1 < Attempts
    THEN /\ pc' = "wait"
         /\ tmp' = IF keep THEN tmp ELSE <<>>
         /\ staged' = (keep /\ staged)
         /\ UNCHANGED attempt
    ELSE GiveUp

\* Mutation of NextAttempt: the attempt is not counted.
NextAttemptUncounted ==
    /\ pc = "wait"
    /\ pc' = "send"
    /\ UNCHANGED <<agentVars, expect, esize, attempt, tmp, staged, src, end, local, debris,
                   faults, calm>>

\* The back-off is over.
NextAttempt ==
    /\ pc = "wait"
    /\ pc' = "send"
    /\ attempt' = attempt + 1
    /\ UNCHANGED <<agentVars, expect, esize, tmp, staged, src, end, local, debris,
                   faults, calm>>

\* No answer (refused, reset) or a status of 408, 429 or 5xx.
RequestFails ==
    /\ pc = "send"
    /\ Retry(TRUE)
    /\ faults' = faults + 1
    /\ UNCHANGED <<agentVars, expect, esize, src, end, local, debris, calm>>

\* No header within server.timeout.  Whether net/http's error then matches
\* context.DeadlineExceeded, which is not retried, is up to the Go release.
RequestTimesOut ==
    /\ pc = "send"
    /\ Retry(TRUE) \/ GiveUp
    /\ calm' = FALSE
    /\ UNCHANGED <<agentVars, expect, esize, src, end, local, debris, faults>>

Offset == IF staged THEN Len(tmp) ELSE 0

\* 404, or 416 for a range that starts at or beyond the end: not retried.
RequestRefused ==
    /\ pc = "send"
    /\ ~there \/ (Offset > 0 /\ Offset >= lens[cur])
    /\ GiveUp
    /\ UNCHANGED <<agentVars, expect, esize, src, end, local, debris, faults, calm>>

\* 401, 403 or 400 although the file is there: the guard turns the client away, the agent
\* may not read the file, or it is not a regular one.  Not retried either.
RequestDenied ==
    /\ pc = "send"
    /\ GiveUp
    /\ calm' = FALSE
    /\ UNCHANGED <<agentVars, expect, esize, src, end, local, debris, faults>>

\* 200: the whole file, into a truncated staging file.  Something in between
\* may have ignored a range.
AnswerWhole ==
    /\ pc = "send"
    /\ there
    /\ Offset < lens[cur]
    /\ pc' = "body"
    /\ tmp' = <<>>
    /\ staged' = TRUE
    /\ src' = cur
    /\ end' = lens[cur]
    /\ UNCHANGED <<agentVars, expect, esize, attempt, local, debris, faults, calm>>

\* Mutation of AnswerRange: the range begins one block too late.
AnswerRangeSkips ==
    /\ pc = "send"
    /\ there
    /\ Offset > 0 /\ Offset < lens[cur]
    /\ pc' = "body"
    /\ src' = cur
    /\ end' = lens[cur] - 1
    /\ UNCHANGED <<agentVars, expect, esize, attempt, tmp, staged, local, debris,
                   faults, calm>>

\* 206: the rest of whatever version is there now, appended to the staging file.
AnswerRange ==
    /\ pc = "send"
    /\ there
    /\ Offset > 0 /\ Offset < lens[cur]
    /\ pc' = "body"
    /\ src' = cur
    /\ end' = lens[cur]
    /\ UNCHANGED <<agentVars, expect, esize, attempt, tmp, staged, local, debris,
                   faults, calm>>

\* A block of the body arrives.
Deliver ==
    /\ pc = "body"
    /\ Len(tmp) < end
    /\ Len(tmp) < lens[src]
    /\ tmp' = Append(tmp, src)
    /\ UNCHANGED <<agentVars, pc, expect, esize, attempt, staged, src, end, local,
                   debris, faults, calm>>

\* The body ends early: the connection breaks, or the file shrank in place.
BodyBreaks ==
    /\ pc = "body"
    /\ Len(tmp) < end
    /\ Retry(TRUE)
    /\ faults' = faults + 1
    /\ UNCHANGED <<agentVars, expect, esize, src, end, local, debris, calm>>

\* Writing or syncing the staging file fails; what it holds is kept.
DiskFails ==
    /\ pc = "body"
    /\ Retry(TRUE)
    /\ calm' = FALSE
    /\ UNCHANGED <<agentVars, expect, esize, src, end, local, debris, faults>>

\* Mutation of BodyEnds: the digest is not compared when the length is right.
BodyEndsBySize ==
    /\ pc = "body"
    /\ Len(tmp) = end
    /\ IF end = esize
       THEN pc' = "install" /\ UNCHANGED <<attempt, tmp, staged>>
       ELSE Retry(FALSE)
    /\ UNCHANGED <<agentVars, expect, esize, src, end, local, debris, faults, calm>>

\* The body is complete and the digest covers the whole staging file.
BodyEnds ==
    /\ pc = "body"
    /\ Len(tmp) = end
    /\ IF expect = NoDigest \/ tmp = Whole(expect)
       THEN pc' = "install" /\ UNCHANGED <<attempt, tmp, staged>>
       ELSE Retry(FALSE)
    /\ UNCHANGED <<agentVars, expect, esize, src, end, local, debris, faults, calm>>

\* The size agrees with the manifest: the staging file is renamed over the
\* destination.  Otherwise it is removed.
Install ==
    /\ pc = "install"
    /\ IF Len(tmp) = esize
       THEN pc' = "done" /\ local' = tmp
       ELSE pc' = "failed" /\ UNCHANGED local
    /\ tmp' = <<>>
    /\ staged' = FALSE
    /\ UNCHANGED <<agentVars, expect, esize, attempt, src, end, debris, faults, calm>>

\* fsx.Replace gives up.
InstallFails ==
    /\ pc = "install"
    /\ GiveUp
    /\ calm' = FALSE
    /\ UNCHANGED <<agentVars, expect, esize, src, end, local, debris, faults>>

\* The run is cancelled; the error of a cancelled request is not retried.
Cancel ==
    /\ pc \in {"send", "body", "wait"}
    /\ GiveUp
    /\ calm' = FALSE
    /\ UNCHANGED <<agentVars, expect, esize, src, end, local, debris, faults>>

\* The client dies; its staging file stays on disk.
Crash ==
    /\ pc \in Active
    /\ debris < MaxCrashes
    /\ pc' = "dead"
    /\ UNCHANGED <<agentVars, expect, esize, attempt, tmp, staged, src, end, local,
                   debris, faults, calm>>

\* The plan of a later run sweeps staging files that are a day old.
Sweep ==
    /\ pc \in Settled
    /\ debris > 0
    /\ debris' = 0
    /\ UNCHANGED <<agentVars, workVars, local, faults, calm>>

Client == NextAttempt \/ BodyEnds \/ Install
Headers == \/ RequestFails \/ RequestTimesOut \/ RequestRefused \/ RequestDenied
           \/ AnswerWhole \/ AnswerRange
Body == Deliver \/ BodyBreaks

Next ==
    \/ Publish \/ Unpublish
    \/ \E v, d \in Versions : Start(v, d)
    \/ Client \/ Headers \/ Body
    \/ DiskFails \/ InstallFails \/ Cancel \/ Crash \/ Sweep

Spec == Init /\ [][Next]_vars

\* What the code sees to: the worker takes its steps, and a request without an
\* answer ends by ResponseHeaderTimeout.
ClientFairSpec == Spec /\ WF_vars(Client) /\ WF_vars(Headers)

\* The network's part: a body goes on or breaks within finite time.
FairSpec == ClientFairSpec /\ WF_vars(Body)

-----------------------------------------------------------------------------
(* Properties.                                                             *)

\* With a digest, what is installed is the version the digest is of, however
\* often the transfer broke, was resumed, or the file changed under it.
InstallsWhatWasPlanned ==
    [][local' # local /\ expect # NoDigest => local' = Whole(expect)]_vars

\* Even without a digest a file that nobody republished during the download
\* arrives whole.
TornNeedsChange ==
    [][local' # local /\ calm => \E v \in Versions : local' = Whole(v)]_vars

\* A download of an unchanged file, which the agent does not deny and the client's disk
\* takes, fails only when every attempt met a network fault: resuming never loses or
\* repeats a block.
RetriesAbsorbFaults ==
    pc = "failed" /\ calm => faults >= Attempts

\* Nothing but a death leaves a staging file behind.
NoDebris == staged => pc \in Active \cup {"dead"}

\* Staging files belong to a transfer or a dead one, and everything keeps its type.
TransferInv == TypeOK /\ NoDebris

\* Every download comes to an end (remote.go:91).
DownloadEnds == pc = "send" ~> pc \notin Active
=============================================================================
