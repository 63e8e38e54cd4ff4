--------------------------- MODULE TransferProofs ---------------------------
(***************************************************************************)
(* What a download guarantees for any number of attempts, versions, blocks *)
(* and deaths, and any assignment of lengths.  The argument: nothing is    *)
(* installed that the digest of the whole staging file has not approved;   *)
(* and as long as nobody touches the published file, the staging file is a *)
(* prefix of it, and every attempt but the current one has met one fault.  *)
(***************************************************************************)
EXTENDS Transfer, TLAPS

\* A staging file of n blocks of version v.
Blocks(v, n) == [i \in 1..n |-> v]

\* A dead client leaves one staging file at most.
DebrisFits == /\ staged \/ tmp = <<>>
              /\ pc = "body" => staged
              /\ NoDebris
              /\ pc = "dead" => debris < MaxCrashes

\* No more faults than attempts.
FaultsFit ==
  /\ pc \in {"send", "body", "install"} => faults <= attempt
  /\ pc = "wait" => attempt + 1 < Attempts /\ faults <= attempt + 1

\* The digest has approved what is about to be installed.
Approved == pc = "install" /\ expect # NoDigest => tmp = Whole(expect)

\* Nobody touched the published file, and nothing but the network failed: the staging
\* file is a prefix of the file, and every attempt so far has met a fault.
CalmIsExact ==
  calm =>
    /\ pc \in Active => /\ there
                        /\ expect \in {cur, NoDigest} /\ esize = lens[cur]
                        /\ tmp = Blocks(cur, Len(tmp))
    /\ pc \in {"send", "wait"} => Len(tmp) < lens[cur]
    /\ pc = "body" => src = cur /\ end = lens[cur] /\ Len(tmp) <= end
    /\ pc = "install" => Len(tmp) = lens[cur]
    /\ pc \in {"send", "body", "install"} => faults = attempt
    /\ pc = "wait" => faults = attempt + 1
    /\ pc = "failed" => faults >= Attempts

\* The inductive invariant.
TransferInductive == TypeOK /\ DebrisFits /\ FaultsFit /\ Approved /\ CalmIsExact

-----------------------------------------------------------------------------
(* Files of one version.                                                   *)

\* One more block of the version that the staging file is of.
LEMMA BlocksGrow ==
  ASSUME NEW v \in Versions, NEW n \in Nat
  PROVE  Append(Blocks(v, n), v) = Blocks(v, n + 1)
<1>1. Blocks(v, n) \in Seq(Versions) /\ Len(Blocks(v, n)) = n
  BY DEF Blocks
<1>2. /\ Append(Blocks(v, n), v) \in Seq(Versions)
      /\ Len(Append(Blocks(v, n), v)) = n + 1
      /\ \A i \in 1..(n + 1) : Append(Blocks(v, n), v)[i] = v
  BY <1>1 DEF Blocks
<1> QED
  BY <1>2 DEF Blocks

\* An empty staging file is of any version.
LEMMA NoBlocks ==
  ASSUME NEW v
  PROVE  <<>> = Blocks(v, Len(<<>>)) /\ Len(<<>>) = 0
  BY DEF Blocks

LEMMA LengthsTyped ==
  ASSUME TypeOK
  PROVE  lens \in [Versions -> Nat \ {0}] /\ \A v \in Versions : lens[v] \in Nat \ {0}
<1>1. lens \in [Versions -> Lengths] /\ \A n \in Lengths : n \in Nat \ {0}
  BY TransferAssumption DEF TypeOK
<1> QED
  BY <1>1

-----------------------------------------------------------------------------
(* Types, staging files and faults.                                        *)

\* After a retryable error: another attempt, or the end without a staging file.
LEMMA RetryChanges ==
  ASSUME TypeOK, NEW keep \in BOOLEAN, Retry(keep)
  PROVE  /\ attempt' = attempt
         /\ \/ /\ pc' = "wait" /\ attempt + 1 < Attempts
               /\ \/ keep /\ tmp' = tmp /\ staged' = staged
                  \/ tmp' = <<>> /\ staged' = FALSE
            \/ pc' = "failed" /\ attempt + 1 = Attempts /\ tmp' = <<>> /\ staged' = FALSE
  BY TransferAssumption DEF TypeOK, Retry, GiveUp

\* The variables that only the published file and the network change.
LEMMA TypesKept ==
  ASSUME TypeOK, UNCHANGED agentVars, UNCHANGED <<expect, esize, src, end, debris>>,
         pc' \in Active \cup Settled, attempt' \in 0..(Attempts - 1),
         tmp' \in Seq(Versions), staged' \in BOOLEAN, local' \in Seq(Versions),
         faults' \in 0..Attempts, calm' \in BOOLEAN
  PROVE  TypeOK'
  BY DEF TypeOK, agentVars, Settled

LEMMA TypesStep ==
  ASSUME TypeOK, DebrisFits, FaultsFit, [Next]_vars
  PROVE  TypeOK'
<1>0. /\ attempt \in 0..(Attempts - 1) /\ tmp \in Seq(Versions) /\ staged \in BOOLEAN
      /\ local \in Seq(Versions) /\ faults \in 0..Attempts /\ calm \in BOOLEAN
      /\ lens \in [Versions -> Nat \ {0}] /\ pc \in Active \cup Settled
      /\ <<>> \in Seq(Versions)
  BY LengthsTyped DEF TypeOK, Settled
<1> USE TransferAssumption DEF Active, Settled
<1>1. CASE Publish \/ Unpublish
  <2>1. cur' \in Versions /\ src' \in Versions
    BY <1>1 DEF Publish, Unpublish, Versions, TypeOK, workVars
  <2> QED
    BY <1>1, <2>1 DEF Publish, Unpublish, TypeOK, workVars
<1>2. ASSUME NEW v \in Versions, NEW d \in Versions, Start(v, d) PROVE TypeOK'
  <2>1. debris' \in 0..MaxCrashes
    BY <1>2 DEF Start, DebrisFits, NoDebris, TypeOK
  <2>2. esize' \in Nat /\ expect' \in Versions \cup {NoDigest} /\ attempt' \in 0..(Attempts - 1)
    BY <1>0, <1>2 DEF Start
  <2>3. there \in BOOLEAN /\ calm' = (there /\ v = cur)
    BY <1>2 DEF Start, TypeOK
  <2>4. calm' \in BOOLEAN
    BY <2>3
  <2>5. /\ pc' = "send" /\ tmp' = <<>> /\ staged' = FALSE /\ faults' = 0
        /\ UNCHANGED agentVars /\ UNCHANGED <<src, end, local>>
    BY <1>2 DEF Start
  <2> HIDE DEF Active, Settled
  <2>6. pc' \in Active \cup {"idle", "done", "failed", "dead"}
    BY <2>5 DEF Active
  <2>7. tmp' \in Seq(Versions) /\ staged' \in BOOLEAN
    BY <1>0, <2>5
  <2>8. faults' \in 0..Attempts
    BY <2>5
  <2> QED
    BY <2>1, <2>2, <2>4, <2>5, <2>6, <2>7, <2>8 DEF TypeOK, agentVars
<1>3. CASE NextAttempt
  <2>1. attempt' \in 0..(Attempts - 1)
    BY <1>0, <1>3 DEF NextAttempt, FaultsFit
  <2> QED
    BY <1>0, <1>3, <2>1, TypesKept DEF NextAttempt
<1>4. CASE BodyEnds
  <2>1. CASE pc' = "install" /\ UNCHANGED <<attempt, tmp, staged>>
    BY <1>0, <1>4, <2>1, TypesKept DEF BodyEnds
  <2>2. CASE Retry(FALSE)
    BY <1>0, <1>4, <2>2, RetryChanges, TypesKept DEF BodyEnds
  <2> QED
    BY <1>4, <2>1, <2>2 DEF BodyEnds
<1>5. CASE Install
  BY <1>0, <1>5, TypesKept DEF Install
<1>6. CASE RequestFails
  <2>1. faults' \in 0..Attempts
    BY <1>0, <1>6 DEF RequestFails, FaultsFit
  <2> QED
    BY <1>0, <1>6, <2>1, RetryChanges, TypesKept DEF RequestFails
<1>7. CASE BodyBreaks
  <2>1. faults' \in 0..Attempts
    BY <1>0, <1>7 DEF BodyBreaks, FaultsFit
  <2> QED
    BY <1>0, <1>7, <2>1, RetryChanges, TypesKept DEF BodyBreaks
<1>8. CASE DiskFails
  BY <1>0, <1>8, RetryChanges, TypesKept DEF DiskFails
<1>9. CASE RequestTimesOut
  <2>1. CASE Retry(TRUE)
    BY <1>0, <1>9, <2>1, RetryChanges, TypesKept DEF RequestTimesOut
  <2>2. CASE GiveUp
    BY <1>0, <1>9, <2>2, TypesKept DEF RequestTimesOut, GiveUp
  <2> QED
    BY <1>9, <2>1, <2>2 DEF RequestTimesOut
<1>10. CASE RequestRefused \/ RequestDenied
  BY <1>0, <1>10, TypesKept DEF RequestRefused, RequestDenied, GiveUp
<1>11. CASE InstallFails \/ Cancel
  BY <1>0, <1>11, TypesKept DEF InstallFails, Cancel, GiveUp
<1>12. CASE AnswerWhole \/ AnswerRange
  <2>1. src' \in Versions /\ end' \in Nat /\ tmp' \in Seq(Versions) /\ staged' \in BOOLEAN
    BY <1>0, <1>12 DEF AnswerWhole, AnswerRange, TypeOK
  <2> QED
    BY <1>12, <2>1 DEF AnswerWhole, AnswerRange, TypeOK, agentVars
<1>13. CASE Deliver
  <2>1. tmp' \in Seq(Versions)
    BY <1>13 DEF Deliver, TypeOK
  <2> QED
    BY <1>0, <1>13, <2>1, TypesKept DEF Deliver
<1>14. CASE Crash
  BY <1>0, <1>14, TypesKept DEF Crash
<1>15. CASE Sweep
  BY <1>15 DEF Sweep, TypeOK, agentVars, workVars
<1>16. CASE UNCHANGED vars
  BY <1>16 DEF vars, TypeOK, agentVars, workVars
<1> QED
  BY <1>1, <1>2, <1>3, <1>4, <1>5, <1>6, <1>7, <1>8, <1>9, <1>10, <1>11, <1>12, <1>13, <1>14,
     <1>15, <1>16
  DEF Next, Client, Headers, Body

LEMMA DebrisStep ==
  ASSUME TypeOK, DebrisFits, [Next]_vars
  PROVE  DebrisFits'
<1> USE TransferAssumption DEF TypeOK, DebrisFits, NoDebris, Active, Settled
<1> USE DEF agentVars, workVars
<1>1. CASE Publish \/ Unpublish
  BY <1>1 DEF Publish, Unpublish
<1>2. ASSUME NEW v \in Versions, NEW d \in Versions, Start(v, d) PROVE DebrisFits'
  BY <1>2 DEF Start
<1>3. CASE NextAttempt
  BY <1>3 DEF NextAttempt
<1>4. CASE BodyEnds \/ RequestFails \/ BodyBreaks \/ DiskFails \/ RequestTimesOut
  BY <1>4 DEF BodyEnds, RequestFails, BodyBreaks, DiskFails, RequestTimesOut, Retry, GiveUp
<1>5. CASE Install \/ InstallFails \/ RequestRefused \/ RequestDenied \/ Cancel
  BY <1>5 DEF Install, InstallFails, RequestRefused, RequestDenied, Cancel, GiveUp
<1>6. CASE AnswerWhole
  BY <1>6 DEF AnswerWhole
<1>7. CASE AnswerRange
  <2>1. staged
    BY <1>7 DEF AnswerRange, Offset
  <2> QED
    BY <1>7, <2>1 DEF AnswerRange
<1>11. CASE Deliver
  BY <1>11 DEF Deliver
<1>8. CASE Crash
  BY <1>8 DEF Crash
<1>9. CASE Sweep
  BY <1>9 DEF Sweep
<1>10. CASE UNCHANGED vars
  BY <1>10 DEF vars
<1> QED
  BY <1>1, <1>2, <1>3, <1>4, <1>5, <1>6, <1>7, <1>8, <1>9, <1>10, <1>11
  DEF Next, Client, Headers, Body

LEMMA FaultsStep ==
  ASSUME TypeOK, FaultsFit, [Next]_vars
  PROVE  FaultsFit'
<1> USE TransferAssumption DEF TypeOK, FaultsFit, Active, Settled
<1> USE DEF agentVars, workVars
<1>1. CASE Publish \/ Unpublish
  BY <1>1 DEF Publish, Unpublish
<1>2. ASSUME NEW v \in Versions, NEW d \in Versions, Start(v, d) PROVE FaultsFit'
  BY <1>2 DEF Start
<1>3. CASE NextAttempt
  BY <1>3 DEF NextAttempt
<1>4. CASE BodyEnds \/ DiskFails \/ RequestTimesOut
  BY <1>4 DEF BodyEnds, DiskFails, RequestTimesOut, Retry, GiveUp
<1>5. CASE RequestFails \/ BodyBreaks
  BY <1>5 DEF RequestFails, BodyBreaks, Retry, GiveUp
<1>6. CASE Install \/ InstallFails \/ RequestRefused \/ RequestDenied \/ Cancel
  BY <1>6 DEF Install, InstallFails, RequestRefused, RequestDenied, Cancel, GiveUp
<1>7. CASE AnswerWhole \/ AnswerRange \/ Deliver
  BY <1>7 DEF AnswerWhole, AnswerRange, Deliver
<1>8. CASE Crash \/ Sweep
  BY <1>8 DEF Crash, Sweep
<1>9. CASE UNCHANGED vars
  BY <1>9 DEF vars
<1> QED
  BY <1>1, <1>2, <1>3, <1>4, <1>5, <1>6, <1>7, <1>8, <1>9
  DEF Next, Client, Headers, Body

-----------------------------------------------------------------------------
(* What is installed.                                                      *)

LEMMA ApprovedStep ==
  ASSUME TypeOK, Approved, [Next]_vars
  PROVE  Approved'
<1> USE DEF Approved, agentVars, workVars
<1>1. CASE Publish \/ Unpublish
  BY <1>1 DEF Publish, Unpublish, Whole
<1>2. ASSUME NEW v \in Versions, NEW d \in Versions, Start(v, d) PROVE Approved'
  BY <1>2 DEF Start
<1>3. CASE BodyEnds
  BY <1>3 DEF BodyEnds, Retry, GiveUp, Whole
<1>4. CASE RequestFails \/ BodyBreaks \/ DiskFails \/ RequestTimesOut
  BY <1>4 DEF RequestFails, BodyBreaks, DiskFails, RequestTimesOut, Retry, GiveUp
<1>5. CASE Install \/ InstallFails \/ RequestRefused \/ RequestDenied \/ Cancel
  BY <1>5 DEF Install, InstallFails, RequestRefused, RequestDenied, Cancel, GiveUp
<1>6. CASE NextAttempt \/ AnswerWhole \/ AnswerRange \/ Deliver \/ Crash
  BY <1>6 DEF NextAttempt, AnswerWhole, AnswerRange, Deliver, Crash
<1>7. CASE Sweep
  BY <1>7 DEF Sweep, Settled
<1>8. CASE UNCHANGED vars
  BY <1>8 DEF vars, Whole
<1> QED
  BY <1>1, <1>2, <1>3, <1>4, <1>5, <1>6, <1>7, <1>8
  DEF Next, Client, Headers, Body

\* The published file, the entry and the staging file as they are between two calls.
LEMMA CalmStep ==
  ASSUME TypeOK, DebrisFits, FaultsFit, CalmIsExact, [Next]_vars
  PROVE  CalmIsExact'
<1> SUFFICES ASSUME calm' PROVE CalmIsExact'
  BY DEF CalmIsExact
<1>0. /\ attempt \in Nat /\ faults \in Nat /\ Attempts \in Nat \ {0}
      /\ Len(tmp) \in Nat /\ lens[cur] \in Nat \ {0} /\ end \in Nat /\ cur \in Versions
  BY LengthsTyped, TransferAssumption DEF TypeOK
<1> USE DEF Active
<1>1. ASSUME NEW v \in Versions, NEW d \in Versions, Start(v, d) PROVE CalmIsExact'
  <2>1. there /\ v = cur
    BY <1>1 DEF Start
  <2>2. d = cur
    BY <1>0, <1>1, <2>1 DEF Start, Versions
  <2> QED
    BY <1>0, <1>1, <2>1, <2>2, NoBlocks DEF Start, CalmIsExact, agentVars
<1>2. CASE NextAttempt
  BY <1>2 DEF NextAttempt, CalmIsExact, agentVars
<1>3. CASE BodyEnds
  <2>1. /\ calm /\ pc = "body" /\ Len(tmp) = lens[cur] /\ expect \in {cur, NoDigest}
        /\ tmp = Blocks(cur, lens[cur])
    BY <1>3 DEF BodyEnds, CalmIsExact
  <2>2. expect = NoDigest \/ tmp = Whole(expect)
    BY <2>1 DEF Blocks, Whole
  <2>3. pc' = "install" /\ UNCHANGED <<attempt, tmp, staged>>
    BY <1>3, <2>2 DEF BodyEnds
  <2> QED
    BY <1>3, <2>1, <2>3 DEF BodyEnds, CalmIsExact, agentVars
<1>4. CASE Install
  <2>1. calm /\ Len(tmp) = esize
    BY <1>4 DEF Install, CalmIsExact
  <2>2. pc' = "done"
    BY <1>4, <2>1 DEF Install
  <2> QED
    BY <2>2 DEF CalmIsExact
<1>5. CASE RequestFails
  <2>1. calm /\ pc = "send" /\ Len(tmp) < lens[cur] /\ faults = attempt
    BY <1>5 DEF RequestFails, CalmIsExact
  <2>2. /\ faults' = faults + 1 /\ Retry(TRUE)
        /\ UNCHANGED agentVars /\ UNCHANGED <<expect, esize, src, end>>
    BY <1>5 DEF RequestFails
  <2>3. CASE pc' = "failed" /\ attempt + 1 = Attempts
    <3>1. faults' >= Attempts
      BY <1>0, <2>1, <2>2, <2>3
    <3> QED
      BY <2>3, <3>1 DEF CalmIsExact
  <2>4. CASE pc' = "wait" /\ (tmp' = tmp \/ tmp' = <<>>)
    <3>1. attempt' = attempt /\ lens' = lens /\ cur' = cur /\ there' = there
      BY <2>2, RetryChanges DEF agentVars
    <3>2. there /\ expect \in {cur, NoDigest} /\ esize = lens[cur] /\ tmp = Blocks(cur, Len(tmp))
      BY <2>1 DEF CalmIsExact
    <3>3. tmp' = Blocks(cur, Len(tmp')) /\ Len(tmp') < lens[cur]
      BY <1>0, <2>1, <2>4, <3>2, NoBlocks
    <3>4. faults' = attempt' + 1
      BY <2>1, <2>2, <3>1
    <3> QED
      BY <2>2, <2>4, <3>1, <3>2, <3>3, <3>4 DEF CalmIsExact
  <2> QED
    BY <2>2, <2>3, <2>4, RetryChanges
<1>6. CASE BodyBreaks
  <2>1. calm /\ pc = "body" /\ Len(tmp) < lens[cur] /\ faults = attempt
    BY <1>6 DEF BodyBreaks, CalmIsExact
  <2>2. /\ faults' = faults + 1 /\ Retry(TRUE)
        /\ UNCHANGED agentVars /\ UNCHANGED <<expect, esize, src, end>>
    BY <1>6 DEF BodyBreaks
  <2>3. CASE pc' = "failed" /\ attempt + 1 = Attempts
    <3>1. faults' >= Attempts
      BY <1>0, <2>1, <2>2, <2>3
    <3> QED
      BY <2>3, <3>1 DEF CalmIsExact
  <2>4. CASE pc' = "wait" /\ (tmp' = tmp \/ tmp' = <<>>)
    <3>1. attempt' = attempt /\ lens' = lens /\ cur' = cur /\ there' = there
      BY <2>2, RetryChanges DEF agentVars
    <3>2. there /\ expect \in {cur, NoDigest} /\ esize = lens[cur] /\ tmp = Blocks(cur, Len(tmp))
      BY <2>1 DEF CalmIsExact
    <3>3. tmp' = Blocks(cur, Len(tmp')) /\ Len(tmp') < lens[cur]
      BY <1>0, <2>1, <2>4, <3>2, NoBlocks
    <3>4. faults' = attempt' + 1
      BY <2>1, <2>2, <3>1
    <3> QED
      BY <2>2, <2>4, <3>1, <3>2, <3>3, <3>4 DEF CalmIsExact
  <2> QED
    BY <2>2, <2>3, <2>4, RetryChanges
<1>7. CASE RequestRefused
  <2>1. calm /\ pc = "send"
    BY <1>7 DEF RequestRefused
  <2>2. there /\ Len(tmp) < lens[cur]
    BY <2>1 DEF CalmIsExact
  <2> QED
    BY <1>0, <1>7, <2>2 DEF RequestRefused, Offset
<1>8. CASE AnswerWhole
  <2>1. calm /\ pc = "send" /\ pc' = "body"
    BY <1>8 DEF AnswerWhole
  <2> QED
    BY <1>0, <1>8, <2>1, NoBlocks DEF AnswerWhole, CalmIsExact, agentVars
<1>9. CASE AnswerRange
  <2>1. calm /\ pc = "send" /\ pc' = "body"
    BY <1>9 DEF AnswerRange
  <2> QED
    BY <1>0, <1>9, <2>1 DEF AnswerRange, CalmIsExact, agentVars
<1>10. CASE Deliver
  <2>1. /\ calm /\ pc = "body" /\ src = cur /\ end = lens[cur] /\ Len(tmp) < end
        /\ tmp = Blocks(cur, Len(tmp)) /\ there /\ expect \in {cur, NoDigest}
        /\ esize = lens[cur] /\ faults = attempt
    BY <1>10 DEF Deliver, CalmIsExact
  <2>2. tmp' = Append(tmp, cur) /\ tmp \in Seq(Versions)
    BY <1>10, <2>1 DEF Deliver, TypeOK
  <2>3. Len(tmp') = Len(tmp) + 1
    BY <1>0, <2>2
  <2>4. tmp' = Blocks(cur, Len(tmp'))
    BY <1>0, <2>1, <2>2, <2>3, BlocksGrow
  <2>5. Len(tmp') <= end
    BY <1>0, <2>1, <2>3
  <2> QED
    BY <1>10, <2>1, <2>4, <2>5 DEF Deliver, CalmIsExact, agentVars
<1>11. CASE Crash
  BY <1>11 DEF Crash, CalmIsExact
<1>12. CASE Sweep
  BY <1>12 DEF Sweep, Settled, CalmIsExact, agentVars, workVars
<1>13. CASE UNCHANGED vars
  BY <1>13 DEF vars, CalmIsExact, agentVars, workVars
<1>14. ~(\/ Publish \/ Unpublish \/ RequestTimesOut \/ RequestDenied
         \/ DiskFails \/ InstallFails \/ Cancel)
  BY DEF Publish, Unpublish, RequestTimesOut, RequestDenied, DiskFails, InstallFails, Cancel
<1> QED
  BY <1>1, <1>2, <1>3, <1>4, <1>5, <1>6, <1>7, <1>8, <1>9, <1>10, <1>11, <1>12, <1>13, <1>14
  DEF Next, Client, Headers, Body

-----------------------------------------------------------------------------
(* The theorems.                                                           *)

LEMMA InitInductive ==
  ASSUME Init
  PROVE  TransferInductive
<1>1. 1 \in Versions /\ 0 \in 0..(Attempts - 1) /\ 0 \in 0..MaxCrashes /\ 0 \in 0..Attempts
  BY TransferAssumption DEF Versions
<1>2. lens \in [Versions -> Lengths]
  BY DEF Init
<1>3. <<>> \in Seq(Versions) /\ 0 \in Nat
  OBVIOUS
<1>4. TypeOK
  BY <1>1, <1>2, <1>3 DEF Init, TypeOK
<1> QED
  BY <1>4, TransferAssumption
  DEF Init, Active, TransferInductive, DebrisFits, NoDebris, FaultsFit, Approved, CalmIsExact

LEMMA InductiveStep ==
  ASSUME TransferInductive, [Next]_vars
  PROVE  TransferInductive'
  BY TypesStep, DebrisStep, FaultsStep, ApprovedStep, CalmStep DEF TransferInductive

LEMMA TransferInvariant == Spec => []TransferInductive
<1>1. Init => TransferInductive
  BY InitInductive
<1>2. TransferInductive /\ [Next]_vars => TransferInductive'
  BY InductiveStep
<1> QED
  BY <1>1, <1>2, PTL DEF Spec

\* Staging files are of a running transfer or of a dead client, and every variable keeps
\* its type: no download outlasts its attempts (sync.go:404, remote.go:182).
THEOREM TransferSafe == Spec => []TransferInv
<1>1. TransferInductive => TransferInv
  BY DEF TransferInductive, DebrisFits, TransferInv
<1> QED
  BY <1>1, TransferInvariant, PTL

\* A download fails over an unchanged file, which the agent does not deny and the client's
\* disk takes, only when every attempt met a network fault: resuming never loses or
\* repeats a block (remote.go:165, 182, 344).
THEOREM TransferAbsorbsFaults == Spec => []RetriesAbsorbFaults
<1>1. TransferInductive => RetriesAbsorbFaults
  BY DEF TransferInductive, CalmIsExact, RetriesAbsorbFaults
<1> QED
  BY <1>1, TransferInvariant, PTL

\* With a digest, what is installed is the version that the digest is of, whatever was
\* resumed, republished or rewritten in place on the way (remote.go:319).
THEOREM TransferInstallsPlan == Spec => InstallsWhatWasPlanned
<1>1. TransferInductive /\ [Next]_vars =>
        [local' # local /\ expect # NoDigest => local' = Whole(expect)]_vars
  <2> SUFFICES ASSUME TransferInductive, [Next]_vars, local' # local, expect # NoDigest
               PROVE  local' = Whole(expect)
    OBVIOUS
  <2>1. Install
    BY DEF Next, Client, Headers, Body, Publish, Unpublish, Start, NextAttempt, BodyEnds,
           RequestFails, RequestTimesOut, RequestRefused, RequestDenied, AnswerWhole,
           AnswerRange, Deliver, BodyBreaks, DiskFails, InstallFails, Cancel, Crash, Sweep, vars
  <2> QED
    BY <2>1 DEF Install, TransferInductive, Approved
<1> QED
  BY <1>1, TransferInvariant, PTL DEF Spec, InstallsWhatWasPlanned

\* Without a digest too, a file that nobody touched while it was downloaded arrives whole
\* (sync.go:414).
THEOREM TransferWhole == Spec => TornNeedsChange
<1>1. TransferInductive /\ [Next]_vars =>
        [local' # local /\ calm => \E v \in Versions : local' = Whole(v)]_vars
  <2> SUFFICES ASSUME TransferInductive, [Next]_vars, local' # local, calm
               PROVE  \E v \in Versions : local' = Whole(v)
    OBVIOUS
  <2>1. Install
    BY DEF Next, Client, Headers, Body, Publish, Unpublish, Start, NextAttempt, BodyEnds,
           RequestFails, RequestTimesOut, RequestRefused, RequestDenied, AnswerWhole,
           AnswerRange, Deliver, BodyBreaks, DiskFails, InstallFails, Cancel, Crash, Sweep, vars
  <2>2. local' = Blocks(cur, lens[cur]) /\ cur \in Versions
    BY <2>1 DEF Install, TransferInductive, CalmIsExact, TypeOK, Active
  <2> QED
    BY <2>2 DEF Blocks, Whole
<1> QED
  BY <1>1, TransferInvariant, PTL DEF Spec, TornNeedsChange
=============================================================================
