----------------------------- MODULE LogRotate ------------------------------
(***************************************************************************)
(* The rotating log file (internal/logx/logx.go).  Every tidesync process  *)
(* with the same log.file has its own RotatingWriter and they know nothing *)
(* of each other: a daemon and a run by hand write to, and rotate, the     *)
(* same files.  Within a process Write holds a mutex, so a writer has one  *)
(* line in hand; between processes any two system calls may interleave.    *)
(*                                                                         *)
(* Files are numbered in the order they are created, a name is bound to    *)
(* the file it stands for.  A Stat and the Rename it allows are one step:  *)
(* a name that appears or goes away in between makes no difference to a    *)
(* single step before or after that.                                       *)
(***************************************************************************)
EXTENDS Naturals, Sequences, FiniteSets

CONSTANTS
  Procs,       \* processes that share the log
  MaxSize,     \* maxBytes
  MaxFiles,    \* generations that are kept beside the log itself
  LineSizes,   \* bytes of a line
  MaxLines, MaxFaults, MaxStarts   \* bounds: lines, failed system calls, openings

ASSUME LogAssumption ==
  /\ IsFiniteSet(Procs)
  /\ {MaxSize, MaxFiles} \subseteq Nat \ {0}
  /\ LineSizes \subseteq Nat \ {0}
  /\ {MaxLines, MaxFaults, MaxStarts} \subseteq Nat

Line == [by : Procs, no : Nat, len : Nat]
File == [lines : Seq(Line), bytes : Nat]

VARIABLES
  disk,     \* the files created so far
  name,     \* path (0) and path.1, path.2, ...: number of the file, 0 if there is none
  pins,     \* an open file cannot be renamed, replaced or removed (Windows)
  pc,       \* where a writer is
  f, size,  \* RotatingWriter: the open file, 0 for nil, and its size as far as known
  gen,      \* the loop variable of rotate
  line,     \* the line in hand
  count,    \* lines so far
  lost,     \* lines whose Write returned an error
  faults, starts,
  under,    \* ghost: rotations by others that this writer's open file has lived through
  crossed   \* ghost: writers whose open file has lived through two of them at once

writerVars == <<pc, f, size, gen, line>>
ghostVars == <<under, crossed>>
vars == <<disk, name, pins, writerVars, count, lost, faults, starts, ghostVars>>

Named == {name[g] : g \in 0 .. MaxFiles} \ {0}

TypeOK ==
  /\ disk \in Seq(File)
  /\ name \in [0 .. MaxFiles -> 0 .. Len(disk)]
  /\ pins \in BOOLEAN
  /\ pc \in [Procs -> {"off", "idle", "check", "shift", "move", "open", "append"}]
  /\ f \in [Procs -> 0 .. Len(disk)]
  /\ size \in [Procs -> Nat]
  /\ gen \in [Procs -> 0 .. MaxFiles]
  /\ line \in [Procs -> [no : Nat, len : Nat]]
  /\ count \in Nat /\ faults \in Nat /\ starts \in Nat
  /\ lost \subseteq 1 .. count
  /\ under \in [Procs -> Nat] /\ crossed \subseteq Procs

NoLine == [no |-> 0, len |-> 0]

Init ==
  /\ disk = <<>>
  /\ name = [g \in 0 .. MaxFiles |-> 0]
  /\ pins \in BOOLEAN
  /\ pc = [p \in Procs |-> "off"]
  /\ f = [p \in Procs |-> 0]
  /\ size = [p \in Procs |-> 0]
  /\ gen = [p \in Procs |-> 0]
  /\ line = [p \in Procs |-> NoLine]
  /\ count = 0 /\ lost = {} /\ faults = 0 /\ starts = 0
  /\ under = [p \in Procs |-> 0] /\ crossed = {}

-----------------------------------------------------------------------------

\* Processes that are renaming the generations.
Renaming == {q \in Procs : pc[q] \in {"shift", "move"}}

\* open: what is at the path, or a new file there.
Open(p) ==
  /\ IF name[0] = 0
     THEN /\ disk' = Append(disk, [lines |-> <<>>, bytes |-> 0])
          /\ name' = [name EXCEPT ![0] = Len(disk) + 1]
     ELSE UNCHANGED <<disk, name>>
  /\ f' = [f EXCEPT ![p] = name'[0]]
  /\ size' = [size EXCEPT ![p] = disk'[name'[0]].bytes]
  /\ under' = [under EXCEPT ![p] = Cardinality(Renaming \ {p})]
  /\ crossed' = IF \E q, r \in Renaming \ {p} : q # r THEN crossed \cup {p} ELSE crossed \ {p}

\* A system call fails for a reason of its own (a full disk, no descriptors).
Fault ==
  /\ faults < MaxFaults
  /\ faults' = faults + 1

\* NewRotatingWriter; a process that cannot open its log does not start.
Start(p) ==
  /\ pc[p] = "off"
  /\ starts < MaxStarts
  /\ starts' = starts + 1
  /\ Open(p)
  /\ pc' = [pc EXCEPT ![p] = "idle"]
  /\ UNCHANGED <<pins, gen, line, count, lost, faults>>

\* Close.
Stop(p) ==
  /\ pc[p] = "idle"
  /\ pc' = [pc EXCEPT ![p] = "off"]
  /\ f' = [f EXCEPT ![p] = 0]
  /\ size' = [size EXCEPT ![p] = 0]
  /\ under' = [under EXCEPT ![p] = 0]
  /\ crossed' = crossed \ {p}
  /\ UNCHANGED <<disk, name, pins, gen, line, count, lost, faults, starts>>

\* Mutant: the size is not brought up to date.
AppendUncounted(p, i, l) ==
  /\ disk' = [disk EXCEPT ![i] =
       [lines |-> Append(@.lines, [by |-> p, no |-> l.no, len |-> l.len]),
        bytes |-> @.bytes + l.len]]
  /\ UNCHANGED size

\* The line goes to the end of file i, wherever that file is by now.
AppendTo(p, i, l) ==
  /\ disk' = [disk EXCEPT ![i] =
       [lines |-> Append(@.lines, [by |-> p, no |-> l.no, len |-> l.len]),
        bytes |-> @.bytes + l.len]]
  /\ size' = [size EXCEPT ![p] = @ + l.len]

\* Names that the system lets p rename, replace or remove.
Free(p, g) == ~(pins /\ name[g] # 0 /\ \E q \in Procs \ {p} : f[q] = name[g])

NewLine(len) == [no |-> count + 1, len |-> len]

\* Mutant: Write does not open a log that a rotation left closed.
NeverReopens(p) ==
  /\ pc[p] = "idle" /\ f[p] = 0
  /\ count < MaxLines
  /\ count' = count + 1
  /\ lost' = lost \cup {count + 1}
  /\ UNCHANGED <<disk, name, pins, writerVars, faults, starts, ghostVars>>

\* Write finds the log closed, as a failed reopening left it, and opens it.
Reopen(p) ==
  /\ pc[p] = "idle" /\ f[p] = 0
  /\ count < MaxLines
  /\ count' = count + 1
  /\ \E len \in LineSizes :
       \/ /\ Open(p)
          /\ pc' = [pc EXCEPT ![p] = "check"]
          /\ line' = [line EXCEPT ![p] = NewLine(len)]
          /\ UNCHANGED <<lost, faults>>
       \/ /\ Fault
          /\ lost' = lost \cup {count + 1}
          /\ UNCHANGED <<disk, name, f, size, ghostVars, pc, line>>
  /\ UNCHANGED <<pins, gen, starts>>

\* Write has the log open and line l to put into it.
InHand(p, l) ==
  \/ /\ pc[p] = "idle" /\ f[p] # 0
     /\ count < MaxLines
     /\ \E len \in LineSizes : l = NewLine(len)
     /\ count' = count + 1
  \/ /\ pc[p] = "check"
     /\ l = line[p]
     /\ UNCHANGED count

\* There is room for the line.
Fits(p, l) ==
  /\ InHand(p, l)
  /\ size[p] + l.len <= MaxSize
  /\ AppendTo(p, f[p], l)
  /\ pc' = [pc EXCEPT ![p] = "idle"]
  /\ line' = [line EXCEPT ![p] = NoLine]
  /\ UNCHANGED <<name, pins, f, gen, lost, faults, starts, ghostVars>>

\* Mutant: the loop ends before it has shifted path.1.
LeftNone(n) == "move"

\* Where rotate is when n generations are left to shift.
Left(n) == IF n = 0 THEN "move" ELSE "shift"

\* There is not, and rotate begins: the file is closed, the oldest generation removed.
Rotate(p, l) ==
  /\ InHand(p, l)
  /\ size[p] + l.len > MaxSize
  /\ f' = [f EXCEPT ![p] = 0]
  /\ name' = IF Free(p, MaxFiles) THEN [name EXCEPT ![MaxFiles] = 0] ELSE name
  /\ gen' = [gen EXCEPT ![p] = MaxFiles - 1]
  /\ pc' = [pc EXCEPT ![p] = Left(MaxFiles - 1)]
  /\ line' = [line EXCEPT ![p] = l]
  /\ under' = [q \in Procs |-> IF q = p \/ f[q] = 0 THEN 0 ELSE under[q] + 1]
  /\ crossed' = (crossed \cup {q \in Procs : f[q] # 0 /\ Renaming \ {p, q} # {}}) \ {p}
  /\ UNCHANGED <<disk, pins, size, lost, faults, starts>>

\* Stat and Rename of one name to another, whose error nobody looks at.
Rename(p, from, to) ==
  \/ /\ name[from] # 0 /\ Free(p, from) /\ Free(p, to)
     /\ name' = [name EXCEPT ![to] = name[from], ![from] = 0]
     /\ UNCHANGED faults
  \/ /\ name[from] = 0 \/ ~Free(p, from) \/ ~Free(p, to)
     /\ UNCHANGED <<name, faults>>
  \/ /\ name[from] # 0
     /\ Fault
     /\ UNCHANGED name

\* The loop over the generations, from the oldest down.
Shift(p) ==
  /\ pc[p] = "shift"
  /\ Rename(p, gen[p], gen[p] + 1)
  /\ gen' = [gen EXCEPT ![p] = @ - 1]
  /\ pc' = [pc EXCEPT ![p] = Left(gen[p] - 1)]
  /\ UNCHANGED <<disk, pins, f, size, line, count, lost, starts, ghostVars>>

\* The log itself becomes path.1.
Move(p) ==
  /\ pc[p] = "move"
  /\ Rename(p, 0, 1)
  /\ pc' = [pc EXCEPT ![p] = "open"]
  /\ UNCHANGED <<disk, pins, f, size, gen, line, count, lost, starts, ghostVars>>

\* rotate ends by opening the path again.
RotateOpens(p) ==
  /\ pc[p] = "open"
  /\ Open(p)
  /\ pc' = [pc EXCEPT ![p] = "append"]
  /\ UNCHANGED <<pins, gen, line, count, lost, faults, starts>>

\* That fails: the error is dropped, and the write to a nil file loses the line.
RotateOpenFails(p) ==
  /\ pc[p] = "open"
  /\ Fault
  /\ lost' = lost \cup {line[p].no}
  /\ pc' = [pc EXCEPT ![p] = "idle"]
  /\ line' = [line EXCEPT ![p] = NoLine]
  /\ UNCHANGED <<disk, name, pins, f, size, gen, count, starts, ghostVars>>

\* The line that was too much goes into the file just opened.
Resume(p) ==
  /\ pc[p] = "append"
  /\ AppendTo(p, f[p], line[p])
  /\ pc' = [pc EXCEPT ![p] = "idle"]
  /\ line' = [line EXCEPT ![p] = NoLine]
  /\ UNCHANGED <<name, pins, f, gen, count, lost, faults, starts, ghostVars>>

Next ==
  \E p \in Procs :
    \/ Start(p) \/ Stop(p) \/ Reopen(p)
    \/ \E l \in [no : 1 .. MaxLines, len : LineSizes] : Fits(p, l) \/ Rotate(p, l)
    \/ Shift(p) \/ Move(p) \/ RotateOpens(p) \/ RotateOpenFails(p) \/ Resume(p)

Spec == Init /\ [][Next]_vars

-----------------------------------------------------------------------------

\* Younger generations have smaller numbers, however many processes rename them
\* at the same time.
GenerationsInOrder ==
  \A g, h \in 0 .. MaxFiles :
    g < h /\ name[g] # 0 /\ name[h] # 0 => name[g] > name[h]

\* Who reads the generations from the oldest to the log itself finds the lines of
\* each process in the order in which they were written.
LinesInOrder ==
  \A i, j \in DOMAIN disk : \A a \in DOMAIN disk[i].lines, b \in DOMAIN disk[j].lines :
    LET k == disk[i].lines[a]
        m == disk[j].lines[b]
    IN k.by = m.by /\ k.no < m.no => i < j \/ (i = j /\ a < b)

\* A system call that fails costs one line at most; the log goes on with the next
\* (logx.go:132).
OneLinePerFault == Cardinality(lost) <= faults

\* The files of the log stay consistent under any interleaving of writers that
\* know nothing of each other and any failed call.
LogInv == TypeOK /\ GenerationsInOrder /\ LinesInOrder /\ OneLinePerFault

\* Where renaming works a line is never appended to a file that no name leads to, unless
\* more than MaxFiles rotations of others have been under way since the writer opened
\* its file, or two of them at once: each moves the file on by one name at most, but of
\* two at once one may rename the next file onto it.
HeldLogKept ==
  faults = 0 =>
    \A p \in Procs \ crossed : f[p] # 0 /\ under[p] <= MaxFiles => f[p] \in Named

\* Where only one process has opened the log and no call has failed, every file but
\* those pushed out by MaxFiles younger generations is there, and none outgrows the
\* limit but for a single line that is larger: every line is in one of them.
LoneWriterKeepsAll ==
  starts = 1 /\ faults = 0 =>
    /\ \A p \in Procs : pc[p] = "idle" =>
         {i \in DOMAIN disk : i + MaxFiles >= Len(disk)} = Named
    /\ \A i \in DOMAIN disk : disk[i].bytes > MaxSize => Len(disk[i].lines) = 1

\* What the log holds is kept, however many processes write and rotate (logx.go:133-151).
LogKept == HeldLogKept /\ LoneWriterKeepsAll

\* Where renaming works no file grows beyond what each of its writers, who do not see
\* the lines of the others, may add to it: MaxSize, or one line that is larger.
SizesBounded ==
  ~pins /\ faults = 0 =>
    \A i \in DOMAIN disk :
      \E most \in LineSizes \cup {MaxSize} :
        disk[i].bytes <= Cardinality(Procs) * most
=============================================================================
