--------------------------- MODULE LogRotateProofs --------------------------
(***************************************************************************)
(* What the rotating log keeps for any number of processes that share it,  *)
(* any number of generations, lines, openings and failed calls.  The       *)
(* argument for LogInv: a process appends only to the file that was the    *)
(* youngest when it opened it, and the path itself always stands for the   *)
(* youngest.  For LogKept: each rotation moves an open file on by one name *)
(* at most, and none puts another file onto it unless two cross.  For      *)
(* SizesBounded: the bytes of a file are shares of its writers, each no    *)
(* more than that writer knows of.                                         *)
(***************************************************************************)
EXTENDS LogRotate, FiniteSetTheorems, SequenceTheorems, WellFoundedInduction, TLAPS

\* A line is in hand.
Writing(p) == pc[p] \in {"check", "shift", "move", "open", "append"}

\* What is in file i, at place a.
Places == {x \in Nat \X Nat : x[1] \in DOMAIN disk /\ x[2] \in DOMAIN disk[x[1]].lines}
LineAt(x) == disk[x[1]].lines[x[2]]

\* The path stands for the youngest file, or for none.
TopIsYoungest == name[0] \in {0, Len(disk)}

\* Nothing a process has written is in a younger file than the one it has open.
WrittenBefore ==
  \A p \in Procs : f[p] # 0 => \A x \in Places : LineAt(x).by = p => x[1] <= f[p]

\* Lines on the disk are numbered up to count, and the line in hand is the latest of
\* its process.
Numbered ==
  /\ \A x \in Places : LineAt(x).no <= count
  /\ \A p \in Procs : Writing(p) =>
       /\ line[p].no \in 1 .. count
       /\ \A x \in Places : LineAt(x).by = p => LineAt(x).no < line[p].no

\* A line is appended to an open file only, and generations are shifted within bounds.
Control ==
  \A p \in Procs :
    /\ pc[p] \in {"check", "append"} => f[p] # 0
    /\ pc[p] = "shift" => gen[p] \in 1 .. MaxFiles - 1

LostCounted == IsFiniteSet(lost) /\ OneLinePerFault

\* The lines of each process, place by place.
Ordered ==
  \A x, y \in Places :
    LineAt(x).by = LineAt(y).by /\ LineAt(x).no < LineAt(y).no
      => x[1] < y[1] \/ (x[1] = y[1] /\ x[2] < y[2])

\* The inductive invariant.
LogInductive ==
  /\ TypeOK /\ Control /\ LostCounted
  /\ GenerationsInOrder /\ TopIsYoungest
  /\ Ordered /\ WrittenBefore /\ Numbered

-----------------------------------------------------------------------------
(* The disk.                                                               *)

\* Opening the path adds an empty file, or none, and yields the youngest.
LEMMA OpenYieldsYoungest ==
  ASSUME TypeOK, GenerationsInOrder, TopIsYoungest, NEW p \in Procs, Open(p)
  PROVE  /\ disk' \in Seq(File)
         /\ Len(disk') \in {Len(disk), Len(disk) + 1}
         /\ \A i \in 1 .. Len(disk) : disk'[i] = disk[i]
         /\ \A i \in 1 .. Len(disk') : i > Len(disk) => disk'[i].lines = <<>>
         /\ name' \in [0 .. MaxFiles -> 0 .. Len(disk')]
         /\ f' \in [Procs -> 0 .. Len(disk')]
         /\ f' = [f EXCEPT ![p] = Len(disk')] /\ f'[p] # 0
         /\ size' \in [Procs -> Nat]
         /\ under' \in [Procs -> Nat] /\ crossed' \subseteq Procs
         /\ GenerationsInOrder' /\ TopIsYoungest'
<1> DEFINE new == [lines |-> <<>>, bytes |-> 0]
<1>0. /\ 0 \in 0 .. MaxFiles /\ MaxFiles \in Nat
      /\ disk \in Seq(File) /\ Len(disk) \in Nat
      /\ name \in [0 .. MaxFiles -> 0 .. Len(disk)]
      /\ f \in [Procs -> 0 .. Len(disk)]
  BY LogAssumption DEF TypeOK
<1>1. new \in File
  BY EmptySeq DEF File
<1>2. /\ disk' \in Seq(File)
      /\ Len(disk') \in {Len(disk), Len(disk) + 1}
      /\ \A i \in 1 .. Len(disk) : disk'[i] = disk[i]
      /\ \A i \in 1 .. Len(disk') : i > Len(disk) => disk'[i].lines = <<>>
      /\ name'[0] = Len(disk') /\ name'[0] # 0
      /\ name' \in [0 .. MaxFiles -> 0 .. Len(disk')]
      /\ \A g \in 1 .. MaxFiles : name'[g] = name[g]
      /\ name[0] = 0 => Len(disk') = Len(disk) + 1
      /\ name[0] # 0 => name' = name
  <2>1. CASE name[0] = 0
    <3>1. disk' = Append(disk, new) /\ name' = [name EXCEPT ![0] = Len(disk) + 1]
      BY <2>1 DEF Open
    <3> QED
      BY <1>0, <1>1, <2>1, <3>1
  <2>2. CASE name[0] # 0
    BY <1>0, <2>2 DEF Open, TopIsYoungest
  <2> QED
    BY <2>1, <2>2
<1>3. f' = [f EXCEPT ![p] = Len(disk')] /\ f' \in [Procs -> 0 .. Len(disk')]
  BY <1>0, <1>2 DEF Open
<1>4. disk'[name'[0]].bytes \in Nat
  <2>1. disk'[name'[0]] \in File
    BY <1>2, ElementOfSeq
  <2> QED
    BY <2>1 DEF File
<1>5. size' \in [Procs -> Nat]
  BY <1>4 DEF Open, TypeOK
<1>6. under' \in [Procs -> Nat] /\ crossed' \subseteq Procs
  <2>1. Cardinality(Renaming \ {p}) \in Nat
    BY LogAssumption, FS_Subset, FS_CardinalityType DEF Renaming
  <2> QED
    BY <2>1 DEF TypeOK, Open
<1>7. GenerationsInOrder'
  BY <1>0, <1>2 DEF GenerationsInOrder
<1> QED
  BY <1>0, <1>2, <1>3, <1>5, <1>6, <1>7 DEF TopIsYoungest

\* Appending changes one file, at its end.
LEMMA AppendAdds ==
  ASSUME TypeOK, NEW p \in Procs, NEW i \in 1 .. Len(disk),
         NEW l \in [no : Nat, len : Nat], AppendTo(p, i, l)
  PROVE  /\ disk' \in Seq(File) /\ Len(disk') = Len(disk)
         /\ \A j \in 1 .. Len(disk) : j # i => disk'[j] = disk[j]
         /\ disk[i].lines \in Seq(Line)
         /\ disk'[i].lines = Append(disk[i].lines, [by |-> p, no |-> l.no, len |-> l.len])
         /\ size' \in [Procs -> Nat]
<1> DEFINE more == [by |-> p, no |-> l.no, len |-> l.len]
           file == [lines |-> Append(disk[i].lines, more), bytes |-> disk[i].bytes + l.len]
<1>1. disk \in Seq(File) /\ disk[i] \in File /\ more \in Line
  BY ElementOfSeq DEF TypeOK, Line
<1>2. file \in File
  BY <1>1 DEF File
<1>3. disk' = [disk EXCEPT ![i] = file]
  BY <1>1 DEF AppendTo, File
<1>4. size' \in [Procs -> Nat]
  BY DEF AppendTo, TypeOK
<1> HIDE DEF file
<1>5. /\ disk' \in Seq(File) /\ Len(disk') = Len(disk)
      /\ \A j \in 1 .. Len(disk) : disk'[j] = IF j = i THEN file ELSE disk[j]
  BY <1>1, <1>2, <1>3, ExceptSeq
<1>6. disk[i].lines \in Seq(Line) /\ disk'[i] = file
  BY <1>1, <1>5 DEF File
<1> QED
  BY <1>4, <1>5, <1>6 DEF file

-----------------------------------------------------------------------------
(* The lines.                                                              *)

\* What stands at a place is a line, in a file of the disk.
LEMMA PlaceTyped ==
  ASSUME TypeOK, NEW x \in Places
  PROVE  x \in Nat \X Nat /\ x[1] \in 1 .. Len(disk) /\ LineAt(x) \in Line /\ LineAt(x).no \in Nat
<1>1. x[1] \in 1 .. Len(disk) /\ disk \in Seq(File)
  BY LenProperties DEF Places, TypeOK
<1>2. disk[x[1]] \in File
  BY <1>1, ElementOfSeq
<1>3. disk[x[1]].lines \in Seq(Line)
  BY <1>2 DEF File
<1>4. x[2] \in 1 .. Len(disk[x[1]].lines)
  BY <1>3, LenProperties DEF Places
<1>5. LineAt(x) \in Line
  BY <1>3, <1>4, ElementOfSeq DEF LineAt
<1> QED
  BY <1>1, <1>5 DEF Places, Line

\* Empty files at the end of the disk change no line.
LEMMA NoLineMoves ==
  ASSUME TypeOK, disk' \in Seq(File), Len(disk') >= Len(disk),
         \A i \in 1 .. Len(disk) : disk'[i] = disk[i],
         \A i \in 1 .. Len(disk') : i > Len(disk) => disk'[i].lines = <<>>
  PROVE  /\ Places' = Places
         /\ \A x \in Places : LineAt(x)' = LineAt(x)
<1>1. /\ disk \in Seq(File) /\ Len(disk) \in Nat /\ Len(disk') \in Nat
      /\ DOMAIN disk = 1 .. Len(disk) /\ DOMAIN disk' = 1 .. Len(disk')
  BY LenProperties DEF TypeOK
<1>2. \A i \in DOMAIN disk' : i \in DOMAIN disk \/ DOMAIN disk'[i].lines = {}
  BY <1>1
<1>3. \A i \in DOMAIN disk : i \in DOMAIN disk' /\ disk'[i] = disk[i]
  BY <1>1
<1> QED
  BY <1>2, <1>3 DEF Places, LineAt

\* An appended line is the last one of its file, and the only one that is new.
LEMMA OneLineMore ==
  ASSUME TypeOK, NEW p \in Procs, NEW i \in 1 .. Len(disk),
         NEW l \in [no : Nat, len : Nat], AppendTo(p, i, l)
  PROVE  \E y \in Nat \X Nat :
           /\ Places' = Places \cup {y}
           /\ \A x \in Places : LineAt(x)' = LineAt(x)
           /\ LineAt(y)'.by = p /\ LineAt(y)'.no = l.no
           /\ y[1] = i /\ \A x \in Places : x[1] = i => x[2] < y[2]
<1> DEFINE old == disk[i].lines
<1>1. /\ disk' \in Seq(File) /\ Len(disk') = Len(disk) /\ disk \in Seq(File)
      /\ \A j \in 1 .. Len(disk) : j # i => disk'[j] = disk[j]
      /\ old \in Seq(Line)
      /\ disk'[i].lines = Append(old, [by |-> p, no |-> l.no, len |-> l.len])
  BY AppendAdds DEF TypeOK
<1>2. /\ DOMAIN disk = 1 .. Len(disk) /\ DOMAIN disk' = DOMAIN disk /\ i \in DOMAIN disk
      /\ \A j \in DOMAIN disk : j # i => disk'[j] = disk[j]
  BY <1>1, LenProperties
<1>3. /\ Len(old) \in Nat /\ DOMAIN old = 1 .. Len(old) /\ i \in Nat
      /\ DOMAIN disk'[i].lines = DOMAIN old \cup {Len(old) + 1}
      /\ \A a \in DOMAIN old : disk'[i].lines[a] = old[a]
      /\ disk'[i].lines[Len(old) + 1] = [by |-> p, no |-> l.no, len |-> l.len]
  BY <1>1
<1>4. PICK y \in Nat \X Nat : y[1] = i /\ y[2] = Len(old) + 1 /\ y = <<i, Len(old) + 1>>
  <2>1. <<i, Len(old) + 1>> \in Nat \X Nat
    BY <1>3
  <2> QED
    BY <2>1
<1>5. Places' = Places \cup {y}
  <2>1. ASSUME NEW x \in Nat \X Nat PROVE x \in Places' <=> x \in Places \/ x = y
    <3>1. CASE x[1] = i
      BY <1>2, <1>3, <1>4, <3>1 DEF Places
    <3>2. CASE x[1] # i
      BY <1>2, <1>4, <3>2 DEF Places
    <3> QED
      BY <3>1, <3>2
  <2>2. Places \subseteq Nat \X Nat /\ Places' \subseteq Nat \X Nat
    BY DEF Places
  <2> QED
    BY <1>4, <2>1, <2>2
<1>6. \A x \in Places : LineAt(x)' = LineAt(x)
  BY <1>2, <1>3 DEF Places, LineAt
<1>7. LineAt(y)' = [by |-> p, no |-> l.no, len |-> l.len]
  BY <1>3, <1>4 DEF LineAt
<1>8. \A x \in Places : x[1] = i => x[2] < y[2]
  BY <1>3, <1>4 DEF Places
<1> QED
  BY <1>4, <1>5, <1>6, <1>7, <1>8

\* Where no line moves, and no file is opened but the youngest, lines stay in order.
LEMMA LinesKept ==
  ASSUME LogInductive, TypeOK', Places' = Places, \A x \in Places : LineAt(x)' = LineAt(x),
         Len(disk') >= Len(disk), count' >= count,
         \A p \in Procs : f'[p] \in {0, f[p], Len(disk')},
         \A p \in Procs : Writing(p)' =>
           \/ Writing(p) /\ line'[p].no = line[p].no
           \/ line'[p].no = count + 1 /\ count' = count + 1
  PROVE  Ordered' /\ WrittenBefore' /\ Numbered'
<1> DEFINE No(x) == LineAt(x).no
<1>1. Ordered'
  BY DEF LogInductive, Ordered
<1>2. \A x \in Places : x[1] \in 1 .. Len(disk) /\ No(x) \in Nat
  BY PlaceTyped DEF LogInductive
<1>0. /\ \A p \in Procs : f[p] \in Nat /\ line[p].no \in Nat /\ line'[p].no \in Nat
      /\ Len(disk) \in Nat /\ Len(disk') \in Nat /\ count \in Nat /\ count' \in Nat
  <2>1. disk \in Seq(File) /\ disk' \in Seq(File)
    BY DEF LogInductive, TypeOK
  <2>2. Len(disk) \in Nat /\ Len(disk') \in Nat
    BY <2>1, LenProperties
  <2>3. f \in [Procs -> 0 .. Len(disk)] /\ count \in Nat /\ count' \in Nat
    BY DEF LogInductive, TypeOK
  <2>4. line \in [Procs -> [no : Nat, len : Nat]] /\ line' \in [Procs -> [no : Nat, len : Nat]]
    BY DEF LogInductive, TypeOK
  <2> QED
    BY <2>2, <2>3, <2>4
<1>3. WrittenBefore'
  BY <1>0, <1>2 DEF LogInductive, WrittenBefore
<1>4. Numbered'
  <2>1. \A x \in Places' : LineAt(x)'.no <= count'
    BY <1>0, <1>2 DEF LogInductive, Numbered
  <2>2. ASSUME NEW p \in Procs, Writing(p)'
        PROVE  /\ line'[p].no \in 1 .. count'
               /\ \A x \in Places' : LineAt(x)'.by = p => LineAt(x)'.no < line'[p].no
    <3>1. CASE Writing(p) /\ line'[p].no = line[p].no
      BY <1>0, <1>2, <3>1 DEF LogInductive, Numbered
    <3>2. CASE line'[p].no = count + 1 /\ count' = count + 1
      BY <1>0, <1>2, <3>2 DEF LogInductive, Numbered
    <3> QED
      BY <2>2, <3>1, <3>2
  <2> QED
    BY <2>1, <2>2 DEF Numbered
<1> QED
  BY <1>1, <1>3, <1>4

\* A line with a number above all others of its process, appended to the file that the
\* process has open, keeps them in order.
LEMMA LinesAppended ==
  ASSUME LogInductive, TypeOK', NEW p \in Procs, f[p] # 0, f' = f,
         NEW l \in [no : Nat, len : Nat], AppendTo(p, f[p], l),
         \A x \in Places : LineAt(x).by = p => LineAt(x).no < l.no,
         count' >= count, l.no <= count',
         ~Writing(p)', \A q \in Procs \ {p} : Writing(q)' => Writing(q) /\ line'[q] = line[q]
  PROVE  Ordered' /\ WrittenBefore' /\ Numbered'
<1>1. f[p] \in 1 .. Len(disk) /\ count \in Nat /\ count' \in Nat /\ Len(disk) \in Nat
      /\ \A q \in Procs : f[q] \in Nat /\ line[q].no \in Nat
  <2>1. disk \in Seq(File) /\ count \in Nat /\ count' \in Nat
    BY DEF LogInductive, TypeOK
  <2>2. Len(disk) \in Nat
    BY <2>1, LenProperties
  <2>3. f \in [Procs -> 0 .. Len(disk)] /\ line \in [Procs -> [no : Nat, len : Nat]]
    BY DEF LogInductive, TypeOK
  <2> QED
    BY <2>1, <2>2, <2>3
<1>2. PICK y \in Nat \X Nat :
           /\ Places' = Places \cup {y}
           /\ \A x \in Places : LineAt(x)' = LineAt(x)
           /\ LineAt(y)'.by = p /\ LineAt(y)'.no = l.no
           /\ y[1] = f[p] /\ \A x \in Places : x[1] = f[p] => x[2] < y[2]
  BY <1>1, OneLineMore DEF LogInductive
<1>3. \A x \in Places : x \in Nat \X Nat /\ LineAt(x).no \in Nat
  BY PlaceTyped DEF LogInductive
<1>4. Ordered'
  <2> SUFFICES ASSUME NEW x \in Places', NEW z \in Places',
                      LineAt(x)'.by = LineAt(z)'.by, LineAt(x)'.no < LineAt(z)'.no
               PROVE  x[1] < z[1] \/ (x[1] = z[1] /\ x[2] < z[2])
    BY DEF Ordered
  <2>1. CASE x \in Places /\ z \in Places
    BY <1>2, <2>1 DEF LogInductive, Ordered
  <2>2. CASE x \in Places /\ z = y
    <3>1. LineAt(x).by = p
      BY <1>2, <2>2
    <3>2. x[1] <= f[p]
      BY <3>1, <2>2 DEF LogInductive, WrittenBefore
    <3> QED
      BY <1>1, <1>2, <1>3, <2>2, <3>2
  <2>3. CASE x = y
    BY <1>2, <1>3, <2>3
  <2> QED
    BY <1>2, <2>1, <2>2, <2>3
<1>5. WrittenBefore'
  BY <1>1, <1>2 DEF LogInductive, WrittenBefore
<1>6. Numbered'
  <2>1. \A x \in Places' : LineAt(x)'.no <= count'
    BY <1>1, <1>2, <1>3 DEF LogInductive, Numbered
  <2>2. ASSUME NEW q \in Procs, Writing(q)'
        PROVE  /\ line'[q].no \in 1 .. count'
               /\ \A x \in Places' : LineAt(x)'.by = q => LineAt(x)'.no < line'[q].no
    <3>1. q # p /\ Writing(q) /\ line'[q] = line[q]
      BY <2>2
    <3> QED
      BY <1>1, <1>2, <1>3, <3>1 DEF LogInductive, Numbered
  <2> QED
    BY <2>1, <2>2 DEF Numbered
<1> QED
  BY <1>4, <1>5, <1>6

-----------------------------------------------------------------------------
(* The steps of a writer.                                                  *)

\* A generation moves on by one name, or stays where it is.
LEMMA RenameKeepsOrder ==
  ASSUME LogInductive, NEW p \in Procs, NEW g \in 0 .. MaxFiles - 1,
         Rename(p, g, g + 1), disk' = disk
  PROVE  /\ name' \in [0 .. MaxFiles -> 0 .. Len(disk')]
         /\ GenerationsInOrder' /\ TopIsYoungest'
         /\ faults' \in Nat /\ faults' >= faults
<1>1. /\ MaxFiles \in Nat /\ g \in 0 .. MaxFiles /\ g + 1 \in 1 .. MaxFiles
      /\ g \in Nat /\ g # g + 1 /\ \A h \in 0 .. MaxFiles : h < g + 1 => h <= g
  BY LogAssumption
<1>2. /\ name \in [0 .. MaxFiles -> 0 .. Len(disk)] /\ faults \in Nat
      /\ disk \in Seq(File)
  BY DEF LogInductive, TypeOK
<1>3. Len(disk) \in Nat
  BY <1>2, LenProperties
<1>4. CASE name' = name
  BY <1>1, <1>2, <1>3, <1>4 DEF LogInductive, Rename, Fault, GenerationsInOrder, TopIsYoungest
<1>5. CASE name' # name
  <2>1. name[g] # 0 /\ name' = [name EXCEPT ![g + 1] = name[g], ![g] = 0] /\ faults' = faults
    BY <1>5 DEF Rename
  <2>2. \A h \in 0 .. MaxFiles :
          name'[h] = IF h = g THEN 0 ELSE IF h = g + 1 THEN name[g] ELSE name[h]
    BY <1>1, <1>2, <2>1
  <2>3. name' \in [0 .. MaxFiles -> 0 .. Len(disk')]
    <3>1. \A h \in 0 .. MaxFiles : name[h] \in 0 .. Len(disk)
      BY <1>2
    <3>2. name[g] \in 0 .. Len(disk) /\ 0 \in 0 .. Len(disk)
      BY <1>1, <1>3, <3>1
    <3>3. [name EXCEPT ![g + 1] = name[g]] \in [0 .. MaxFiles -> 0 .. Len(disk)]
      BY <1>2, <3>2
    <3> QED
      BY <2>1, <3>2, <3>3
  <2>4. GenerationsInOrder'
    BY <1>1, <1>2, <1>3, <2>1, <2>2 DEF LogInductive, GenerationsInOrder
  <2>5. TopIsYoungest'
    BY <1>1, <2>2 DEF LogInductive, TopIsYoungest
  <2> QED
    BY <1>2, <2>1, <2>3, <2>4, <2>5
<1> QED
  BY <1>4, <1>5

\* A writer that rotates closes its file, and leaves all names but the last alone.
LEMMA RotateStep ==
  ASSUME LogInductive, NEW p \in Procs, NEW l \in [no : 1 .. MaxLines, len : LineSizes],
         Rotate(p, l)
  PROVE  LogInductive'
<1>0. MaxFiles \in Nat \ {0} /\ LineSizes \subseteq Nat /\ MaxLines \in Nat
  BY LogAssumption
<1>1. TypeOK /\ disk' = disk /\ disk \in Seq(File) /\ Len(disk) \in Nat
  BY LenProperties DEF LogInductive, TypeOK, Rotate
<1>2. /\ name \in [0 .. MaxFiles -> 0 .. Len(disk)] /\ name[0] = name'[0]
      /\ name' \in [0 .. MaxFiles -> 0 .. Len(disk)]
      /\ \A g \in 0 .. MaxFiles : name'[g] \in {0, name[g]}
  <2>1. name \in [0 .. MaxFiles -> 0 .. Len(disk)]
    BY <1>1 DEF TypeOK
  <2>2. name' = name \/ name' = [name EXCEPT ![MaxFiles] = 0]
    BY DEF Rotate
  <2>3. 0 # MaxFiles /\ 0 \in 0 .. MaxFiles /\ 0 \in 0 .. Len(disk)
    BY <1>0, <1>1
  <2> QED
    BY <2>1, <2>2, <2>3
<1>3. /\ count' \in Nat /\ count' >= count
      /\ \/ pc[p] = "check" /\ l = line[p] /\ count' = count
         \/ pc[p] = "idle" /\ l.no = count + 1 /\ count' = count + 1
  BY <1>1 DEF Rotate, InHand, NewLine, TypeOK
<1>4. TypeOK'
  <2>1. pc' \in [Procs -> {"off", "idle", "check", "shift", "move", "open", "append"}]
    BY <1>1 DEF TypeOK, Rotate, Left
  <2>2. gen' \in [Procs -> 0 .. MaxFiles]
    BY <1>0, <1>1 DEF TypeOK, Rotate
  <2>3. line' \in [Procs -> [no : Nat, len : Nat]]
    <3>1. 1 .. MaxLines \subseteq Nat /\ LineSizes \subseteq Nat
      BY <1>0
    <3>2. l \in [no : Nat, len : Nat]
      BY <3>1
    <3> QED
      BY <1>1, <3>2 DEF TypeOK, Rotate
  <2>4. lost' \subseteq 1 .. count' /\ under' \in [Procs -> Nat] /\ f' \in [Procs -> 0 .. Len(disk)]
    BY <1>1, <1>3 DEF TypeOK, Rotate
  <2> QED
    BY <1>1, <1>2, <1>3, <2>1, <2>2, <2>3, <2>4 DEF TypeOK, Rotate
<1>5. Control'
  <2>1. \A q \in Procs \ {p} : pc'[q] = pc[q] /\ f'[q] = f[q] /\ gen'[q] = gen[q]
    BY <1>1 DEF TypeOK, Rotate
  <2>2. pc'[p] = Left(MaxFiles - 1) /\ gen'[p] = MaxFiles - 1
    BY <1>1 DEF TypeOK, Rotate
  <2> QED
    BY <1>0, <2>1, <2>2 DEF LogInductive, Control, Left
<1>6. LostCounted'
  BY DEF LogInductive, LostCounted, OneLinePerFault, Rotate
<1>7. GenerationsInOrder' /\ TopIsYoungest'
  BY <1>0, <1>1, <1>2 DEF LogInductive, GenerationsInOrder, TopIsYoungest
<1>8. Places' = Places /\ \A x \in Places : LineAt(x)' = LineAt(x)
  BY <1>1 DEF Places, LineAt
<1>9. \A q \in Procs : Writing(q)' =>
        \/ Writing(q) /\ line'[q].no = line[q].no
        \/ line'[q].no = count + 1 /\ count' = count + 1
  BY <1>1, <1>3 DEF Writing, Rotate, TypeOK
<1>10. \A q \in Procs : f'[q] \in {0, f[q], Len(disk')}
  BY <1>1 DEF Rotate, TypeOK
<1> QED
  BY <1>1, <1>3, <1>4, <1>5, <1>6, <1>7, <1>8, <1>9, <1>10, LinesKept DEF LogInductive

\* Whoever opens the path keeps the generations and the lines in order.
LEMMA OpenKeepsOrder ==
  ASSUME LogInductive, TypeOK', NEW p \in Procs, Open(p), count' >= count,
         \A q \in Procs : Writing(q)' =>
           \/ Writing(q) /\ line'[q].no = line[q].no
           \/ line'[q].no = count + 1 /\ count' = count + 1
  PROVE  /\ GenerationsInOrder' /\ TopIsYoungest'
         /\ Ordered' /\ WrittenBefore' /\ Numbered'
<1>1. /\ disk' \in Seq(File) /\ Len(disk') \in {Len(disk), Len(disk) + 1}
      /\ \A i \in 1 .. Len(disk) : disk'[i] = disk[i]
      /\ \A i \in 1 .. Len(disk') : i > Len(disk) => disk'[i].lines = <<>>
      /\ f' = [f EXCEPT ![p] = Len(disk')]
      /\ GenerationsInOrder' /\ TopIsYoungest'
  BY OpenYieldsYoungest DEF LogInductive
<1>2. Len(disk) \in Nat
  <2>1. disk \in Seq(File)
    BY DEF LogInductive, TypeOK
  <2> QED
    BY <2>1, LenProperties
<1>3. Len(disk') >= Len(disk)
  BY <1>1, <1>2
<1>4. Places' = Places /\ \A x \in Places : LineAt(x)' = LineAt(x)
  BY <1>1, <1>3, NoLineMoves DEF LogInductive
<1>5. \A q \in Procs : f'[q] \in {0, f[q], Len(disk')}
  <2>1. f \in [Procs -> 0 .. Len(disk)]
    BY DEF LogInductive, TypeOK
  <2> QED
    BY <1>1, <2>1
<1> QED
  BY <1>1, <1>3, <1>4, <1>5, LinesKept

\* The log is opened for the first time.
LEMMA StartStep ==
  ASSUME LogInductive, NEW p \in Procs, Start(p)
  PROVE  LogInductive'
<1>1. /\ disk' \in Seq(File) /\ name' \in [0 .. MaxFiles -> 0 .. Len(disk')]
      /\ f' \in [Procs -> 0 .. Len(disk')] /\ f' = [f EXCEPT ![p] = Len(disk')]
      /\ size' \in [Procs -> Nat]
        /\ under' \in [Procs -> Nat] /\ crossed' \subseteq Procs
  BY OpenYieldsYoungest DEF LogInductive, Start
<1>2. TypeOK'
  BY <1>1, SMTT(30) DEF LogInductive, TypeOK, Start
<1>3. Control'
  BY <1>1 DEF LogInductive, TypeOK, Control, Start
<1>4. LostCounted'
  BY DEF LogInductive, LostCounted, OneLinePerFault, Start
<1>5. \A q \in Procs : Writing(q)' => Writing(q) /\ line'[q].no = line[q].no
  BY DEF LogInductive, TypeOK, Writing, Start
<1>6. count' >= count
  BY DEF LogInductive, TypeOK, Start
<1> QED
  BY <1>2, <1>3, <1>4, <1>5, <1>6, OpenKeepsOrder DEF LogInductive, Start

\* A rotation ends.
LEMMA RotateOpensStep ==
  ASSUME LogInductive, NEW p \in Procs, RotateOpens(p)
  PROVE  LogInductive'
<1>1. /\ disk' \in Seq(File) /\ name' \in [0 .. MaxFiles -> 0 .. Len(disk')]
      /\ f' \in [Procs -> 0 .. Len(disk')]
      /\ f' = [f EXCEPT ![p] = Len(disk')] /\ f'[p] # 0
      /\ size' \in [Procs -> Nat]
        /\ under' \in [Procs -> Nat] /\ crossed' \subseteq Procs
  BY OpenYieldsYoungest DEF LogInductive, RotateOpens
<1>2. TypeOK'
  BY <1>1 DEF LogInductive, TypeOK, RotateOpens
<1>3. Control'
  <2>1. \A q \in Procs \ {p} : pc'[q] = pc[q] /\ f'[q] = f[q] /\ gen'[q] = gen[q]
    BY <1>1 DEF LogInductive, TypeOK, RotateOpens
  <2>2. pc'[p] = "append"
    BY DEF LogInductive, TypeOK, RotateOpens
  <2> QED
    BY <1>1, <2>1, <2>2 DEF LogInductive, Control
<1>4. LostCounted'
  BY DEF LogInductive, LostCounted, OneLinePerFault, RotateOpens
<1>5. \A q \in Procs : Writing(q)' => Writing(q) /\ line'[q].no = line[q].no
  BY DEF LogInductive, TypeOK, Writing, RotateOpens
<1>6. count' >= count
  BY DEF LogInductive, TypeOK, RotateOpens
<1> QED
  BY <1>2, <1>3, <1>4, <1>5, <1>6, OpenKeepsOrder DEF LogInductive, RotateOpens

\* The next line opens a log that a rotation left closed, or is lost.
LEMMA ReopenStep ==
  ASSUME LogInductive, NEW p \in Procs, Reopen(p)
  PROVE  LogInductive'
<1>1. PICK len \in LineSizes :
        \/ /\ Open(p)
           /\ pc' = [pc EXCEPT ![p] = "check"]
           /\ line' = [line EXCEPT ![p] = NewLine(len)]
           /\ UNCHANGED <<lost, faults>>
        \/ /\ Fault
           /\ lost' = lost \cup {count + 1}
           /\ UNCHANGED <<disk, name, f, size, ghostVars, pc, line>>
  BY DEF Reopen
<1>2. /\ count \in Nat /\ count' = count + 1 /\ len \in Nat
      /\ pc[p] = "idle" /\ f[p] = 0 /\ UNCHANGED <<pins, gen, starts>>
  BY LogAssumption DEF LogInductive, TypeOK, Reopen
<1>3. CASE Open(p) /\ pc' = [pc EXCEPT ![p] = "check"]
           /\ line' = [line EXCEPT ![p] = NewLine(len)] /\ UNCHANGED <<lost, faults>>
  <2>1. /\ disk' \in Seq(File) /\ name' \in [0 .. MaxFiles -> 0 .. Len(disk')]
        /\ f' \in [Procs -> 0 .. Len(disk')]
        /\ f' = [f EXCEPT ![p] = Len(disk')] /\ f'[p] # 0
        /\ size' \in [Procs -> Nat]
        /\ under' \in [Procs -> Nat] /\ crossed' \subseteq Procs
    BY <1>3, OpenYieldsYoungest DEF LogInductive
  <2>2. TypeOK'
    <3>1. line' \in [Procs -> [no : Nat, len : Nat]]
      BY <1>2, <1>3 DEF LogInductive, TypeOK, NewLine
    <3>2. lost' \subseteq 1 .. count'
      BY <1>2, <1>3 DEF LogInductive, TypeOK
    <3>3. /\ pc' \in [Procs -> {"off", "idle", "check", "shift", "move", "open", "append"}]
          /\ pins' \in BOOLEAN /\ gen' \in [Procs -> 0 .. MaxFiles]
          /\ count' \in Nat /\ faults' \in Nat /\ starts' \in Nat
      BY <1>2, <1>3 DEF LogInductive, TypeOK
    <3> QED
      BY <2>1, <3>1, <3>2, <3>3 DEF TypeOK
  <2>3. Control'
    <3>1. \A q \in Procs \ {p} : pc'[q] = pc[q] /\ f'[q] = f[q] /\ gen'[q] = gen[q]
      BY <1>2, <1>3, <2>1 DEF LogInductive, TypeOK
    <3>2. pc'[p] = "check"
      BY <1>3 DEF LogInductive, TypeOK
    <3> QED
      BY <2>1, <3>1, <3>2 DEF LogInductive, Control
  <2>4. LostCounted'
    BY <1>3 DEF LogInductive, LostCounted, OneLinePerFault
  <2>5. \A q \in Procs : Writing(q)' =>
           \/ Writing(q) /\ line'[q].no = line[q].no
           \/ line'[q].no = count + 1 /\ count' = count + 1
    BY <1>2, <1>3 DEF LogInductive, TypeOK, Writing, NewLine
  <2>6. count' >= count
    BY <1>2
  <2> QED
    BY <1>3, <2>2, <2>3, <2>4, <2>5, <2>6, OpenKeepsOrder DEF LogInductive
<1>4. CASE Fault /\ lost' = lost \cup {count + 1}
           /\ UNCHANGED <<disk, name, f, size, ghostVars, pc, line>>
  <2>1. TypeOK'
    BY <1>2, <1>4 DEF LogInductive, TypeOK, ghostVars, Fault
  <2>2. LostCounted'
    <3>1. IsFiniteSet(lost) /\ Cardinality(lost) <= faults /\ faults \in Nat
      BY DEF LogInductive, LostCounted, OneLinePerFault, TypeOK
    <3>2. Cardinality(lost) \in Nat /\ IsFiniteSet(lost')
          /\ Cardinality(lost') \in {Cardinality(lost), Cardinality(lost) + 1}
      BY <1>4, <3>1, FS_AddElement, FS_CardinalityType
    <3> QED
      BY <1>4, <3>1, <3>2 DEF LostCounted, OneLinePerFault, Fault
  <2>3. Control' /\ GenerationsInOrder' /\ TopIsYoungest'
    BY <1>2, <1>4 DEF LogInductive, Control, GenerationsInOrder, TopIsYoungest
  <2>4. Ordered' /\ WrittenBefore' /\ Numbered'
    <3>1. Places' = Places /\ \A x \in Places : LineAt(x)' = LineAt(x)
      BY <1>4 DEF Places, LineAt
    <3>2. Len(disk') >= Len(disk) /\ count' >= count
      <4>1. disk \in Seq(File)
        BY DEF LogInductive, TypeOK
      <4> QED
        BY <1>2, <1>4, <4>1, LenProperties
    <3>3. \A q \in Procs : Writing(q)' => Writing(q) /\ line'[q].no = line[q].no
      BY <1>4 DEF Writing
    <3> QED
      BY <1>4, <2>1, <3>1, <3>2, <3>3, LinesKept
  <2> QED
    BY <2>1, <2>2, <2>3, <2>4 DEF LogInductive
<1> QED
  BY <1>1, <1>3, <1>4

\* Steps that neither touch a file nor take up a line.
LEMMA LinesUntouched ==
  ASSUME LogInductive, TypeOK', UNCHANGED <<disk, count>>,
         \A q \in Procs : f'[q] \in {0, f[q]},
         \A q \in Procs : Writing(q)' => Writing(q) /\ line'[q] = line[q]
  PROVE  Ordered' /\ WrittenBefore' /\ Numbered'
<1>1. Places' = Places /\ \A x \in Places : LineAt(x)' = LineAt(x)
  BY DEF Places, LineAt
<1>2. Len(disk') >= Len(disk) /\ count' >= count
  <2>1. disk \in Seq(File) /\ count \in Nat
    BY DEF LogInductive, TypeOK
  <2> QED
    BY <2>1, LenProperties
<1> QED
  BY <1>1, <1>2, LinesKept

\* Close, the renaming of generations, and a reopening that fails.
LEMMA QuietStep ==
  ASSUME LogInductive, NEW p \in Procs,
         Stop(p) \/ Shift(p) \/ Move(p) \/ RotateOpenFails(p)
  PROVE  LogInductive'
<1>0. MaxFiles \in Nat \ {0}
  BY LogAssumption
<1>1. CASE Stop(p)
  <2>1. TypeOK' /\ Control'
    BY <1>1 DEF LogInductive, TypeOK, Control, Stop
  <2>2. \A q \in Procs : f'[q] \in {0, f[q]} /\ (Writing(q)' => Writing(q) /\ line'[q] = line[q])
    BY <1>1 DEF LogInductive, TypeOK, Writing, Stop
  <2> QED
    BY <1>1, <2>1, <2>2, LinesUntouched
       DEF LogInductive, Stop, LostCounted, OneLinePerFault, GenerationsInOrder, TopIsYoungest
<1>2. CASE Shift(p)
  <2>1. gen[p] \in 1 .. MaxFiles - 1
    BY <1>2 DEF LogInductive, Control, Shift
  <2>2. /\ name' \in [0 .. MaxFiles -> 0 .. Len(disk')]
        /\ GenerationsInOrder' /\ TopIsYoungest' /\ faults' \in Nat /\ faults' >= faults
    BY <1>0, <1>2, <2>1, RenameKeepsOrder DEF Shift
  <2>3. /\ \A q \in Procs \ {p} : pc'[q] = pc[q] /\ gen'[q] = gen[q]
        /\ pc'[p] = Left(gen[p] - 1) /\ gen'[p] = gen[p] - 1
    BY <1>2 DEF LogInductive, TypeOK, Shift
  <2>4. TypeOK'
    <3>1. Left(gen[p] - 1) \in {"move", "shift"} /\ gen[p] - 1 \in 0 .. MaxFiles
      BY <1>0, <2>1 DEF Left
    <3> QED
      BY <1>2, <2>2, <3>1 DEF LogInductive, TypeOK, ghostVars, Shift
  <2>5. Control'
    BY <1>0, <1>2, <2>1, <2>3 DEF LogInductive, Control, Shift, Left
  <2>6. LostCounted'
    BY <1>2, <2>2, FS_CardinalityType DEF LogInductive, TypeOK, LostCounted, OneLinePerFault, Shift
  <2>7. \A q \in Procs : f'[q] \in {0, f[q]} /\ (Writing(q)' => Writing(q) /\ line'[q] = line[q])
    BY <1>2, <2>3 DEF Writing, Shift
  <2> QED
    BY <1>2, <2>2, <2>4, <2>5, <2>6, <2>7, LinesUntouched DEF LogInductive, Shift
<1>3. CASE Move(p)
  <2>1. /\ name' \in [0 .. MaxFiles -> 0 .. Len(disk')]
        /\ GenerationsInOrder' /\ TopIsYoungest' /\ faults' \in Nat /\ faults' >= faults
    <3>1. 0 \in 0 .. MaxFiles - 1 /\ 1 = 0 + 1
      BY <1>0
    <3> QED
      BY <1>3, <3>1, RenameKeepsOrder DEF Move
  <2>2. TypeOK' /\ Control'
    BY <1>3, <2>1 DEF LogInductive, TypeOK, ghostVars, Control, Move
  <2>3. LostCounted'
    BY <1>3, <2>1, FS_CardinalityType DEF LogInductive, TypeOK, LostCounted, OneLinePerFault, Move
  <2>4. \A q \in Procs : f'[q] \in {0, f[q]} /\ (Writing(q)' => Writing(q) /\ line'[q] = line[q])
    BY <1>3 DEF LogInductive, TypeOK, Writing, Move
  <2> QED
    BY <1>3, <2>1, <2>2, <2>3, <2>4, LinesUntouched DEF LogInductive, Move
<1>4. CASE RotateOpenFails(p)
  <2>1. line[p].no \in 1 .. count
    BY <1>4 DEF LogInductive, Numbered, Writing, RotateOpenFails
  <2>2. TypeOK'
    <3>1. line' \in [Procs -> [no : Nat, len : Nat]]
      BY <1>4 DEF LogInductive, TypeOK, RotateOpenFails, NoLine
    <3>2. pc' \in [Procs -> {"off", "idle", "check", "shift", "move", "open", "append"}]
      BY <1>4 DEF LogInductive, TypeOK, RotateOpenFails
    <3>3. lost' \subseteq 1 .. count
      <4>1. lost \subseteq 1 .. count /\ lost' = lost \cup {line[p].no}
        BY <1>4 DEF LogInductive, TypeOK, RotateOpenFails
      <4> QED
        BY <2>1, <4>1
    <3>4. faults' \in Nat
      BY <1>4 DEF LogInductive, TypeOK, RotateOpenFails, Fault
    <3> QED
      BY <1>4, <3>1, <3>2, <3>3, <3>4 DEF LogInductive, TypeOK, ghostVars, RotateOpenFails
  <2>5. Control'
    BY <1>4 DEF LogInductive, TypeOK, Control, RotateOpenFails
  <2>3. LostCounted'
    <3>1. IsFiniteSet(lost) /\ Cardinality(lost) <= faults /\ faults \in Nat
      BY DEF LogInductive, LostCounted, OneLinePerFault, TypeOK
    <3>2. Cardinality(lost) \in Nat /\ IsFiniteSet(lost')
          /\ Cardinality(lost') \in {Cardinality(lost), Cardinality(lost) + 1}
      BY <1>4, <3>1, FS_AddElement, FS_CardinalityType DEF RotateOpenFails
    <3> QED
      BY <1>4, <3>1, <3>2 DEF LostCounted, OneLinePerFault, Fault, RotateOpenFails
  <2>4. \A q \in Procs : f'[q] \in {0, f[q]} /\ (Writing(q)' => Writing(q) /\ line'[q] = line[q])
    BY <1>4 DEF LogInductive, TypeOK, Writing, RotateOpenFails
  <2> QED
    BY <1>4, <2>2, <2>3, <2>4, <2>5, LinesUntouched
       DEF LogInductive, RotateOpenFails, GenerationsInOrder, TopIsYoungest
<1> QED
  BY <1>1, <1>2, <1>3, <1>4

\* A line is put into the file the writer has open.
LEMMA FitsStep ==
  ASSUME LogInductive, NEW p \in Procs, NEW l \in [no : 1 .. MaxLines, len : LineSizes],
         Fits(p, l)
  PROVE  LogInductive'
<1>1. l \in [no : Nat, len : Nat]
  <2>1. 1 .. MaxLines \subseteq Nat /\ LineSizes \subseteq Nat
    BY LogAssumption
  <2> QED
    BY <2>1
<1>2. /\ f[p] # 0 /\ count \in Nat /\ count' \in Nat /\ count' >= count
      /\ \/ pc[p] = "check" /\ l = line[p] /\ count' = count
         \/ pc[p] = "idle" /\ l.no = count + 1 /\ count' = count + 1
  BY DEF Fits, InHand, NewLine, LogInductive, Control, TypeOK
<1>3. f[p] \in 1 .. Len(disk) /\ TypeOK
  BY <1>2 DEF LogInductive, TypeOK
<1>4. disk' \in Seq(File) /\ Len(disk') = Len(disk) /\ size' \in [Procs -> Nat]
  BY <1>1, <1>3, AppendAdds DEF Fits
<1>5. TypeOK'
  <2>1. /\ pc' \in [Procs -> {"off", "idle", "check", "shift", "move", "open", "append"}]
        /\ line' \in [Procs -> [no : Nat, len : Nat]] /\ lost' \subseteq 1 .. count'
    BY <1>2 DEF LogInductive, TypeOK, Fits, NoLine
  <2> QED
    BY <1>2, <1>4, <2>1 DEF LogInductive, TypeOK, ghostVars, Fits
<1>6. /\ \A q \in Procs \ {p} : pc'[q] = pc[q] /\ line'[q] = line[q]
      /\ pc'[p] = "idle" /\ f' = f /\ gen' = gen
  BY DEF LogInductive, TypeOK, Fits
<1>7. Control'
  BY <1>6 DEF LogInductive, Control
<1>8. \A x \in Places : LineAt(x).by = p => LineAt(x).no < l.no
  BY <1>2, PlaceTyped DEF LogInductive, Numbered, Writing
<1>9. l.no <= count'
  BY <1>1, <1>2 DEF LogInductive, Numbered, Writing
<1>10. Ordered' /\ WrittenBefore' /\ Numbered'
  BY <1>1, <1>2, <1>5, <1>6, <1>8, <1>9, LinesAppended DEF Fits, Writing
<1> QED
  BY <1>4, <1>5, <1>7, <1>10
     DEF LogInductive, Fits, LostCounted, OneLinePerFault, GenerationsInOrder, TopIsYoungest

\* The line that made the writer rotate is put into the file it has opened since.
LEMMA ResumeStep ==
  ASSUME LogInductive, NEW p \in Procs, Resume(p)
  PROVE  LogInductive'
<1> DEFINE l == line[p]
<1>1. f[p] # 0 /\ TypeOK /\ l \in [no : Nat, len : Nat] /\ l.no \in 1 .. count /\ count' = count
  BY DEF LogInductive, TypeOK, Control, Numbered, Writing, Resume
<1>2. f[p] \in 1 .. Len(disk) /\ count \in Nat
  BY <1>1 DEF TypeOK
<1>3. disk' \in Seq(File) /\ Len(disk') = Len(disk) /\ size' \in [Procs -> Nat]
  BY <1>1, <1>2, AppendAdds DEF Resume
<1>4. TypeOK'
  <2>1. /\ pc' \in [Procs -> {"off", "idle", "check", "shift", "move", "open", "append"}]
        /\ line' \in [Procs -> [no : Nat, len : Nat]]
    BY <1>1 DEF TypeOK, Resume, NoLine
  <2> QED
    BY <1>1, <1>3, <2>1 DEF TypeOK, ghostVars, Resume
<1>5. /\ \A q \in Procs \ {p} : pc'[q] = pc[q] /\ line'[q] = line[q]
      /\ pc'[p] = "idle" /\ f' = f /\ gen' = gen
  BY <1>1 DEF TypeOK, Resume
<1>6. Control'
  BY <1>5 DEF LogInductive, Control
<1>7. \A x \in Places : LineAt(x).by = p => LineAt(x).no < l.no
  BY DEF LogInductive, Numbered, Writing, Resume
<1>8. Ordered' /\ WrittenBefore' /\ Numbered'
  <2>1. PICK k \in [no : Nat, len : Nat] : k = l
    BY <1>1
  <2>2. count' >= count /\ k.no <= count' /\ AppendTo(p, f[p], k)
    BY <1>1, <1>2, <2>1 DEF Resume
  <2> QED
    BY <1>1, <1>4, <1>5, <1>7, <2>1, <2>2, LinesAppended DEF Writing
<1> QED
  BY <1>3, <1>4, <1>6, <1>8
     DEF LogInductive, Resume, LostCounted, OneLinePerFault, GenerationsInOrder, TopIsYoungest

\* The inductive invariant holds of the empty disk.
LEMMA LogInit == Init => LogInductive
<1> SUFFICES ASSUME Init PROVE LogInductive
  OBVIOUS
<1>1. MaxFiles \in Nat /\ disk = <<>> /\ Places = {} /\ lost = {} /\ faults = 0
  BY LogAssumption DEF Init, Places
<1>2. TypeOK
  BY <1>1, EmptySeq DEF Init, TypeOK, NoLine
<1>3. Control /\ GenerationsInOrder /\ TopIsYoungest
  BY <1>1 DEF Init, Control, GenerationsInOrder, TopIsYoungest
<1>4. LostCounted
  BY <1>1, FS_EmptySet DEF LostCounted, OneLinePerFault
<1>5. Ordered /\ WrittenBefore /\ Numbered
  BY <1>1 DEF Init, Ordered, WrittenBefore, Numbered, Writing
<1> QED
  BY <1>2, <1>3, <1>4, <1>5 DEF LogInductive

\* Every step keeps it.
LEMMA LogStep == LogInductive /\ [Next]_vars => LogInductive'
<1> SUFFICES ASSUME LogInductive, [Next]_vars PROVE LogInductive'
  OBVIOUS
<1>1. ASSUME NEW p \in Procs, Start(p) PROVE LogInductive'
  BY <1>1, StartStep
<1>2. ASSUME NEW p \in Procs, Reopen(p) PROVE LogInductive'
  BY <1>2, ReopenStep
<1>3. ASSUME NEW p \in Procs, NEW l \in [no : 1 .. MaxLines, len : LineSizes], Fits(p, l)
      PROVE  LogInductive'
  BY <1>3, FitsStep
<1>4. ASSUME NEW p \in Procs, NEW l \in [no : 1 .. MaxLines, len : LineSizes], Rotate(p, l)
      PROVE  LogInductive'
  BY <1>4, RotateStep
<1>5. ASSUME NEW p \in Procs, Stop(p) \/ Shift(p) \/ Move(p) \/ RotateOpenFails(p)
      PROVE  LogInductive'
  BY <1>5, QuietStep
<1>6. ASSUME NEW p \in Procs, RotateOpens(p) PROVE LogInductive'
  BY <1>6, RotateOpensStep
<1>7. ASSUME NEW p \in Procs, Resume(p) PROVE LogInductive'
  BY <1>7, ResumeStep
<1>8. CASE UNCHANGED vars
  <2>1. Places' = Places /\ \A x \in Places : LineAt(x)' = LineAt(x)
    BY <1>8 DEF vars, Places, LineAt
  <2>2. TypeOK' /\ Control' /\ LostCounted' /\ GenerationsInOrder' /\ TopIsYoungest'
    BY <1>8 DEF vars, writerVars, LogInductive, TypeOK, ghostVars, Control, LostCounted, OneLinePerFault,
                GenerationsInOrder, TopIsYoungest
  <2>3. Ordered' /\ WrittenBefore' /\ Numbered'
    BY <1>8, <2>1 DEF vars, writerVars, LogInductive, Ordered, WrittenBefore, Numbered, Writing
  <2> QED
    BY <2>2, <2>3 DEF LogInductive
<1> QED
  BY <1>1, <1>2, <1>3, <1>4, <1>5, <1>6, <1>7, <1>8 DEF Next

\* Places in order are lines in order.
LEMMA OrderedIsLinesInOrder == TypeOK /\ Ordered => LinesInOrder
<1> SUFFICES ASSUME TypeOK, Ordered,
                    NEW i \in DOMAIN disk, NEW j \in DOMAIN disk,
                    NEW a \in DOMAIN disk[i].lines, NEW b \in DOMAIN disk[j].lines,
                    disk[i].lines[a].by = disk[j].lines[b].by,
                    disk[i].lines[a].no < disk[j].lines[b].no
             PROVE  i < j \/ (i = j /\ a < b)
  BY DEF LinesInOrder
<1>1. ASSUME NEW k \in DOMAIN disk, NEW c \in DOMAIN disk[k].lines
      PROVE  <<k, c>> \in Places /\ LineAt(<<k, c>>) = disk[k].lines[c]
  <2>1. k \in 1 .. Len(disk) /\ disk \in Seq(File)
    BY LenProperties DEF TypeOK
  <2>2. disk[k] \in File
    BY <2>1, ElementOfSeq
  <2>3. disk[k].lines \in Seq(Line)
    BY <2>2 DEF File
  <2>4. k \in Nat /\ c \in Nat
    BY <2>1, <2>3, LenProperties
  <2> QED
    BY <2>4 DEF Places, LineAt
<1>2. <<i, a>>[1] = i /\ <<i, a>>[2] = a /\ <<j, b>>[1] = j /\ <<j, b>>[2] = b
  OBVIOUS
<1>3. /\ <<i, a>> \in Places /\ LineAt(<<i, a>>) = disk[i].lines[a]
      /\ <<j, b>> \in Places /\ LineAt(<<j, b>>) = disk[j].lines[b]
  BY <1>1
<1> QED
  BY <1>2, <1>3 DEF Ordered

\* Processes that share a log and know nothing of each other keep its generations and
\* the lines of each of them in order, and a failed call costs one line at most, for any
\* number of processes, generations, lines and failures (logx.go:62-172).
THEOREM LogConsistent == Spec => []LogInv
<1>1. LogInductive => LogInv
  BY OrderedIsLinesInOrder DEF LogInductive, LogInv, LostCounted
<1> QED
  BY <1>1, LogInit, LogStep, PTL DEF Spec

(***************************************************************************)
(* What is kept.  A writer's file stays within reach of a name while the   *)
(* rotations of others pass one at a time; a lone writer's names count its *)
(* files from the youngest down.                                           *)
(***************************************************************************)
Phases ==
  \A p \in Procs :
    /\ f[p] # 0 => pc[p] \in {"idle", "check", "append"}
    /\ pc[p] = "move" => gen[p] = 0

\* The file that p has open stands at g, and has been moved less often than rotations
\* have begun; one that is still to come to g counts as begun, and will not put another
\* file there.
StandsAt(p, g) ==
  /\ name[g] = f[p] /\ g <= under[p]
  /\ \A q \in Renaming : /\ g <= gen[q] => g < under[p]
                         /\ ~pins => g # gen[q] + 1

HeldIsNear ==
  faults = 0 =>
    \A p \in Procs \ crossed : f[p] # 0 =>
      /\ \A q, r \in Renaming : q = r
      /\ under[p] <= MaxFiles => \E g \in 0 .. MaxFiles : StandsAt(p, g)

\* The file with g younger ones, 0 if there is none.
Nth(g) == IF g < Len(disk) THEN Len(disk) - g ELSE 0

\* How far the only writer is.
LoneWriter(p) ==
  /\ pc[p] # "check"
  /\ pc[p] \in {"idle", "append"} =>
       f[p] = Len(disk) /\ f[p] # 0 /\ size[p] = disk[f[p]].bytes
  /\ pc[p] = "append" => disk[f[p]].lines = <<>>
  /\ pc[p] \in {"shift", "move"} =>
       \A g \in 0 .. MaxFiles :
         name[g] = IF g <= gen[p] THEN Nth(g) ELSE IF g = gen[p] + 1 THEN 0 ELSE Nth(g - 1)
  /\ pc[p] = "open" => \A g \in 0 .. MaxFiles : name[g] = IF g = 0 THEN 0 ELSE Nth(g - 1)

Lone ==
  /\ starts = 0 => disk = <<>> /\ \A p \in Procs : pc[p] = "off"
  /\ starts = 1 /\ faults = 0 =>
       /\ \A p, q \in Procs : pc[p] # "off" /\ pc[q] # "off" => p = q
       /\ \A i \in DOMAIN disk : disk[i].bytes > MaxSize => Len(disk[i].lines) = 1
       /\ (\A p \in Procs : pc[p] \notin {"shift", "move", "open"})
            => \A g \in 0 .. MaxFiles : name[g] = Nth(g)
       /\ \A p \in Procs : LoneWriter(p)

WriterStep(p) ==
  \/ Start(p) \/ Stop(p) \/ Reopen(p)
  \/ \E l \in [no : 1 .. MaxLines, len : LineSizes] : Fits(p, l) \/ Rotate(p, l)
  \/ Shift(p) \/ Move(p) \/ RotateOpens(p) \/ RotateOpenFails(p) \/ Resume(p)

\* A step of one writer leaves the others where they are.
LEMMA OthersStay ==
  ASSUME TypeOK, NEW p \in Procs, WriterStep(p)
  PROVE  /\ \A q \in Procs \ {p} : /\ pc'[q] = pc[q] /\ gen'[q] = gen[q]
                                   /\ f'[q] = f[q] /\ size'[q] = size[q]
         /\ pins' = pins
<1> USE DEF TypeOK, ghostVars
<1>1. CASE Start(p) \/ RotateOpens(p)
  BY <1>1 DEF Start, RotateOpens, Open
<1>2. CASE Stop(p)
  BY <1>2 DEF Stop
<1>3. CASE Reopen(p)
  BY <1>3 DEF Reopen, Open
<1>4. ASSUME NEW l \in [no : 1 .. MaxLines, len : LineSizes], Fits(p, l) \/ Rotate(p, l)
      PROVE  /\ \A q \in Procs \ {p} : /\ pc'[q] = pc[q] /\ gen'[q] = gen[q]
                                       /\ f'[q] = f[q] /\ size'[q] = size[q]
             /\ pins' = pins
  BY <1>4 DEF Fits, Rotate, AppendTo
<1>5. CASE Shift(p) \/ Move(p) \/ RotateOpenFails(p)
  BY <1>5 DEF Shift, Move, RotateOpenFails
<1>6. CASE Resume(p)
  BY <1>6 DEF Resume, AppendTo
<1> QED
  BY <1>1, <1>2, <1>3, <1>4, <1>5, <1>6 DEF WriterStep

\* How a step of p looks from where p is.
LEMMA WriterMoves ==
  ASSUME LogInductive, NEW p \in Procs, WriterStep(p)
  PROVE  \/ /\ Open(p) /\ faults' = faults
            /\ \/ Start(p) /\ pc[p] = "off" /\ pc'[p] = "idle" /\ starts' = starts + 1
               \/ Reopen(p) /\ pc[p] = "idle" /\ f[p] = 0 /\ pc'[p] = "check" /\ starts' = starts
               \/ /\ RotateOpens(p) /\ pc[p] = "open" /\ pc'[p] = "append" /\ starts' = starts
         \/ /\ Stop(p) /\ pc[p] = "idle" /\ pc'[p] = "off" /\ f'[p] = 0
            /\ UNCHANGED <<disk, name, faults, starts>>
         \/ /\ \E l \in [no : 1 .. MaxLines, len : LineSizes] : Rotate(p, l)
            /\ pc[p] \in {"idle", "check"} /\ pc'[p] = Left(MaxFiles - 1)
            /\ gen'[p] = MaxFiles - 1 /\ f'[p] = 0
            /\ UNCHANGED <<disk, faults, starts>>
         \/ /\ \E l \in [no : 1 .. MaxLines, len : LineSizes] : Fits(p, l)
            /\ pc[p] \in {"idle", "check"} /\ pc'[p] = "idle" /\ f'[p] = f[p]
            /\ UNCHANGED <<name, faults, starts, ghostVars>>
         \/ /\ Resume(p) /\ pc[p] = "append" /\ pc'[p] = "idle" /\ f'[p] = f[p]
            /\ UNCHANGED <<name, faults, starts, ghostVars>>
         \/ /\ Shift(p) /\ pc[p] = "shift" /\ pc'[p] = Left(gen[p] - 1)
            /\ gen'[p] = gen[p] - 1 /\ f' = f /\ Rename(p, gen[p], gen[p] + 1)
            /\ UNCHANGED <<disk, starts, ghostVars>>
         \/ /\ Move(p) /\ pc[p] = "move" /\ pc'[p] = "open" /\ gen' = gen /\ f' = f
            /\ Rename(p, 0, 1)
            /\ UNCHANGED <<disk, starts, ghostVars>>
         \/ faults' = faults + 1 /\ starts' = starts /\ pc'[p] = "idle" /\ f' = f
<1> USE DEF LogInductive, TypeOK, ghostVars
<1>1. CASE Start(p)
  BY <1>1 DEF Start
<1>2. CASE Stop(p)
  BY <1>2 DEF Stop
<1>3. CASE Reopen(p)
  BY <1>3 DEF Reopen, Fault
<1>4. CASE \E l \in [no : 1 .. MaxLines, len : LineSizes] : Rotate(p, l)
  <2>1. PICK l \in [no : 1 .. MaxLines, len : LineSizes] : Rotate(p, l)
    BY <1>4
  <2>2. pc[p] \in {"idle", "check"} /\ UNCHANGED <<disk, faults, starts>>
    BY <2>1 DEF Rotate, InHand
  <2>3. pc'[p] = Left(MaxFiles - 1) /\ gen'[p] = MaxFiles - 1 /\ f'[p] = 0
    BY <2>1 DEF Rotate
  <2> QED
    BY <1>4, <2>2, <2>3
<1>5. CASE \E l \in [no : 1 .. MaxLines, len : LineSizes] : Fits(p, l)
  BY <1>5 DEF Fits, InHand
<1>6. CASE Shift(p)
  BY <1>6 DEF Shift
<1>7. CASE Move(p)
  BY <1>7 DEF Move
<1>8. CASE RotateOpens(p)
  BY <1>8 DEF RotateOpens
<1>9. CASE RotateOpenFails(p)
  BY <1>9 DEF RotateOpenFails, Fault
<1>10. CASE Resume(p)
  BY <1>10 DEF Resume
<1> QED
  BY <1>1, <1>2, <1>3, <1>4, <1>5, <1>6, <1>7, <1>8, <1>9, <1>10 DEF WriterStep

LEMMA PhasesStep ==
  ASSUME LogInductive, Phases, NEW p \in Procs, WriterStep(p)
  PROVE  Phases'
<1>1. \A q \in Procs \ {p} : pc'[q] = pc[q] /\ gen'[q] = gen[q] /\ f'[q] = f[q]
  BY OthersStay DEF LogInductive
<1>2. /\ f'[p] # 0 => pc'[p] \in {"idle", "check", "append"}
      /\ pc'[p] = "move" => gen'[p] = 0
  <2>1. MaxFiles - 1 \in Nat /\ (pc[p] = "shift" => gen[p] - 1 \in Nat)
    BY LogAssumption DEF LogInductive, Control
  <2> QED
    BY <2>1, WriterMoves DEF Phases, Left
<1> QED
  BY <1>1, <1>2 DEF Phases

-----------------------------------------------------------------------------
(* What a writer holds.                                                    *)
HeldNow(p) ==
  f[p] # 0 =>
    /\ \A q, r \in Renaming : q = r
    /\ under[p] <= MaxFiles => \E g \in 0 .. MaxFiles : StandsAt(p, g)

\* Who opens the path stands at the top, under the rotations that are on their way.
LEMMA OpenerStands ==
  ASSUME LogInductive, Phases, NEW p \in Procs, WriterStep(p), Open(p), p \notin crossed',
         pc[p] \notin {"shift", "move"}, pc'[p] \notin {"shift", "move"}
  PROVE  HeldNow(p)'
<1> DEFINE R == Renaming \ {p}
<1>0. \A q \in Procs \ {p} : pc'[q] = pc[q] /\ gen'[q] = gen[q]
  BY OthersStay DEF LogInductive
<1>1. Renaming' = R
  BY <1>0 DEF Renaming
<1>2. \A q, r \in R : q = r
  BY DEF Open
<1>3. under'[p] = Cardinality(R) /\ IsFiniteSet(R)
  BY LogAssumption, FS_Subset DEF Open, LogInductive, TypeOK, Renaming
<1>4. R # {} => under'[p] > 0
  BY <1>3, FS_EmptySet, FS_CardinalityType
<1>5. 0 \in 0 .. MaxFiles /\ name'[0] = f'[p] /\ under'[p] >= 0
  BY <1>3, LogAssumption, FS_CardinalityType DEF Open, LogInductive, TypeOK
<1>6. \A q \in R : gen'[q] = gen[q] /\ gen[q] \in Nat
  BY <1>0 DEF LogInductive, TypeOK, Renaming
<1>7. StandsAt(p, 0)'
  BY <1>1, <1>4, <1>5, <1>6 DEF StandsAt
<1> QED
  BY <1>1, <1>2, <1>5, <1>7 DEF HeldNow

\* A step that renames nothing and is not the writer's own leaves it where it stands.
LEMMA StandsStill ==
  ASSUME LogInductive, NEW p \in Procs, HeldNow(p), f'[p] \in {0, f[p]},
         Renaming' \subseteq Renaming, \A q \in Renaming' : gen'[q] = gen[q],
         f[p] # 0 => \A g \in 0 .. MaxFiles : name[g] = f[p] => name'[g] = f[p],
         under'[p] = under[p], pins' = pins
  PROVE  HeldNow(p)'
<1>1. ASSUME NEW g \in 0 .. MaxFiles, StandsAt(p, g), f'[p] # 0
      PROVE  StandsAt(p, g)'
  BY <1>1 DEF StandsAt
<1> QED
  BY <1>1 DEF HeldNow

\* A rotation of another begins.
LEMMA StandsUnderOneMore ==
  ASSUME LogInductive, Phases, NEW p \in Procs, NEW q \in Procs \ {p}, WriterStep(q), HeldNow(p),
         NEW l \in [no : 1 .. MaxLines, len : LineSizes], Rotate(q, l), p \notin crossed'
  PROVE  HeldNow(p)'
<1> SUFFICES ASSUME f[p] # 0 PROVE HeldNow(p)'
  BY OthersStay DEF HeldNow, LogInductive
<1>1. /\ p \notin Renaming /\ q \notin Renaming /\ Renaming \ {q, p} = {}
      /\ f'[p] = f[p] /\ pins' = pins
  BY OthersStay DEF LogInductive, Phases, Renaming, Rotate, InHand
<1>2. Renaming = {} /\ Renaming' = {q} /\ gen'[q] = MaxFiles - 1
  <2>1. pc'[q] \in {"shift", "move"} /\ gen'[q] = MaxFiles - 1
    BY DEF LogInductive, TypeOK, Rotate, Left
  <2> QED
    BY <1>1, <2>1, OthersStay DEF LogInductive, Renaming
<1>3. under'[p] = under[p] + 1 /\ under[p] \in Nat
  BY DEF LogInductive, TypeOK, Rotate
<1>4. ASSUME NEW g \in 0 .. MaxFiles, StandsAt(p, g), under'[p] <= MaxFiles
      PROVE  StandsAt(p, g)'
  <2>1. MaxFiles \in Nat /\ g \in Nat /\ g <= under[p] /\ g < MaxFiles /\ name[g] = f[p]
    BY <1>3, <1>4, LogAssumption DEF StandsAt
  <2>2. name'[g] = name[g]
    BY <2>1 DEF LogInductive, TypeOK, Rotate
  <2> QED
    BY <1>1, <1>2, <1>3, <2>1, <2>2 DEF StandsAt
<1> QED
  BY <1>2, <1>3, <1>4, LogAssumption DEF HeldNow

\* Another renames one generation to the next.
LEMMA StandsOrMovesOn ==
  ASSUME LogInductive, Phases, NEW p \in Procs, NEW q \in Procs \ {p}, WriterStep(q), HeldNow(p),
         Shift(q) \/ Move(q), faults' = faults
  PROVE  HeldNow(p)'
<1> DEFINE k == gen[q]
<1> SUFFICES ASSUME f[p] # 0 PROVE HeldNow(p)'
  BY OthersStay DEF HeldNow, LogInductive
<1>0. \A r \in Procs \ {q} : pc'[r] = pc[r]
  BY OthersStay DEF LogInductive
<1>1. /\ Renaming = {q} /\ Renaming' \subseteq {q}
      /\ f' = f /\ pins' = pins /\ under' = under /\ disk' = disk
  <2>1. q \in Renaming
    BY DEF Renaming, Shift, Move
  <2>2. Renaming' \subseteq Renaming \cup {q}
    BY <1>0 DEF Renaming
  <2> QED
    BY <2>1, <2>2 DEF HeldNow, Shift, Move, ghostVars
<1>2. /\ MaxFiles \in Nat /\ k \in 0 .. MaxFiles - 1 /\ k \in Nat /\ k + 1 \in 0 .. MaxFiles
      /\ Rename(q, k, k + 1)
      /\ q \in Renaming' => gen'[q] = k - 1 /\ k - 1 \in Nat
  <2>1. MaxFiles \in Nat \ {0}
    BY LogAssumption
  <2>2. CASE Shift(q)
    <3>1. k \in 1 .. MaxFiles - 1 /\ gen'[q] = k - 1
      BY <2>2 DEF LogInductive, TypeOK, Control, Shift
    <3> QED
      BY <2>1, <2>2, <3>1 DEF Shift
  <2>3. CASE Move(q)
    <3>1. k = 0 /\ q \notin Renaming'
      BY <2>3 DEF LogInductive, TypeOK, Phases, Move, Renaming
    <3>2. 0 + 1 = 1
      OBVIOUS
    <3> QED
      BY <2>1, <2>3, <3>1, <3>2 DEF Move
  <2> QED
    BY <2>2, <2>3
<1>3. name \in [0 .. MaxFiles -> Nat] /\ under[p] \in Nat
  BY DEF LogInductive, TypeOK
<1>4. ASSUME NEW g \in 0 .. MaxFiles, StandsAt(p, g)
      PROVE  \E h \in 0 .. MaxFiles : StandsAt(p, h)'
  <2>1. /\ name[g] = f[p] /\ g <= under[p] /\ g \in Nat
        /\ g <= k => g < under[p]
        /\ ~pins => g # k + 1
    BY <1>1, <1>4 DEF StandsAt
  <2>2. CASE g \notin {k, k + 1} \/ pins
    <3>1. name'[g] = f[p]
      BY <1>2, <1>3, <2>1, <2>2 DEF Rename, Free
    <3> QED
      BY <1>1, <1>2, <2>1, <2>2, <3>1 DEF StandsAt
  <2>3. CASE g = k /\ ~pins
    <3>1. name'[k + 1] = f[p]
      BY <1>2, <1>3, <2>1, <2>3, LogAssumption DEF Rename, Free, Fault, LogInductive, TypeOK
    <3>2. k + 1 <= under'[p] /\ \A r \in Renaming' : ~ (k + 1 <= gen'[r]) /\ k + 1 # gen'[r] + 1
      BY <1>1, <1>2, <1>3, <2>1, <2>3
    <3> QED
      BY <1>1, <1>2, <3>1, <3>2 DEF StandsAt
  <2> QED
    BY <2>1, <2>2, <2>3
<1> QED
  BY <1>1, <1>4 DEF HeldNow

LEMMA HeldStep ==
  ASSUME LogInductive, Phases, HeldIsNear, NEW q \in Procs, WriterStep(q)
  PROVE  HeldIsNear'
<1> SUFFICES ASSUME faults' = 0, NEW p \in Procs, p \notin crossed'
             PROVE  HeldNow(p)'
  BY DEF HeldIsNear, HeldNow
<1>1. faults \in Nat /\ faults = 0
  <2>1. faults' = faults \/ faults' = faults + 1
    BY WriterMoves DEF Rename, Fault
  <2> QED
    BY <2>1 DEF LogInductive, TypeOK
<1>2. p \notin crossed => HeldNow(p)
  BY <1>1 DEF HeldIsNear, HeldNow
<1>3. \A r \in Procs \ {q} : pc'[r] = pc[r] /\ gen'[r] = gen[r] /\ f'[r] = f[r]
  BY OthersStay DEF LogInductive
<1>4. pins' = pins
  BY OthersStay DEF LogInductive
<1>5. CASE Open(q) /\ pc[q] \notin {"shift", "move"} /\ pc'[q] \notin {"shift", "move"}
  <2>1. CASE p = q
    BY <1>5, <2>1, OpenerStands
  <2>2. CASE p # q
    <3>1. p \notin crossed /\ under'[p] = under[p]
      BY <1>5, <2>2 DEF Open, LogInductive, TypeOK
    <3>2. Renaming' = Renaming
      BY <1>3, <1>5 DEF Renaming
    <3>3. \A r \in Renaming' : gen'[r] = gen[r]
      BY <1>3, <1>5 DEF Renaming
    <3>4. f[p] # 0 => \A g \in 0 .. MaxFiles : name[g] = f[p] => name'[g] = f[p]
      BY <1>5 DEF Open, LogInductive, TypeOK
    <3> QED
      BY <1>2, <1>3, <1>4, <2>2, <3>1, <3>2, <3>3, <3>4, StandsStill
  <2> QED
    BY <2>1, <2>2
<1>6. CASE \E l \in [no : 1 .. MaxLines, len : LineSizes] : Rotate(q, l)
  <2>1. CASE p = q
    <3>1. f'[p] = 0
      BY <1>6, <2>1 DEF Rotate, LogInductive, TypeOK
    <3> QED
      BY <3>1 DEF HeldNow
  <2>2. CASE p # q
    <3>1. p \notin crossed
      BY <1>6, <2>2 DEF Rotate
    <3> QED
      BY <1>2, <1>6, <2>2, <3>1, StandsUnderOneMore
  <2> QED
    BY <2>1, <2>2
<1>7. CASE (Shift(q) \/ Move(q)) /\ faults' = faults
  <2>1. CASE p = q
    <3>1. f'[p] = 0
      BY <1>7, <2>1 DEF Shift, Move, Phases
    <3> QED
      BY <3>1 DEF HeldNow
  <2>2. CASE p # q
    <3>1. p \notin crossed
      BY <1>7 DEF Shift, Move, ghostVars
    <3> QED
      BY <1>2, <1>7, <2>2, <3>1, StandsOrMovesOn
  <2> QED
    BY <2>1, <2>2
<1>8. CASE /\ pc[q] \notin {"shift", "move"} /\ pc'[q] \notin {"shift", "move"}
           /\ f'[q] \in {0, f[q]} /\ name' = name
           /\ p # q \/ f'[q] # 0 => under'[p] = under[p] /\ p \notin crossed
  <2>1. Renaming' = Renaming
    BY <1>3, <1>8 DEF Renaming
  <2>2. \A r \in Renaming' : gen'[r] = gen[r]
    BY <1>3, <1>8 DEF Renaming
  <2>3. CASE f'[p] = 0
    BY <2>3 DEF HeldNow
  <2>4. CASE f'[p] # 0
    BY <1>2, <1>3, <1>4, <1>8, <2>1, <2>2, <2>4, StandsStill
  <2> QED
    BY <2>3, <2>4
<1>9. CASE Stop(q) /\ pc[q] = "idle" /\ pc'[q] = "off" /\ f'[q] = 0 /\ name' = name
  <2>1. p # q => under'[p] = under[p] /\ p \notin crossed
    BY <1>9 DEF Stop, LogInductive, TypeOK
  <2> QED
    BY <1>8, <1>9, <2>1
<1>10. CASE /\ pc[q] \notin {"shift", "move"} /\ pc'[q] \notin {"shift", "move"}
            /\ f'[q] = f[q] /\ UNCHANGED <<name, ghostVars>>
  BY <1>8, <1>10 DEF ghostVars
<1> QED
  BY <1>1, <1>5, <1>6, <1>7, <1>9, <1>10, WriterMoves

-----------------------------------------------------------------------------
(* What a lone writer keeps.                                               *)
Alone ==
  /\ \A p, q \in Procs : pc[p] # "off" /\ pc[q] # "off" => p = q
  /\ \A i \in DOMAIN disk : disk[i].bytes > MaxSize => Len(disk[i].lines) = 1
  /\ (\A p \in Procs : pc[p] \notin {"shift", "move", "open"})
       => \A g \in 0 .. MaxFiles : name[g] = Nth(g)
  /\ \A p \in Procs : LoneWriter(p)

\* What is on the disk, as a lone writer uses it.
LEMMA DiskTyped ==
  ASSUME LogInductive
  PROVE  /\ Len(disk) \in Nat /\ DOMAIN disk = 1 .. Len(disk)
         /\ \A i \in DOMAIN disk : disk[i].lines \in Seq(Line) /\ disk[i].bytes \in Nat
         /\ name \in [0 .. MaxFiles -> 0 .. Len(disk)]
         /\ MaxFiles \in Nat \ {0} /\ MaxSize \in Nat
         /\ f \in [Procs -> 0 .. Len(disk)] /\ size \in [Procs -> Nat]
         /\ pc \in [Procs -> {"off", "idle", "check", "shift", "move", "open", "append"}]
         /\ gen \in [Procs -> 0 .. MaxFiles] /\ starts \in Nat /\ faults \in Nat
<1>1. disk \in Seq(File)
  BY DEF LogInductive, TypeOK
<1>2. \A i \in DOMAIN disk : disk[i] \in File
  BY <1>1, ElementOfSeq, LenProperties
<1> QED
  BY <1>1, <1>2, LenProperties, LogAssumption DEF LogInductive, TypeOK, File

\* The first process opens the log.
LEMMA FirstStart ==
  ASSUME LogInductive, LogInductive', Phases, NEW p \in Procs, Start(p),
         disk = <<>>, \A q \in Procs : pc[q] = "off", \A g \in 0 .. MaxFiles : name[g] = 0
  PROVE  Alone'
<1>1. /\ 0 \in 0 .. MaxFiles /\ name[0] = 0
      /\ \A q \in Procs : pc'[q] = IF q = p THEN "idle" ELSE "off"
  BY DiskTyped DEF Start
<1>2. /\ disk' = Append(<<>>, [lines |-> <<>>, bytes |-> 0])
      /\ name' = [name EXCEPT ![0] = 1]
      /\ f' = [f EXCEPT ![p] = 1] /\ size'[p] = disk'[1].bytes
  <2>1. /\ disk' = Append(<<>>, [lines |-> <<>>, bytes |-> 0])
        /\ name' = [name EXCEPT ![0] = 0 + 1]
        /\ f' = [f EXCEPT ![p] = name'[0]] /\ size' = [size EXCEPT ![p] = disk'[name'[0]].bytes]
    BY <1>1 DEF Start, Open
  <2>2. name'[0] = 1
    BY <1>1, <2>1, DiskTyped
  <2> QED
    BY <2>1, <2>2, DiskTyped
<1>3. Len(disk') = 1 /\ DOMAIN disk' = {1} /\ disk'[1] = [lines |-> <<>>, bytes |-> 0]
  BY <1>2
<1>4. \A g \in 0 .. MaxFiles : name'[g] = Nth(g)'
  BY <1>1, <1>2, <1>3, DiskTyped DEF Nth
<1>5. \A q \in Procs : LoneWriter(q)'
  BY <1>1, <1>2, <1>3, DiskTyped DEF LoneWriter
<1>6. \A i \in DOMAIN disk' : ~ (disk'[i].bytes > MaxSize)
  BY <1>3, DiskTyped
<1> QED
  BY <1>1, <1>4, <1>5, <1>6 DEF Alone

\* A lone writer is in nobody's way.
LEMMA LoneIsFree ==
  ASSUME LogInductive, Alone, \A q \in Procs : pc[q] = "off" => f[q] = 0,
         NEW p \in Procs, pc[p] # "off", NEW g \in 0 .. MaxFiles
  PROVE  Free(p, g)
BY DEF Alone, Free

\* It puts a line into its file.
LEMMA LoneAppends ==
  ASSUME LogInductive, LogInductive', Alone, NEW p \in Procs, WriterStep(p),
         \/ \E l \in [no : 1 .. MaxLines, len : LineSizes] : Fits(p, l)
         \/ Resume(p)
  PROVE  Alone'
<1> DEFINE n == f[p]
<1>1. LoneWriter(p) /\ n \in 1 .. Len(disk) /\ n = Len(disk) /\ size[p] = disk[n].bytes
      /\ pc[p] \in {"idle", "append"}
  <2>1. LoneWriter(p) /\ pc[p] \in {"idle", "append"}
    BY DEF Alone, LoneWriter, Resume, Fits, InHand
  <2> QED
    BY <2>1, DiskTyped DEF LoneWriter
<1>2. PICK l \in [no : Nat, len : Nat] :
        /\ AppendTo(p, n, l)
        /\ size[p] + l.len <= MaxSize \/ disk[n].lines = <<>>
  <2>1. 1 .. MaxLines \subseteq Nat /\ LineSizes \subseteq Nat
    BY LogAssumption
  <2>2. CASE Resume(p)
    BY <1>1, <2>2 DEF Resume, LoneWriter, LogInductive, TypeOK
  <2>3. ASSUME NEW l \in [no : 1 .. MaxLines, len : LineSizes], Fits(p, l)
        PROVE  /\ l \in [no : Nat, len : Nat] /\ AppendTo(p, n, l)
               /\ size[p] + l.len <= MaxSize
    BY <2>1, <2>3 DEF Fits
  <2> QED
    BY <2>2, <2>3
<1>3. /\ f' = f /\ name' = name /\ pc'[p] = "idle"
      /\ \A q \in Procs \ {p} : pc'[q] = pc[q]
  BY DiskTyped DEF Resume, Fits
<1>4. /\ Len(disk') = Len(disk)
      /\ \A i \in 1 .. Len(disk) : i # n => disk'[i] = disk[i]
      /\ disk'[n].bytes = disk[n].bytes + l.len
      /\ Len(disk'[n].lines) = Len(disk[n].lines) + 1
  <2>1. /\ Len(disk') = Len(disk)
        /\ \A i \in 1 .. Len(disk) : i # n => disk'[i] = disk[i]
        /\ disk[n].lines \in Seq(Line)
        /\ disk'[n].lines = Append(disk[n].lines, [by |-> p, no |-> l.no, len |-> l.len])
    BY <1>1, <1>2, AppendAdds DEF LogInductive
  <2>2. disk'[n].bytes = disk[n].bytes + l.len
    BY <1>1, <1>2, DiskTyped DEF AppendTo
  <2> QED
    BY <2>1, <2>2
<1>5. size'[p] = disk'[n].bytes
  BY <1>1, <1>2, <1>4, DiskTyped DEF AppendTo
<1>6. ASSUME NEW i \in DOMAIN disk', disk'[i].bytes > MaxSize
      PROVE  Len(disk'[i].lines) = 1
  <2>0. disk' \in Seq(File)
    BY DEF LogInductive, TypeOK
  <2>1. i \in 1 .. Len(disk) /\ i \in DOMAIN disk
    BY <1>4, <2>0, DiskTyped, LenProperties
  <2>2. CASE i # n
    BY <1>4, <1>6, <2>1, <2>2 DEF Alone
  <2>3. CASE i = n
    <3>1. disk[n].bytes \in Nat /\ l.len \in Nat /\ MaxSize \in Nat
      BY <2>1, <2>3, DiskTyped
    <3>2. ~ (size[p] + l.len <= MaxSize)
      BY <1>1, <1>4, <1>6, <2>3, <3>1
    <3>3. Len(disk[n].lines) = 0
      BY <1>2, <3>2
    <3> QED
      BY <1>4, <2>3, <3>3
  <2> QED
    BY <2>2, <2>3
<1>7. \A g \in 0 .. MaxFiles : Nth(g)' = Nth(g)
  BY <1>4 DEF Nth
<1>8. \A q \in Procs \ {p} : pc[q] = "off"
  BY <1>1 DEF Alone
<1>9. \A g \in 0 .. MaxFiles : name'[g] = Nth(g)'
  BY <1>1, <1>3, <1>7, <1>8 DEF Alone
<1>10. \A q \in Procs : LoneWriter(q)'
  BY <1>1, <1>3, <1>4, <1>5, <1>8 DEF LoneWriter
<1> QED
  BY <1>3, <1>6, <1>8, <1>9, <1>10 DEF Alone

\* It begins a rotation, or renames one generation to the next.
LEMMA LoneRotates ==
  ASSUME LogInductive, LogInductive', Phases, Alone, NEW p \in Procs, WriterStep(p),
         \A q \in Procs : pc[q] = "off" => f[q] = 0,
         \/ \E l \in [no : 1 .. MaxLines, len : LineSizes] : Rotate(p, l)
         \/ (Shift(p) \/ Move(p)) /\ faults' = faults
  PROVE  Alone'
<1>1. /\ LoneWriter(p) /\ pc[p] # "off" /\ \A g \in 0 .. MaxFiles : Free(p, g)
      /\ disk' = disk
  BY LoneIsFree DEF Alone, Rotate, InHand, Shift, Move
<1>2. \A q \in Procs \ {p} : pc[q] = "off" /\ pc'[q] = "off"
  BY <1>1, OthersStay DEF LogInductive, Alone
<1>3. /\ Len(disk) \in Nat /\ MaxFiles \in Nat \ {0} /\ name \in [0 .. MaxFiles -> 0 .. Len(disk)]
      /\ \A g : Nth(g)' = Nth(g)
  BY <1>1, DiskTyped DEF Nth
<1>4. CASE \E l \in [no : 1 .. MaxLines, len : LineSizes] : Rotate(p, l)
  <2>1. /\ pc'[p] \in {"shift", "move"} /\ gen'[p] = MaxFiles - 1
        /\ name' = [name EXCEPT ![MaxFiles] = 0]
    BY <1>1, <1>3, <1>4, DiskTyped DEF Rotate, Left
  <2>2. \A g \in 0 .. MaxFiles : name[g] = Nth(g)
    BY <1>2, <1>4 DEF Alone, Rotate, InHand
  <2>3. LoneWriter(p)'
    BY <1>3, <2>1, <2>2 DEF LoneWriter
  <2> QED
    BY <1>1, <1>2, <2>1, <2>3 DEF Alone, LoneWriter
<1>5. CASE (Shift(p) \/ Move(p)) /\ faults' = faults
  <2> DEFINE k == gen[p]
  <2>1. /\ k \in 0 .. MaxFiles - 1 /\ Rename(p, k, k + 1)
        /\ pc'[p] \in {"shift", "move"} => gen'[p] = k - 1 /\ k - 1 \in Nat
        /\ pc'[p] \in {"shift", "move", "open"} /\ (pc'[p] = "open" => k = 0)
    <3>1. CASE Shift(p)
      <4>1. k \in 1 .. MaxFiles - 1 /\ gen'[p] = k - 1 /\ pc'[p] = Left(k - 1)
        BY <3>1, DiskTyped DEF LogInductive, Control, Shift
      <4> QED
        BY <1>3, <3>1, <4>1 DEF Shift, Left
    <3>2. CASE Move(p)
      <4>1. k = 0 /\ pc'[p] = "open" /\ 0 + 1 = 1
        BY <3>2, DiskTyped DEF Phases, Move
      <4> QED
        BY <1>3, <3>2, <4>1 DEF Move
    <3> QED
      BY <1>5, <3>1, <3>2
  <2>2. \A g \in 0 .. MaxFiles :
          name[g] = IF g <= k THEN Nth(g) ELSE IF g = k + 1 THEN 0 ELSE Nth(g - 1)
    BY <1>1, <1>5 DEF LoneWriter, Shift, Move
  <2>3. \A g \in 0 .. MaxFiles :
          name'[g] = IF g < k THEN Nth(g) ELSE IF g = k THEN 0 ELSE Nth(g - 1)
    <3>0. /\ k \in 0 .. MaxFiles /\ k + 1 \in 0 .. MaxFiles /\ k # k + 1 /\ k \in Nat
          /\ \A g \in 0 .. MaxFiles : g \in Nat /\ (g <= k <=> g < k \/ g = k)
      BY <1>3, <2>1
    <3>1. name[k] = Nth(k) /\ name[k + 1] = 0 /\ (k + 1) - 1 = k
      BY <2>2, <3>0
    <3>2. /\ name'[k] = 0 /\ name'[k + 1] = name[k]
          /\ \A g \in (0 .. MaxFiles) \ {k, k + 1} : name'[g] = name[g]
      <4>1. CASE name[k] = 0
        BY <1>5, <2>1, <3>0, <3>1, <4>1 DEF Rename
      <4>2. CASE name[k] # 0
        <5>1. name' = [name EXCEPT ![k + 1] = name[k], ![k] = 0]
          BY <1>1, <1>5, <2>1, <3>0, <4>2, DiskTyped DEF Rename, Fault
        <5> QED
          BY <1>3, <3>0, <5>1
      <4> QED
        BY <4>1, <4>2
    <3> QED
      BY <2>2, <3>0, <3>1, <3>2
  <2>4. LoneWriter(p)'
    <3>1. CASE pc'[p] = "open"
      <4>1. \A g \in 0 .. MaxFiles : name'[g] = IF g = 0 THEN 0 ELSE Nth(g - 1)
        BY <2>1, <2>3, <3>1
      <4> QED
        BY <1>3, <3>1, <4>1 DEF LoneWriter
    <3>2. CASE pc'[p] # "open"
      <4>1. k \in Nat /\ gen'[p] = k - 1 /\ pc'[p] \in {"shift", "move"}
        BY <2>1, <3>2
      <4>2. \A g \in 0 .. MaxFiles :
              name'[g] = IF g <= gen'[p] THEN Nth(g) ELSE IF g = gen'[p] + 1 THEN 0 ELSE Nth(g - 1)
        BY <2>3, <4>1
      <4> QED
        BY <1>3, <4>1, <4>2 DEF LoneWriter
    <3> QED
      BY <3>1, <3>2
  <2> QED
    BY <1>1, <1>2, <2>1, <2>4 DEF Alone, LoneWriter
<1> QED
  BY <1>4, <1>5

\* It opens the log again.
LEMMA LoneReopens ==
  ASSUME LogInductive, LogInductive', Alone, NEW p \in Procs, WriterStep(p), RotateOpens(p)
  PROVE  Alone'
<1>1. LoneWriter(p) /\ pc[p] = "open" /\ pc'[p] = "append"
  BY DiskTyped DEF Alone, RotateOpens
<1>2. \A q \in Procs \ {p} : pc[q] = "off" /\ pc'[q] = "off"
  BY <1>1, OthersStay DEF LogInductive, Alone
<1>3. /\ Len(disk) \in Nat /\ MaxFiles \in Nat \ {0} /\ name \in [0 .. MaxFiles -> 0 .. Len(disk)]
      /\ 0 \in 0 .. MaxFiles /\ name[0] = 0 /\ MaxSize \in Nat
      /\ \A g \in 1 .. MaxFiles : g \in 0 .. MaxFiles /\ name[g] = Nth(g - 1)
  BY <1>1, DiskTyped DEF LoneWriter
<1>4. /\ disk' = Append(disk, [lines |-> <<>>, bytes |-> 0])
      /\ name' = [name EXCEPT ![0] = Len(disk) + 1]
      /\ f' = [f EXCEPT ![p] = name'[0]] /\ size' = [size EXCEPT ![p] = disk'[name'[0]].bytes]
  BY <1>3 DEF RotateOpens, Open
<1>5. /\ Len(disk') = Len(disk) + 1 /\ DOMAIN disk' = 1 .. Len(disk) + 1
      /\ \A i \in 1 .. Len(disk) : disk'[i] = disk[i]
      /\ disk'[Len(disk) + 1] = [lines |-> <<>>, bytes |-> 0]
  BY <1>4, DiskTyped DEF LogInductive, TypeOK
<1>6. name'[0] = Len(disk') /\ f'[p] = Len(disk') /\ size'[p] = disk'[f'[p]].bytes
  BY <1>3, <1>4, <1>5, DiskTyped
<1>7. \A g \in 0 .. MaxFiles : name'[g] = Nth(g)'
  <2>1. \A g \in 1 .. MaxFiles : name'[g] = name[g] /\ Nth(g)' = Nth(g - 1)
    BY <1>3, <1>4, <1>5 DEF Nth
  <2>2. Nth(0)' = Len(disk')
    BY <1>3, <1>5 DEF Nth
  <2>3. \A g \in 0 .. MaxFiles : g = 0 \/ g \in 1 .. MaxFiles
    BY <1>3
  <2> QED
    BY <1>3, <1>6, <2>1, <2>2, <2>3
<1>8. LoneWriter(p)'
  BY <1>1, <1>3, <1>5, <1>6 DEF LoneWriter
<1>9. \A i \in DOMAIN disk' : disk'[i].bytes > MaxSize => Len(disk'[i].lines) = 1
  BY <1>3, <1>5, DiskTyped DEF Alone
<1> QED
  BY <1>1, <1>2, <1>7, <1>8, <1>9 DEF Alone, LoneWriter

\* A process without the log has no file, and nothing is there before the first.
Closed ==
  /\ \A p \in Procs : pc[p] = "off" => f[p] = 0
  /\ starts = 0 => \A g \in 0 .. MaxFiles : name[g] = 0

LEMMA ClosedStep ==
  ASSUME LogInductive, LogInductive', Closed, Lone, NEW p \in Procs, WriterStep(p)
  PROVE  Closed'
<1>1. starts \in Nat /\ (starts' = starts \/ starts' = starts + 1)
  BY WriterMoves, DiskTyped
<1>2. pc'[p] = "off" => f'[p] = 0
  BY WriterMoves, LogAssumption DEF Left
<1>3. starts' = 0 => FALSE
  <2>1. starts' = 0 => starts = 0 /\ pc[p] = "off" /\ starts' = starts
    BY <1>1 DEF Lone
  <2>2. pc[p] = "off" => Start(p)
    BY DEF WriterStep, Stop, Reopen, Fits, Rotate, InHand, Shift, Move, RotateOpens,
           RotateOpenFails, Resume
  <2> QED
    BY <1>1, <2>1, <2>2 DEF Start
<1> QED
  BY <1>2, <1>3, OthersStay DEF Closed, LogInductive

LEMMA LoneStep ==
  ASSUME LogInductive, LogInductive', Phases, Closed, Lone, NEW p \in Procs, WriterStep(p)
  PROVE  Lone'
<1>1. /\ starts \in Nat /\ faults \in Nat /\ starts' \in Nat /\ faults' \in Nat
      /\ starts' = starts \/ (Start(p) /\ starts' = starts + 1)
      /\ faults' = faults \/ faults' = faults + 1
  BY WriterMoves, DiskTyped DEF LogInductive, TypeOK, Rename, Fault
<1>2. pc[p] = "off" => Start(p)
  BY DEF WriterStep, Stop, Reopen, Fits, Rotate, InHand, Shift, Move, RotateOpens,
         RotateOpenFails, Resume
<1>3. starts' # 0
  BY <1>1, <1>2 DEF Lone, Start
<1> SUFFICES ASSUME starts' = 1, faults' = 0 PROVE Alone'
  BY <1>3 DEF Lone, Alone
<1>4. faults = 0 /\ faults' = faults
  BY <1>1
<1>5. CASE starts = 0
  <2>1. disk = <<>> /\ \A q \in Procs : pc[q] = "off"
    BY <1>5 DEF Lone
  <2>2. \A g \in 0 .. MaxFiles : name[g] = 0
    BY <1>5 DEF Closed
  <2> QED
    BY <1>2, <2>1, <2>2, FirstStart
<1>6. CASE starts # 0
  <2>1. Alone /\ starts = 1 /\ ~ Start(p) /\ starts' = starts
    BY <1>1, <1>4, <1>6 DEF Lone, Alone, Start
  <2>2. LoneWriter(p)
    BY <2>1 DEF Alone
  <2>3. CASE Stop(p)
    <3>1. /\ disk' = disk /\ name' = name /\ pc[p] = "idle" /\ pc'[p] = "off"
          /\ \A q \in Procs \ {p} : pc'[q] = pc[q]
      BY <2>3, DiskTyped DEF Stop
    <3>2. /\ \A q \in Procs \ {p} : pc[q] = "off"
          /\ \A g \in 0 .. MaxFiles : Nth(g)' = Nth(g) /\ name[g] = Nth(g)
      BY <2>1, <3>1 DEF Alone, Nth
    <3> QED
      BY <2>1, <3>1, <3>2 DEF Alone, LoneWriter
  <2>4. ~ Reopen(p)
    BY <2>2 DEF LoneWriter, Reopen
  <2>5. CASE RotateOpens(p)
    BY <2>1, <2>5, LoneReopens
  <2>6. CASE (Shift(p) \/ Move(p)) \/ \E l \in [no : 1 .. MaxLines, len : LineSizes] : Rotate(p, l)
    BY <1>4, <2>1, <2>6, LoneRotates DEF Closed
  <2>7. CASE Resume(p) \/ \E l \in [no : 1 .. MaxLines, len : LineSizes] : Fits(p, l)
    BY <2>1, <2>7, LoneAppends
  <2>8. ~ RotateOpenFails(p)
    BY <1>4, DiskTyped DEF RotateOpenFails, Fault
  <2> QED
    BY <2>1, <2>3, <2>4, <2>5, <2>6, <2>7, <2>8 DEF WriterStep
<1> QED
  BY <1>5, <1>6

KeptInductive == LogInductive /\ Phases /\ HeldIsNear /\ Closed /\ Lone

LEMMA KeptInit == Init => KeptInductive
<1> SUFFICES ASSUME Init PROVE KeptInductive
  OBVIOUS
<1>1. LogInductive /\ MaxFiles \in Nat
  BY LogInit, LogAssumption
<1>2. Phases /\ HeldIsNear /\ Closed /\ Lone
  BY <1>1 DEF Init, Phases, HeldIsNear, Closed, Lone
<1> QED
  BY <1>1, <1>2 DEF KeptInductive

LEMMA KeptStep == KeptInductive /\ [Next]_vars => KeptInductive'
<1> SUFFICES ASSUME KeptInductive, [Next]_vars PROVE KeptInductive'
  OBVIOUS
<1>1. LogInductive /\ LogInductive'
  BY LogStep DEF KeptInductive
<1>2. ASSUME NEW p \in Procs, WriterStep(p) PROVE KeptInductive'
  BY <1>1, <1>2, PhasesStep, HeldStep, ClosedStep, LoneStep DEF KeptInductive
<1>3. CASE UNCHANGED vars
  <2>1. Phases' /\ Closed'
    BY <1>3 DEF KeptInductive, Phases, Closed, vars, writerVars
  <2>2. HeldIsNear'
    <3>1. Renaming' = Renaming
      BY <1>3 DEF Renaming, vars, writerVars
    <3> QED
      BY <1>3, <3>1 DEF KeptInductive, HeldIsNear, StandsAt, vars, writerVars, ghostVars
  <2>3. Lone'
    BY <1>3 DEF KeptInductive, Lone, LoneWriter, Nth, vars, writerVars
  <2> QED
    BY <1>1, <2>1, <2>2, <2>3 DEF KeptInductive
<1> QED
  BY <1>2, <1>3 DEF Next, WriterStep

\* A lone writer's names are those of its youngest files.
LEMMA NamesCountFiles ==
  ASSUME LogInductive, \A g \in 0 .. MaxFiles : name[g] = Nth(g)
  PROVE  {i \in DOMAIN disk : i + MaxFiles >= Len(disk)} = Named
<1>1. Len(disk) \in Nat /\ DOMAIN disk = 1 .. Len(disk) /\ MaxFiles \in Nat
  BY DiskTyped
<1>2. ASSUME NEW i \in DOMAIN disk, i + MaxFiles >= Len(disk) PROVE i \in Named
  <2>1. Len(disk) - i \in 0 .. MaxFiles /\ Nth(Len(disk) - i) = i /\ i # 0
    BY <1>1, <1>2 DEF Nth
  <2> QED
    BY <2>1 DEF Named
<1>3. ASSUME NEW g \in 0 .. MaxFiles, Nth(g) # 0
      PROVE  Nth(g) \in DOMAIN disk /\ Nth(g) + MaxFiles >= Len(disk)
  <2>1. g \in Nat /\ g <= MaxFiles /\ g < Len(disk) /\ Nth(g) = Len(disk) - g
    BY <1>3 DEF Nth
  <2> QED
    BY <1>1, <2>1
<1>4. ASSUME NEW i \in Named PROVE i \in DOMAIN disk /\ i + MaxFiles >= Len(disk)
  BY <1>3 DEF Named
<1> QED
  BY <1>2, <1>4

\* However many processes share the log: where renaming works, a line goes into a file
\* that a name leads to, unless more than log.max_files rotations of others, or two of
\* them at once, have come between; and a lone writer loses nothing but what is pushed
\* out by log.max_files younger files, and lets no file outgrow the limit (logx.go:133-151).
THEOREM LogIsKept == Spec => []LogKept
<1>1. ASSUME KeptInductive PROVE HeldLogKept
  <2> SUFFICES ASSUME faults = 0, NEW p \in Procs, p \notin crossed, f[p] # 0,
                      under[p] <= MaxFiles
               PROVE  f[p] \in Named
    BY DEF HeldLogKept
  <2>1. PICK g \in 0 .. MaxFiles : StandsAt(p, g)
    BY <1>1 DEF KeptInductive, HeldIsNear
  <2> QED
    BY <2>1 DEF StandsAt, Named
<1>2. ASSUME KeptInductive PROVE LoneWriterKeepsAll
  <2> SUFFICES ASSUME starts = 1, faults = 0
               PROVE  /\ \A p \in Procs : pc[p] = "idle" =>
                            {i \in DOMAIN disk : i + MaxFiles >= Len(disk)} = Named
                      /\ \A i \in DOMAIN disk : disk[i].bytes > MaxSize => Len(disk[i].lines) = 1
    BY DEF LoneWriterKeepsAll
  <2>1. Alone
    BY <1>2 DEF KeptInductive, Lone, Alone
  <2>2. ASSUME NEW p \in Procs, pc[p] = "idle"
        PROVE  {i \in DOMAIN disk : i + MaxFiles >= Len(disk)} = Named
    <3>1. \A q \in Procs : pc[q] \notin {"shift", "move", "open"}
      BY <2>1, <2>2 DEF Alone
    <3> QED
      BY <1>2, <2>1, <3>1, NamesCountFiles DEF Alone, KeptInductive
  <2> QED
    BY <2>1, <2>2 DEF Alone
<1>3. KeptInductive => LogKept
  BY <1>1, <1>2 DEF LogKept
<1> QED
  BY <1>3, KeptInit, KeptStep, PTL DEF Spec

-----------------------------------------------------------------------------
(* How large a file grows.                                                 *)

\* The processes, numbered.
member ==
  CHOOSE b \in [1 .. Cardinality(Procs) -> Procs] :
    /\ \A m, n \in 1 .. Cardinality(Procs) : b[m] = b[n] => m = n
    /\ \A p \in Procs : \E n \in 1 .. Cardinality(Procs) : b[n] = p

\* What file i may hold of process p: of one that has it open no more than it knows of,
\* of one that has just left it for a new file nothing.
ShareOf(p, i, share) ==
  /\ share >= 0 /\ \E most \in LineSizes \cup {MaxSize} : share <= most
  /\ f[p] = i => share <= size[p] /\ (pc[p] = "append" => share = 0)
  /\ pc[p] = "open" /\ name[0] = i => share = 0

\* The file's bytes are the shares of the processes; total[n] is what the first n have.
SharedOut(i, total) ==
  /\ total \in [0 .. Cardinality(Procs) -> 0 .. disk[i].bytes]
  /\ total[0] = 0 /\ total[Cardinality(Procs)] = disk[i].bytes
  /\ \A n \in 1 .. Cardinality(Procs) : ShareOf(member[n], i, total[n] - total[n - 1])

Shared ==
  /\ \A p \in Procs : Writing(p) => line[p].len \in LineSizes
  /\ ~pins /\ faults = 0 =>
       \A i \in DOMAIN disk :
         \E total \in [0 .. Cardinality(Procs) -> 0 .. disk[i].bytes] : SharedOut(i, total)

LEMMA Members ==
  /\ Cardinality(Procs) \in Nat
  /\ member \in [1 .. Cardinality(Procs) -> Procs]
  /\ \A m, n \in 1 .. Cardinality(Procs) : member[m] = member[n] => m = n
  /\ \A p \in Procs : \E n \in 1 .. Cardinality(Procs) : member[n] = p
<1> DEFINE N == Cardinality(Procs)
<1>1. N \in Nat /\ ExistsBijection(1 .. N, Procs)
  BY LogAssumption, FS_CardinalityType
<1>2. PICK b \in Bijection(1 .. N, Procs) : TRUE
  BY <1>1 DEF ExistsBijection
<1>3. /\ b \in [1 .. N -> Procs]
      /\ \A m, n \in 1 .. N : b[m] = b[n] => m = n
      /\ \A p \in Procs : \E n \in 1 .. N : b[n] = p
  BY <1>2 DEF Bijection, Injection, Surjection, IsInjective
<1> HIDE DEF N
<1>4. \E c \in [1 .. N -> Procs] :
        /\ \A m, n \in 1 .. N : c[m] = c[n] => m = n
        /\ \A p \in Procs : \E n \in 1 .. N : c[n] = p
  BY <1>3
<1>5. member = CHOOSE c \in [1 .. N -> Procs] :
        /\ \A m, n \in 1 .. N : c[m] = c[n] => m = n
        /\ \A p \in Procs : \E n \in 1 .. N : c[n] = p
  BY DEF member, N
<1> QED
  BY <1>1, <1>4, <1>5 DEF N

\* Where nothing is added to the file, the shares are still the shares.
LEMMA SharesKept ==
  ASSUME NEW i, disk[i].bytes \in Nat, disk'[i].bytes = disk[i].bytes,
         NEW total, SharedOut(i, total),
         \A q \in Procs, share \in 0 .. disk[i].bytes :
           ShareOf(q, i, share) => ShareOf(q, i, share)'
  PROVE  SharedOut(i, total)'
<1>1. ASSUME NEW n \in 1 .. Cardinality(Procs)
      PROVE  ShareOf(member[n], i, total[n] - total[n - 1])'
  <2>1. n \in 0 .. Cardinality(Procs) /\ n - 1 \in 0 .. Cardinality(Procs) /\ member[n] \in Procs
    BY Members
  <2>2. ShareOf(member[n], i, total[n] - total[n - 1])
    BY DEF SharedOut
  <2>3. total[n] - total[n - 1] \in 0 .. disk[i].bytes
    BY <2>1, <2>2 DEF SharedOut, ShareOf
  <2> QED
    BY <2>1, <2>2, <2>3
<1>2. Cardinality(Procs)' = Cardinality(Procs) /\ member' = member
  OBVIOUS
<1> QED
  BY <1>1, <1>2 DEF SharedOut

\* A name that a rotation or an opening gives to the log is that of a new file.
LEMMA TopComesFromOpening ==
  ASSUME LogInductive, NEW p \in Procs, WriterStep(p)
  PROVE  \A i \in DOMAIN disk : name'[0] = i => name[0] = i
<1>1. /\ Len(disk) \in Nat /\ DOMAIN disk = 1 .. Len(disk) /\ MaxFiles \in Nat \ {0}
      /\ name \in [0 .. MaxFiles -> 0 .. Len(disk)] /\ 0 \in 0 .. MaxFiles
  BY DiskTyped
<1>2. CASE Open(p)
  BY <1>1, <1>2 DEF Open
<1>3. CASE Shift(p)
  <2> DEFINE g == gen[p]
  <2>1. g \in 1 .. MaxFiles - 1
    BY <1>3 DEF LogInductive, Control, Shift
  <2>2. g \in 0 .. MaxFiles /\ g + 1 \in 0 .. MaxFiles /\ g # 0 /\ g + 1 # 0
    BY <1>1, <2>1
  <2>3. name' = name \/ name' = [name EXCEPT ![g + 1] = name[g], ![g] = 0]
    BY <1>3 DEF Shift, Rename
  <2> HIDE DEF g
  <2>4. name'[0] = name[0]
    BY <1>1, <2>2, <2>3
  <2> QED
    BY <2>4
<1>4. CASE Move(p)
  BY <1>1, <1>4 DEF Move, Rename
<1>5. CASE \E l \in [no : 1 .. MaxLines, len : LineSizes] : Rotate(p, l)
  BY <1>1, <1>5 DEF Rotate
<1>6. CASE name' = name
  BY <1>6
<1> QED
  BY <1>2, <1>3, <1>4, <1>5, <1>6
  DEF WriterStep, Start, Stop, Reopen, Fits, RotateOpens, RotateOpenFails, Resume

\* A step that adds nothing to a file leaves everybody's share of it.
LEMMA ShareStays ==
  ASSUME LogInductive, LogInductive', Phases, NEW p \in Procs, WriterStep(p),
         ~pins, faults' = 0, NEW i \in DOMAIN disk, disk'[i] = disk[i],
         Resume(p) \/ (\E l \in [no : 1 .. MaxLines, len : LineSizes] : Fits(p, l)) => f[p] # i,
         NEW q \in Procs, NEW share \in 0 .. disk[i].bytes, ShareOf(q, i, share)
  PROVE  ShareOf(q, i, share)'
<1>1. name'[0] = i => name[0] = i
  BY TopComesFromOpening
<1>2. share >= 0 /\ \E most \in LineSizes \cup {MaxSize} : share <= most
  BY DEF ShareOf
<1>3. CASE q # p
  <2>1. pc'[q] = pc[q] /\ f'[q] = f[q] /\ size'[q] = size[q]
    BY <1>3, OthersStay DEF LogInductive
  <2> QED
    BY <1>1, <1>2, <2>1 DEF ShareOf
<1>4. CASE q = p
  <2>0. i \in 1 .. Len(disk) /\ faults = 0 /\ faults \in Nat
        /\ (faults' = faults \/ faults' = faults + 1)
    <3>1. faults' = faults \/ faults' = faults + 1
      BY WriterMoves DEF Rename, Fault
    <3> QED
      BY <3>1, DiskTyped
  <2>1. CASE Start(p) \/ (Reopen(p) /\ Open(p)) \/ RotateOpens(p)
    <3>1. f' = [f EXCEPT ![p] = name'[0]] /\ size' = [size EXCEPT ![p] = disk'[name'[0]].bytes]
      BY <2>1 DEF Start, RotateOpens, Open
    <3>2. f'[p] = name'[0] /\ (f'[p] = i => size'[p] = disk[i].bytes)
      BY <3>1, DiskTyped
    <3>3. pc'[p] # "open" /\ (pc'[p] = "append" => pc[p] = "open")
      <4>0. pc \in [Procs -> {"off", "idle", "check", "shift", "move", "open", "append"}]
        BY DiskTyped
      <4>1. CASE Start(p)
        BY <4>0, <4>1 DEF Start
      <4>2. CASE Reopen(p)
        BY <2>0, <4>0, <4>2 DEF Reopen, Fault
      <4>3. CASE RotateOpens(p)
        BY <4>0, <4>3 DEF RotateOpens
      <4> QED
        BY <2>1, <4>1, <4>2, <4>3
    <3> QED
      BY <1>1, <1>2, <1>4, <3>2, <3>3 DEF ShareOf
  <2>2. CASE Stop(p) \/ \E l \in [no : 1 .. MaxLines, len : LineSizes] : Rotate(p, l)
    <3>1. f'[p] = 0 /\ pc'[p] # "open"
      BY <2>2, DiskTyped DEF Stop, Rotate, Left
    <3> QED
      BY <1>2, <1>4, <2>0, <3>1 DEF ShareOf
  <2>3. CASE Resume(p) \/ \E l \in [no : 1 .. MaxLines, len : LineSizes] : Fits(p, l)
    <3>1. f'[p] = f[p] /\ pc'[p] = "idle"
      BY <2>3, DiskTyped DEF Resume, Fits
    <3> QED
      BY <1>2, <1>4, <2>3, <3>1 DEF ShareOf
  <2>4. CASE Shift(p)
    <3>1. f[p] = 0 /\ f'[p] = 0 /\ pc'[p] \in {"shift", "move"}
      BY <2>4, DiskTyped DEF Phases, Shift, Left
    <3> QED
      BY <1>2, <1>4, <2>0, <3>1 DEF ShareOf
  <2>5. CASE Move(p)
    <3>1. f[p] = 0 /\ f'[p] = 0
      BY <2>5 DEF Phases, Move
    <3>2. name'[0] = 0
      BY <2>0, <2>5, DiskTyped DEF Move, Rename, Free, Fault
    <3> QED
      BY <1>2, <1>4, <2>0, <3>1, <3>2 DEF ShareOf
  <2>6. ~ RotateOpenFails(p)
    BY <2>0 DEF RotateOpenFails, Fault
  <2>7. Reopen(p) => Open(p)
    BY <2>0 DEF Reopen, Fault
  <2> QED
    BY <2>1, <2>2, <2>3, <2>4, <2>5, <2>6, <2>7 DEF WriterStep
<1> QED
  BY <1>3, <1>4

\* A file is created empty.
LEMMA NewFileShared ==
  ASSUME LogInductive, LogInductive', NEW p \in Procs, WriterStep(p),
         NEW i \in DOMAIN disk', i \notin DOMAIN disk
  PROVE  \E total \in [0 .. Cardinality(Procs) -> 0 .. disk'[i].bytes] : SharedOut(i, total)'
<1> DEFINE none == [n \in 0 .. Cardinality(Procs) |-> 0]
<1>1. /\ disk \in Seq(File) /\ Len(disk) \in Nat /\ DOMAIN disk = 1 .. Len(disk)
      /\ MaxSize \in Nat
  BY DiskTyped DEF LogInductive, TypeOK
<1>2. CASE Open(p)
  <2>1. disk' = Append(disk, [lines |-> <<>>, bytes |-> 0])
    BY <1>2 DEF Open
  <2>2. i = Len(disk) + 1 /\ disk'[i] = [lines |-> <<>>, bytes |-> 0]
    BY <1>1, <2>1
  <2>3. none \in [0 .. Cardinality(Procs) -> 0 .. disk'[i].bytes]
    BY <2>2
  <2>4. \A q \in Procs : size'[q] \in Nat
    BY DEF LogInductive, TypeOK
  <2>5. ASSUME NEW q \in Procs PROVE ShareOf(q, i, 0)'
    <3>1. MaxSize \in LineSizes \cup {MaxSize} /\ 0 <= MaxSize
      BY <1>1
    <3>2. \E most \in LineSizes \cup {MaxSize} : 0 <= most
      BY <3>1
    <3>3. 0 >= 0 /\ 0 <= size'[q]
      BY <2>4
    <3> QED
      BY <3>2, <3>3 DEF ShareOf
  <2>6. Cardinality(Procs) \in Nat /\ \A n \in 1 .. Cardinality(Procs) : member[n] \in Procs
    BY Members
  <2>7. ASSUME NEW n \in 1 .. Cardinality(Procs)
        PROVE  ShareOf(member[n], i, none[n] - none[n - 1])'
    <3>1. none[n] - none[n - 1] = 0
      BY <2>6
    <3> HIDE DEF none
    <3> QED
      BY <2>5, <2>6, <3>1
  <2>8. none[0] = 0 /\ none[Cardinality(Procs)] = disk'[i].bytes
    BY <2>2, <2>6
  <2>9. Cardinality(Procs)' = Cardinality(Procs) /\ member' = member
    OBVIOUS
  <2> HIDE DEF none
  <2>10. SharedOut(i, none)'
    BY <2>3, <2>7, <2>8, <2>9 DEF SharedOut
  <2> QED
    BY <2>3, <2>10
<1>3. ASSUME ~Open(p) PROVE DOMAIN disk' = DOMAIN disk
  <2>1. CASE disk' = disk
    BY <2>1
  <2>2. ASSUME NEW n, NEW l, AppendTo(p, n, l) PROVE DOMAIN disk' = DOMAIN disk
    BY <1>1, <2>2 DEF AppendTo
  <2> QED
    BY <1>3, <2>1, <2>2
    DEF WriterStep, Start, Stop, Reopen, Fits, Rotate, Shift, Move, RotateOpens,
        RotateOpenFails, Resume
<1> QED
  BY <1>2, <1>3

\* A line goes to the share of its process: it fits into what the process knows of the
\* file, or it is the first that the process puts there.
LEMMA LineShared ==
  ASSUME LogInductive, LogInductive', Phases, Shared, NEW p \in Procs, WriterStep(p),
         Resume(p) \/ (\E l \in [no : 1 .. MaxLines, len : LineSizes] : Fits(p, l)),
         NEW i, f[p] = i, NEW total, SharedOut(i, total)
  PROVE  \E more \in [0 .. Cardinality(Procs) -> 0 .. disk'[i].bytes] : SharedOut(i, more)'
<1> DEFINE N == Cardinality(Procs)
<1>1. /\ i \in 1 .. Len(disk) /\ disk[i].bytes \in Nat /\ size[p] \in Nat /\ MaxSize \in Nat
      /\ pc[p] \in {"idle", "check", "append"}
  BY DiskTyped DEF LogInductive, Control, Resume, Fits, InHand
<1>2. PICK l \in [no : Nat, len : LineSizes] :
        /\ AppendTo(p, i, l)
        /\ size[p] + l.len <= MaxSize \/ pc[p] = "append"
  <2>1. CASE Resume(p)
    <3>1. pc[p] = "append" /\ line[p] \in [no : Nat, len : Nat] /\ line[p].len \in LineSizes
          /\ AppendTo(p, i, line[p])
      BY <2>1 DEF Resume, Shared, Writing, LogInductive, TypeOK
    <3>2. line[p] \in [no : Nat, len : LineSizes]
      BY <3>1
    <3> QED
      BY <3>1, <3>2
  <2>2. ASSUME NEW l \in [no : 1 .. MaxLines, len : LineSizes], Fits(p, l)
        PROVE  /\ l \in [no : Nat, len : LineSizes] /\ AppendTo(p, i, l)
               /\ size[p] + l.len <= MaxSize
    BY <2>2, LogAssumption DEF Fits
  <2> QED
    BY <2>1, <2>2
<1>3. l.len \in Nat /\ l.len \in LineSizes
  BY LogAssumption
<1>4. disk'[i].bytes = disk[i].bytes + l.len /\ size'[p] = size[p] + l.len
  BY <1>1, <1>2, DiskTyped DEF AppendTo
<1>5. /\ f' = f /\ name' = name /\ pc'[p] = "idle"
      /\ \A q \in Procs \ {p} : pc'[q] = pc[q] /\ size'[q] = size[q]
  <2>1. f' = f /\ name' = name /\ pc'[p] = "idle"
    BY DiskTyped DEF Resume, Fits
  <2> QED
    BY <2>1, OthersStay DEF LogInductive
<1>6. /\ N \in Nat /\ member \in [1 .. N -> Procs]
      /\ \A m, n \in 1 .. N : member[m] = member[n] => m = n
  BY Members
<1>7. PICK m \in 1 .. N : member[m] = p
  BY Members
<1>8. /\ total \in [0 .. N -> 0 .. disk[i].bytes]
      /\ total[0] = 0 /\ total[N] = disk[i].bytes
      /\ \A n \in 1 .. N : ShareOf(member[n], i, total[n] - total[n - 1])
  BY DEF SharedOut
<1> DEFINE more == [n \in 0 .. N |-> IF n >= m THEN total[n] + l.len ELSE total[n]]
<1> HIDE DEF N
<1>9. /\ more \in [0 .. N -> 0 .. disk'[i].bytes]
      /\ more[0] = 0 /\ more[N] = disk'[i].bytes
  BY <1>1, <1>3, <1>4, <1>6, <1>8
<1>10. ASSUME NEW n \in 1 .. N
       PROVE  ShareOf(member[n], i, more[n] - more[n - 1])'
  <2> DEFINE share == total[n] - total[n - 1]
  <2>1. /\ n \in 0 .. N /\ n - 1 \in 0 .. N
        /\ total[n] \in Nat /\ total[n - 1] \in Nat /\ share \in Int
    BY <1>1, <1>6, <1>8
  <2>2. ShareOf(member[n], i, share)
    BY <1>8
  <2>3. CASE n # m
    <3>1. more[n] - more[n - 1] = share
      BY <1>3, <1>7, <2>1, <2>3
    <3>2. member[n] \in Procs \ {p}
      BY <1>6, <1>7, <2>3
    <3>3. PICK q \in Procs \ {p} : member[n] = q
      BY <3>2
    <3> HIDE DEF more, share
    <3>4. ShareOf(q, i, share)
      BY <2>2, <3>3
    <3>5. /\ pc'[q] = pc[q] /\ size'[q] = size[q] /\ f'[q] = f[q] /\ name'[0] = name[0]
      BY <1>5
    <3>6. ShareOf(q, i, share)'
      BY <3>4, <3>5 DEF ShareOf
    <3> QED
      BY <3>1, <3>3, <3>6
  <2>4. CASE n = m
    <3>1. more[n] - more[n - 1] = share + l.len
      BY <1>3, <1>7, <2>1, <2>4
    <3> HIDE DEF more, share
    <3>2. ShareOf(p, i, share)
      BY <1>7, <2>2, <2>4
    <3>3. share >= 0 /\ share <= size[p] /\ (pc[p] = "append" => share = 0)
      BY <3>2 DEF ShareOf
    <3>4. \E most \in LineSizes \cup {MaxSize} : share + l.len <= most
      <4>1. CASE size[p] + l.len <= MaxSize
        <5>1. share + l.len <= MaxSize
          BY <1>1, <1>3, <2>1, <3>3, <4>1
        <5> QED
          BY <5>1
      <4>2. CASE pc[p] = "append"
        <5>1. share + l.len <= l.len
          BY <1>3, <3>3, <4>2
        <5> QED
          BY <1>3, <5>1
      <4> QED
        BY <1>2, <4>1, <4>2
    <3>5. share + l.len >= 0 /\ share + l.len <= size'[p]
      BY <1>1, <1>3, <1>4, <2>1, <3>3
    <3>6. ShareOf(p, i, share + l.len)'
      BY <1>5, <3>4, <3>5 DEF ShareOf
    <3> QED
      BY <1>7, <2>4, <3>1, <3>6
  <2> QED
    BY <2>3, <2>4
<1>11. Cardinality(Procs)' = N /\ member' = member
  BY DEF N
<1> HIDE DEF more
<1>12. SharedOut(i, more)'
  BY <1>9, <1>10, <1>11 DEF SharedOut, N
<1> QED
  BY <1>9, <1>12 DEF N

LEMMA SharedStep ==
  ASSUME LogInductive, LogInductive', Phases, Shared, NEW p \in Procs, WriterStep(p)
  PROVE  Shared'
<1>1. ASSUME NEW q \in Procs, Writing(q)' PROVE line'[q].len \in LineSizes
  <2>1. (Writing(q) /\ line'[q] = line[q]) \/ line'[q].len \in LineSizes
    <3>0. line \in [Procs -> [no : Nat, len : Nat]] /\ pc'[q] # "idle" /\ pc'[q] # "off"
          /\ pc \in [Procs -> {"off", "idle", "check", "shift", "move", "open", "append"}]
      BY <1>1 DEF LogInductive, TypeOK, Writing
    <3>1. CASE Start(p) \/ Stop(p)
      BY <1>1, <3>0, <3>1 DEF Start, Stop, Writing
    <3>2. CASE Reopen(p)
      BY <1>1, <3>0, <3>2 DEF Reopen, Writing, NewLine
    <3>3. ASSUME NEW l \in [no : 1 .. MaxLines, len : LineSizes], Fits(p, l)
          PROVE  Writing(q) /\ line'[q] = line[q]
      BY <1>1, <3>0, <3>3 DEF Fits, Writing
    <3>4. ASSUME NEW l \in [no : 1 .. MaxLines, len : LineSizes], Rotate(p, l)
          PROVE  (Writing(q) /\ line'[q] = line[q]) \/ line'[q].len \in LineSizes
      BY <1>1, <3>0, <3>4 DEF Rotate, Writing
    <3>5. CASE Shift(p) \/ Move(p) \/ RotateOpens(p)
      BY <1>1, <3>0, <3>5 DEF Shift, Move, RotateOpens, Writing
    <3>6. CASE RotateOpenFails(p) \/ Resume(p)
      BY <1>1, <3>0, <3>6 DEF RotateOpenFails, Resume, Writing
    <3> QED
      BY <3>1, <3>2, <3>3, <3>4, <3>5, <3>6 DEF WriterStep
  <2> QED
    BY <2>1 DEF Shared
<1>2. ASSUME ~pins', faults' = 0, NEW i \in DOMAIN disk'
      PROVE  \E total \in [0 .. Cardinality(Procs) -> 0 .. disk'[i].bytes] : SharedOut(i, total)'
  <2>1. CASE i \notin DOMAIN disk
    BY <2>1, NewFileShared
  <2>2. CASE i \in DOMAIN disk
    <3>1. ~pins /\ faults = 0
      <4>1. faults' = faults \/ faults' = faults + 1
        BY WriterMoves DEF Rename, Fault
      <4> QED
        BY <1>2, <4>1, OthersStay, DiskTyped DEF LogInductive
    <3>2. PICK total \in [0 .. Cardinality(Procs) -> 0 .. disk[i].bytes] : SharedOut(i, total)
      BY <2>2, <3>1 DEF Shared
    <3> DEFINE Adds == Resume(p) \/ \E l \in [no : 1 .. MaxLines, len : LineSizes] : Fits(p, l)
    <3>3. CASE Adds /\ f[p] = i
      BY <3>2, <3>3, LineShared
    <3>4. CASE ~(Adds /\ f[p] = i)
      <4>1. disk'[i] = disk[i]
        <5>0. disk \in Seq(File) /\ Len(disk) \in Nat /\ i \in 1 .. Len(disk)
          BY <2>2, DiskTyped DEF LogInductive, TypeOK
        <5>1. CASE Adds
          <6>1. f[p] # i /\ \E l : AppendTo(p, f[p], l)
            BY <3>4, <5>1 DEF Resume, Fits
          <6> QED
            BY <5>0, <6>1 DEF AppendTo
        <5>2. CASE ~Adds
          BY <5>0, <5>2
          DEF WriterStep, Start, Stop, Reopen, Rotate, Shift, Move, RotateOpens,
              RotateOpenFails, Open
        <5> QED
          BY <5>1, <5>2
      <4>2. Adds => f[p] # i
        BY <3>4
      <4>3. \A q \in Procs, share \in 0 .. disk[i].bytes :
              ShareOf(q, i, share) => ShareOf(q, i, share)'
        BY <1>2, <2>2, <3>1, <4>1, <4>2, ShareStays
      <4>4. disk[i].bytes \in Nat
        BY <2>2, DiskTyped
      <4>5. SharedOut(i, total)'
        BY <3>2, <4>1, <4>3, <4>4, SharesKept
      <4> QED
        BY <3>2, <4>1, <4>5
    <3> QED
      BY <3>3, <3>4
  <2> QED
    BY <2>1, <2>2
<1>3. Cardinality(Procs)' = Cardinality(Procs)
  OBVIOUS
<1> QED
  BY <1>1, <1>2, <1>3 DEF Shared

\* Induction, as a least element: what fails for some number fails for a first one.
LEMMA LeastNat ==
  ASSUME NEW T, T \subseteq Nat, T # {}
  PROVE \E x \in T : \A y \in T : x <= y
<1>1. IsWellFoundedOn(OpToRel(<, Nat), Nat)
  BY NatLessThanWellFounded
<1>2. \E x \in T : \A y \in T : ~ (<<y, x>> \in OpToRel(<, Nat))
  BY <1>1, WFMin
<1>3. \E x \in T : \A y \in T : ~ (<<y, x>> \in {ss \in Nat \X Nat : ss[1] < ss[2]})
  BY <1>2 DEF OpToRel
<1>4. PICK x \in T : \A y \in T : ~ (<<y, x>> \in {ss \in Nat \X Nat : ss[1] < ss[2]})
  BY <1>3
<1>5. ASSUME NEW y \in T PROVE x <= y
  <2>1. <<y, x>> \in Nat \X Nat /\ <<y, x>>[1] = y /\ <<y, x>>[2] = x
    OBVIOUS
  <2>2. ~ (y < x)
    BY <1>4, <2>1
  <2> QED
    BY <2>2
<1> QED
  BY <1>5

\* If no share is larger than one of the limits, all of them together are not larger
\* than as many times the largest of these.
LEMMA SharesAdd ==
  ASSUME NEW N \in Nat, NEW W, W \subseteq Nat, W # {},
         NEW total \in [0 .. N -> Nat], total[0] = 0,
         \A n \in 1 .. N : \E most \in W : total[n] - total[n - 1] <= most
  PROVE  \E most \in W : total[N] <= N * most
<1> DEFINE Exceeds == {n \in 0 .. N : \A most \in W : ~ (total[n] <= n * most)}
<1>1. Exceeds = {}
  <2> SUFFICES ASSUME Exceeds # {} PROVE FALSE
    OBVIOUS
  <2>1. PICK n \in Exceeds : \A m \in Exceeds : n <= m
    <3>1. Exceeds \subseteq Nat
      OBVIOUS
    <3> HIDE DEF Exceeds
    <3> QED
      BY <3>1, LeastNat
  <2>2. n \in 0 .. N /\ \A most \in W : ~ (total[n] <= n * most)
    OBVIOUS
  <2>3. n # 0
    <3>1. ASSUME n = 0 PROVE FALSE
      <4>1. PICK most \in W : TRUE
        OBVIOUS
      <4>2. most \in Nat /\ 0 * most = 0
        OBVIOUS
      <4> QED
        BY <2>2, <3>1, <4>2
    <3> QED
      BY <3>1
  <2>4. n - 1 \in 0 .. N /\ n - 1 \notin Exceeds /\ n \in 1 .. N
    <3>1. n - 1 \in 0 .. N /\ n \in 1 .. N /\ ~ (n <= n - 1)
      BY <2>2, <2>3
    <3> HIDE DEF Exceeds
    <3> QED
      BY <2>1, <3>1
  <2>5. PICK a \in W : total[n - 1] <= (n - 1) * a
    BY <2>4
  <2>6. PICK b \in W : total[n] - total[n - 1] <= b
    BY <2>4
  <2>7. /\ a \in Nat /\ b \in Nat /\ n - 1 \in Nat /\ n \in Nat
        /\ total[n] \in Nat /\ total[n - 1] \in Nat
    BY <2>4
  <2> HIDE DEF Exceeds
  <2>8. CASE a <= b
    <3>1. (n - 1) * a <= (n - 1) * b /\ (n - 1) * b + b = n * b
      <4> DEFINE k == n - 1
                 d == b - a
      <4>1. k \in Nat /\ d \in Nat /\ b = a + d /\ n = k + 1
        BY <2>7, <2>8
      <4> HIDE DEF k, d
      <4>2. k * d \in Nat /\ k * a \in Nat
        BY <2>7, <4>1
      <4>3. k * (a + d) = k * a + k * d
        BY <2>7, <4>1
      <4>4. (k + 1) * b = k * b + b
        BY <2>7, <4>1
      <4>5. k * a <= k * b /\ k * b + b = n * b
        BY <4>1, <4>2, <4>3, <4>4
      <4> QED
        BY <4>5 DEF k
    <3>2. (n - 1) * a \in Int /\ (n - 1) * b \in Int /\ n * b \in Int
      BY <2>7
    <3>3. total[n] <= n * b
      BY <2>5, <2>6, <2>7, <3>1, <3>2
    <3> QED
      BY <2>2, <3>3
  <2>9. CASE b <= a
    <3>1. (n - 1) * a + a = n * a
      BY <2>7
    <3>2. (n - 1) * a \in Int /\ n * a \in Int
      BY <2>7
    <3>3. total[n] <= n * a
      BY <2>5, <2>6, <2>7, <2>9, <3>1, <3>2
    <3> QED
      BY <2>2, <3>3
  <2> QED
    BY <2>7, <2>8, <2>9
<1> QED
  BY <1>1

\* However many processes share the log: where renaming works, no file grows beyond
\* maxBytes, or one line that is larger, for each of them (logx.go:121-130).
THEOREM SizesAreBounded == Spec => []SizesBounded
<1> DEFINE Inv == LogInductive /\ Phases /\ Shared
<1>1. Init => Inv
  <2> SUFFICES ASSUME Init PROVE Inv
    OBVIOUS
  <2>1. LogInductive
    BY LogInit
  <2>2. Phases
    BY DEF Init, Phases
  <2>3. Shared
    BY DEF Init, Shared, Writing
  <2> QED
    BY <2>1, <2>2, <2>3
<1>2. Inv /\ [Next]_vars => Inv'
  <2> SUFFICES ASSUME Inv, [Next]_vars PROVE Inv'
    OBVIOUS
  <2>1. LogInductive'
    BY LogStep
  <2>2. ASSUME NEW p \in Procs, WriterStep(p) PROVE Inv'
    BY <2>1, <2>2, PhasesStep, SharedStep
  <2>3. CASE UNCHANGED vars
    <3>1. Phases'
      BY <2>3 DEF Phases, vars, writerVars
    <3>2. Shared'
      BY <2>3 DEF Shared, SharedOut, ShareOf, Writing, vars, writerVars
    <3> QED
      BY <2>1, <3>1, <3>2
  <2> QED
    BY <2>2, <2>3 DEF Next, WriterStep
<1>3. Inv => SizesBounded
  <2> SUFFICES ASSUME Inv, ~pins, faults = 0, NEW i \in DOMAIN disk
               PROVE  \E most \in LineSizes \cup {MaxSize} :
                        disk[i].bytes <= Cardinality(Procs) * most
    BY DEF SizesBounded
  <2>1. PICK total : SharedOut(i, total)
    BY DEF Shared
  <2>2. Cardinality(Procs) \in Nat /\ disk[i].bytes \in Nat
    BY Members, DiskTyped
  <2>3. /\ total \in [0 .. Cardinality(Procs) -> Nat] /\ total[0] = 0
        /\ total[Cardinality(Procs)] = disk[i].bytes
    BY <2>1, <2>2 DEF SharedOut
  <2>4. \A n \in 1 .. Cardinality(Procs) :
          \E most \in LineSizes \cup {MaxSize} : total[n] - total[n - 1] <= most
    BY <2>1 DEF SharedOut, ShareOf
  <2>5. LineSizes \cup {MaxSize} \subseteq Nat /\ LineSizes \cup {MaxSize} # {}
    BY LogAssumption
  <2> QED
    BY <2>2, <2>3, <2>4, <2>5, SharesAdd
<1> QED
  BY <1>1, <1>2, <1>3, PTL DEF Spec

=============================================================================
