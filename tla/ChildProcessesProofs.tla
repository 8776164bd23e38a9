------------------------- MODULE ChildProcessesProofs -------------------------
(***************************************************************************)
(* For any number of processes, however they fork, exec and exit while     *)
(* the command scans and injects: unless it misreads a name it touches     *)
(* descendants only, and it misses none that the scan could see.           *)
(***************************************************************************)
EXTENDS ChildProcesses, SequenceTheorems, FiniteSetTheorems, TLAPS

(***************************************************************************)
(* Sequences                                                               *)
(***************************************************************************)

\* What Append adds to the elements of a sequence.
LEMMA AppendRange ==
  ASSUME NEW S, NEW s \in Seq(S), NEW e \in S
  PROVE  Append(s, e) \in Seq(S) /\ Range(Append(s, e)) = Range(s) \cup {e}
  BY AppendProperties DEF Range

\* A sequence has the elements of its head and of its tail.
LEMMA HeadTailRange ==
  ASSUME NEW S, NEW s \in Seq(S), s # <<>>
  PROVE  /\ Head(s) \in S /\ Tail(s) \in Seq(S)
         /\ Range(s) = {Head(s)} \cup Range(Tail(s))
<1>1. Head(s) \in S /\ Tail(s) \in Seq(S) /\ Len(s) \in Nat /\ Len(s) # 0
  BY EmptySeq
<1>2. Len(Tail(s)) = Len(s) - 1 /\ \A k \in 1..Len(s) - 1 : Tail(s)[k] = s[k + 1]
  BY <1>1, HeadTailProperties
<1>3. \A k \in 1..Len(s) : s[k] = Head(s) \/ \E j \in 1..Len(Tail(s)) : s[k] = Tail(s)[j]
  <2> TAKE k \in 1..Len(s)
  <2>1. CASE k = 1
    BY <2>1
  <2>2. CASE k # 1
    <3>1. k - 1 \in 1..Len(s) - 1 /\ (k - 1) + 1 = k
      BY <1>1, <2>2
    <3>. QED
      BY <1>2, <3>1
  <2>. QED
    BY <2>1, <2>2
<1>4. Head(s) = s[1] /\ 1 \in 1..Len(s)
  BY <1>1
<1>5. \A j \in 1..Len(Tail(s)) : j + 1 \in 1..Len(s) /\ Tail(s)[j] = s[j + 1]
  BY <1>1, <1>2
<1>6. Range(s) = {s[k] : k \in 1..Len(s)} /\ Range(Tail(s)) = {Tail(s)[k] : k \in 1..Len(Tail(s))}
  BY <1>1, RangeEquality
<1>7. \A x : (\E k \in 1..Len(s) : x = s[k])
               <=> x = Head(s) \/ \E j \in 1..Len(Tail(s)) : x = Tail(s)[j]
  BY <1>3, <1>4, <1>5
<1>8. Range(s) = {Head(s)} \cup Range(Tail(s))
  BY <1>6, <1>7
<1>. QED
  BY <1>1, <1>8

(***************************************************************************)
(* The invariant                                                           *)
(***************************************************************************)

\* A pid that is or was in use.
Used(p) == p = Reaper \/ forker[p] # NoPid

\* Orphans go to Reaper and nowhere else, and only when who forked them is gone: a pid is
\* not used again.
FamilyInv ==
  /\ forker[Root] = Reaper /\ forker[Reaper] = NoPid
  /\ \A p \in Pid : forker[p] # NoPid => Used(forker[p])
  /\ \A p \in live :
       /\ Used(p) /\ ppid[p] \in {forker[p], Reaper}
       /\ forker[p] \in live => ppid[p] = forker[p]

\* Whenever an entry was read, it was recorded under the process that forked it, or as an
\* orphan, but for those whose parent was read from their names; the name of Reaper stays.
ScanInv ==
  /\ Reaper \notin spaced \cup misread /\ \A p \in misread : Used(p)
  /\ \A r \in Pid \cup {NoPid} : \A p \in Range(pidMap[r]) :
       Used(p) /\ (p \in misread \/ r \in {forker[p], Reaper})

\* What is collected from there are descendants, or come from a misread process.
DescentInv ==
  /\ \A p \in Range(pending) \cup Range(childPIDs) : ForkedBelow(misread, p)
  /\ OnlyDescendants

Scanned == {"collect", "inject", "done"}

Unscanned == {"start", "list", "listing", "scan"}

\* A process that is there for the whole scan, as is the one that forked it, has an entry,
\* and is recorded when it is read.
SteadyInv ==
  /\ \A p \in steady : Used(p)
  /\ Scanning => \A p \in steady : p \in live /\ (p = Root \/ p \notin spaced)
  /\ pc = "listing" => steady \subseteq procs
  /\ pc \in Scanned => procs = {}
  /\ pc \in {"scan"} \cup Scanned =>
       \A p \in steady \ (procs \cup {Root}) :
         forker[p] \in steady => p \in Range(pidMap[forker[p]])

\* What was collected holds the children of its members, but for those still pending.
CollectInv ==
  /\ pc \in Scanned =>
       \A q \in {Root} \cup Range(childPIDs) :
         Range(pidMap[q]) \subseteq Range(childPIDs) \cup Range(pending)
  /\ pc \in Unscanned => childPIDs = <<>>
  /\ pc \in {"inject", "done"} => pending = <<>>

\* Who was injected is excused, gone or faked.
InjectInv ==
  /\ pc \notin {"inject", "done"} => next = 1
  /\ pc = "done" => next > Len(childPIDs)
  /\ \A k \in 1..next - 1 : childPIDs[k] \in live => childPIDs[k] \in faked \cup excused

IInv ==
  TypeOK /\ FamilyInv /\ ScanInv /\ DescentInv /\ SteadyInv /\ CollectInv /\ InjectInv

\* The children of the first pending one take its place.
LEMMA PendingRange ==
  ASSUME TypeOK, collectAllChildren
  PROVE  Range(pending') = Range(pidMap[Head(pending)]) \cup Range(Tail(pending))
<1> DEFINE first == pidMap[Head(pending)]
           rest == Tail(pending)
<1>1. first \in Seq(Pid) /\ rest \in Seq(Pid)
  BY HeadTailRange DEF TypeOK, collectAllChildren
<1>2. pending' = first \o rest
  BY DEF collectAllChildren, BeforeSiblings
<1> HIDE DEF first, rest
<1>3. Range(first \o rest) = Range(first) \cup Range(rest)
  BY <1>1, RangeConcatenation
<1>. QED
  BY <1>2, <1>3 DEF first, rest

(***************************************************************************)
(* Descendants                                                             *)
(***************************************************************************)

\* What Root forks, or a process below these, is below these.
LEMMA ChildBelow ==
  ASSUME NEW these, NEW p \in Pid \ {Reaper}, forker[p] = Root \/ ForkedBelow(these, forker[p])
  PROVE  ForkedBelow(these, p)
  BY DEF ForkedBelow

\* Reaper is none of them, and every one was forked.
LEMMA BelowUsed ==
  ASSUME TypeOK, ScanInv, NEW p \in Pid, ForkedBelow(misread, p)
  PROVE  p # Reaper /\ forker[p] # NoPid
<1> DEFINE S == {q \in Pid \ {Reaper} : forker[q] # NoPid}
<1>1. S \in SUBSET Pid /\ misread \subseteq S
  BY DEF TypeOK, ScanInv, Used
<1>2. \A q \in Pid \ {Reaper} : forker[q] \in S \cup {Root} => q \in S
  BY PidAssumption
<1>3. p \in S
  BY <1>1, <1>2 DEF ForkedBelow
<1>. QED
  BY <1>3

\* Root is no descendant of its own: it was forked by Reaper.
LEMMA RootNoDescendant ==
  ASSUME FamilyInv
  PROVE  ~Descends(Root)
<1> DEFINE S == Pid \ {Root, Reaper}
<1>1. \A q \in Pid \ {Reaper} : forker[q] \in S \cup {Root} => q \in S
  BY PidAssumption DEF FamilyInv
<1>. QED
  BY <1>1 DEF Descends, ForkedBelow

\* A fork under a pid that was not in use takes nobody out.
LEMMA BelowKept ==
  ASSUME TypeOK, NEW p \in Pid, ForkedBelow(misread, p), misread \subseteq misread',
         \A q \in Pid : forker'[q] = forker[q] \/ forker[q] = NoPid
  PROVE  ForkedBelow(misread, p)'
<1> SUFFICES ASSUME NEW S \in SUBSET Pid, misread' \subseteq S,
                    \A q \in Pid \ {Reaper} : forker'[q] \in S \cup {Root} => q \in S
             PROVE  p \in S
  BY DEF ForkedBelow
<1>1. \A q \in Pid \ {Reaper} : forker[q] \in S \cup {Root} => q \in S
  <2> TAKE q \in Pid \ {Reaper}
  <2>1. forker[q] \in S \cup {Root} => forker[q] # NoPid
    BY PidAssumption
  <2>. QED
    BY <2>1
<1>2. misread \subseteq S
  OBVIOUS
<1>. QED
  BY <1>1, <1>2 DEF ForkedBelow

(***************************************************************************)
(* The steps                                                               *)
(***************************************************************************)

\* The new process has a pid that no process has had.
LEMMA NewProcess ==
  ASSUME NEW p \in Pid, Fork(p)
  PROVE  \E q \in Pid \ {Reaper} :
           /\ forker[q] = NoPid /\ p \in live
           /\ live' = live \cup {q}
           /\ forker' = [forker EXCEPT ![q] = p] /\ ppid' = [ppid EXCEPT ![q] = p]
           /\ spaced' = (IF p \in spaced THEN spaced \cup {q} ELSE spaced)
           /\ digits' = [digits EXCEPT ![q] = digits[p]]
           /\ faked' = (IF p \in faked THEN faked \cup {q} ELSE faked)
           /\ UNCHANGED <<command, history>>
<1> DEFINE q == CHOOSE u \in Unused : TRUE
<1>1. Unused # {} /\ Unused \subseteq Pid \ {Reaper}
  BY DEF Fork, Unused
<1>2. q \in Unused
  BY <1>1
<1>3. /\ p \in live /\ live' = live \cup {q}
      /\ forker' = [forker EXCEPT ![q] = p] /\ ppid' = [ppid EXCEPT ![q] = p]
      /\ spaced' = (IF p \in spaced THEN spaced \cup {q} ELSE spaced)
      /\ digits' = [digits EXCEPT ![q] = digits[p]]
      /\ faked' = (IF p \in faked THEN faked \cup {q} ELSE faked)
      /\ UNCHANGED <<command, history>>
  BY DEF Fork
<1> HIDE DEF q
<1>4. q \in Pid \ {Reaper} /\ forker[q] = NoPid
  BY <1>2 DEF Unused
<1>. QED
  BY <1>3, <1>4

\* At the start there are Root and Reaper.
LEMMA InitIInv == Init => IInv
<1> SUFFICES ASSUME Init PROVE IInv
  OBVIOUS
<1>1. Range(<<>>) = {} /\ <<>> \in Seq(Pid) /\ Len(<<>>) = 0
  BY EmptySeq DEF Range
<1>2. /\ forker \in [Pid -> Pid \cup {NoPid}] /\ ppid = forker
      /\ forker[Root] = Reaper /\ forker[Reaper] = NoPid
  BY PidAssumption DEF Init
<1>3. pidMap \in [Pid \cup {NoPid} -> Seq(Pid)] /\ \A r \in Pid \cup {NoPid} : pidMap[r] = <<>>
  BY <1>1 DEF Init
<1>4. TypeOK
  BY <1>1, <1>2, <1>3, PidAssumption DEF Init, TypeOK
<1>5. FamilyInv
  BY <1>2, PidAssumption DEF Init, FamilyInv, Used
<1>6. ScanInv /\ DescentInv /\ SteadyInv /\ CollectInv /\ InjectInv
  BY <1>1, <1>3 DEF Init, ScanInv, DescentInv, OnlyDescendants, SteadyInv, CollectInv, InjectInv, Scanned
<1>. QED
  BY <1>4, <1>5, <1>6 DEF IInv

\* Every step keeps the types.
LEMMA NextTypeOK == TypeOK /\ [Next]_vars => TypeOK'
<1> SUFFICES ASSUME TypeOK, [Next]_vars PROVE TypeOK'
  OBVIOUS
<1> USE PidAssumption DEF TypeOK, tree, command, history
<1>1. CASE InjectRoot
  BY <1>1 DEF InjectRoot
<1>2. CASE OpenProc \/ ListProc \/ ListFails
  BY <1>2 DEF OpenProc, ListProc, ListFails
<1>3. ASSUME NEW p \in Pid, processStat(p) PROVE TypeOK'
  <2>1. ParentRead(p) \in Pid \cup {NoPid} /\ Append(pidMap[ParentRead(p)], p) \in Seq(Pid)
    BY <1>3, AppendRange DEF ParentRead
  <2>2. Recorded(p) \in [Pid \cup {NoPid} -> Seq(Pid)]
    BY <2>1 DEF Recorded
  <2>. QED
    BY <1>3, <2>2 DEF processStat, Finished
<1>4. CASE Collect
  BY <1>4 DEF Collect
<1>5. CASE collectAllChildren
  <2>1. Head(pending) \in Pid /\ Tail(pending) \in Seq(Pid)
    BY <1>5, HeadTailRange DEF collectAllChildren
  <2>2. BeforeSiblings(Head(pending)) \o Tail(pending) \in Seq(Pid)
    BY <2>1, ConcatProperties DEF BeforeSiblings
  <2>3. Append(childPIDs, Head(pending)) \in Seq(Pid)
        /\ Len(Append(childPIDs, Head(pending))) = Len(childPIDs) + 1 /\ Len(childPIDs) \in Nat
    BY <2>1, AppendProperties
  <2>. QED
    BY <1>5, <2>2, <2>3 DEF collectAllChildren
<1>6. CASE Collected \/ StackOverflow
  BY <1>6 DEF Collected, StackOverflow
<1>7. CASE InjectChild
  <2>1. Len(childPIDs) \in Nat /\ childPIDs[next] \in Pid
    BY <1>7 DEF InjectChild
  <2>. QED
    BY <1>7, <2>1 DEF InjectChild
<1>8. CASE Finish
  BY <1>8 DEF Finish
<1>9. ASSUME NEW p \in Pid, Fork(p) PROVE TypeOK'
  <2>1. PICK q \in Pid \ {Reaper} :
          /\ p \in live /\ live' = live \cup {q}
          /\ forker' = [forker EXCEPT ![q] = p] /\ ppid' = [ppid EXCEPT ![q] = p]
          /\ spaced' = (IF p \in spaced THEN spaced \cup {q} ELSE spaced)
          /\ digits' = [digits EXCEPT ![q] = digits[p]]
          /\ faked' = (IF p \in faked THEN faked \cup {q} ELSE faked)
          /\ UNCHANGED <<command, history>>
    BY <1>9, NewProcess
  <2>2. /\ forker' \in [Pid -> Pid \cup {NoPid}] /\ ppid' \in [Pid -> Pid \cup {NoPid}]
        /\ live' \subseteq Pid /\ spaced' \subseteq live' /\ faked' \subseteq Pid
        /\ digits' \in [Pid -> Digits \cup {NoPid}]
    BY <2>1
  <2>. QED
    BY <2>1, <2>2
<1>10. ASSUME NEW p \in Pid, Exec(p) PROVE TypeOK'
  <2>1. \E d \in Digits \cup {NoPid} : digits' = [digits EXCEPT ![p] = d]
    BY <1>10 DEF Exec
  <2>2. digits' \in [Pid -> Digits \cup {NoPid}]
    BY <2>1
  <2>3. p \in live /\ UNCHANGED <<live, forker, ppid, command, misread>> /\ moves' \in 0..MaxMoves
    BY <1>10 DEF Exec, Moves
  <2>4. /\ spaced' = spaced \ {p} \/ spaced' = spaced \cup {p}
        /\ faked' = faked \ {p} /\ steady' \subseteq steady /\ excused' \subseteq excused \cup {p}
    BY <1>10 DEF Exec
  <2>. QED
    BY <2>2, <2>3, <2>4
<1>11. ASSUME NEW p \in Pid, Exit(p) PROVE TypeOK'
  BY <1>11 DEF Exit, Moves
<1>12. CASE UNCHANGED vars
  BY <1>12 DEF vars
<1>. QED
  BY <1>1, <1>2, <1>3, <1>4, <1>5, <1>6, <1>7, <1>8, <1>9, <1>10, <1>11, <1>12
  DEF Next, Main, Processes

\* No pid loses who forked it.
LEMMA ForkerKept ==
  ASSUME TypeOK, FamilyInv, [Next]_vars
  PROVE  /\ \A q \in Pid : forker'[q] = forker[q] \/ (forker[q] = NoPid /\ q \notin live /\ q # Reaper)
         /\ \A q \in Pid : Used(q) => Used(q)' /\ forker'[q] = forker[q]
<1>1. CASE UNCHANGED forker
  BY <1>1 DEF Used
<1>2. ASSUME NEW p \in Pid, Fork(p)
      PROVE  \A q \in Pid : forker'[q] = forker[q] \/ (forker[q] = NoPid /\ q \notin live /\ q # Reaper)
  BY <1>2, NewProcess DEF TypeOK, FamilyInv, Used
<1>3. ASSUME ~UNCHANGED forker PROVE \E p \in Pid : Fork(p)
  BY <1>3 DEF Next, Main, Processes, InjectRoot, OpenProc, ListProc, ListFails, processStat, Collect, collectAllChildren,
     StackOverflow, Collected, InjectChild, Finish, Exec, Exit, vars, tree
<1>. QED
  BY <1>1, <1>2, <1>3 DEF Used

\* What is read of one process is added under the parent that was read.
LEMMA RecordedRange ==
  ASSUME TypeOK, NEW p \in Pid, NEW r \in Pid \cup {NoPid}
  PROVE  Range(Recorded(p)[r]) =
           IF r = ParentRead(p) THEN Range(pidMap[r]) \cup {p} ELSE Range(pidMap[r])
<1>1. ParentRead(p) \in Pid \cup {NoPid} /\ pidMap \in [Pid \cup {NoPid} -> Seq(Pid)]
  BY PidAssumption DEF TypeOK, ParentRead
<1>2. Range(Append(pidMap[ParentRead(p)], p)) = Range(pidMap[ParentRead(p)]) \cup {p}
  BY <1>1, AppendRange
<1>3. Recorded(p)[r] = IF r = ParentRead(p) THEN Append(pidMap[ParentRead(p)], p) ELSE pidMap[r]
  BY <1>1 DEF Recorded
<1>. QED
  BY <1>2, <1>3

\* An element of pidMap is a pid.
LEMMA RecordedPid ==
  ASSUME TypeOK, NEW r \in Pid \cup {NoPid}
  PROVE  Range(pidMap[r]) \subseteq Pid
  BY DEF TypeOK, Range

\* Forks use new pids, and orphans go to Reaper.
LEMMA FamilyStep ==
  ASSUME TypeOK, FamilyInv, [Next]_vars
  PROVE  FamilyInv'
<1> USE PidAssumption
<1>1. CASE UNCHANGED <<live, forker, ppid>>
  BY <1>1 DEF FamilyInv, Used
<1>2. ASSUME NEW p \in Pid, Fork(p) PROVE FamilyInv'
  <2>1. PICK q \in Pid \ {Reaper} :
          /\ forker[q] = NoPid /\ p \in live /\ live' = live \cup {q}
          /\ forker' = [forker EXCEPT ![q] = p] /\ ppid' = [ppid EXCEPT ![q] = p]
    BY <1>2, NewProcess
  <2>2. q # Root /\ q \notin live /\ \A s \in Pid : forker[s] # q
    BY <2>1 DEF TypeOK, FamilyInv, Used
  <2>3. /\ forker'[q] = p /\ ppid'[q] = p
        /\ \A s \in Pid \ {q} : forker'[s] = forker[s] /\ ppid'[s] = ppid[s]
    BY <2>1 DEF TypeOK
  <2>4. ASSUME NEW s \in Pid, forker'[s] # NoPid
        PROVE  forker'[s] = Reaper \/ forker'[forker'[s]] # NoPid
    <3>1. CASE s = q
      BY <2>1, <2>2, <2>3, <3>1 DEF TypeOK, FamilyInv, Used
    <3>2. CASE s # q
      <4>1. forker'[s] = forker[s] /\ forker[s] \in Pid \ {q}
        BY <2>2, <2>3, <2>4, <3>2 DEF TypeOK
      <4>2. forker[s] = Reaper \/ forker[forker[s]] # NoPid
        BY <2>4, <4>1 DEF FamilyInv, Used
      <4>. QED
        BY <2>3, <4>1, <4>2
    <3>. QED
      BY <3>1, <3>2
  <2>5. \A s \in live' : /\ Used(s)' /\ ppid'[s] \in {forker'[s], Reaper}
                         /\ forker'[s] \in live' => ppid'[s] = forker'[s]
    BY <2>1, <2>2, <2>3 DEF TypeOK, FamilyInv, Used
  <2>. QED
    BY <2>2, <2>3, <2>4, <2>5 DEF FamilyInv, Used
<1>3. ASSUME NEW p \in Pid, Exit(p) PROVE FamilyInv'
  <2>1. /\ live' = live \ {p} /\ forker' = forker
        /\ \A q \in Pid : ppid'[q] = IF q \in live /\ ppid[q] = p THEN Reaper ELSE ppid[q]
    BY <1>3 DEF Exit
  <2>. QED
    BY <2>1 DEF TypeOK, FamilyInv, Used
<1>4. ASSUME NEW p \in Pid, Exec(p) PROVE FamilyInv'
  BY <1>4, <1>1 DEF Exec
<1>5. Main \/ UNCHANGED vars => UNCHANGED <<live, forker, ppid>>
  BY DEF Main, InjectRoot, OpenProc, ListProc, ListFails, processStat, Collect, collectAllChildren,
     StackOverflow, Collected,
     InjectChild, Finish, vars, tree
<1>. QED
  BY <1>1, <1>2, <1>3, <1>4, <1>5 DEF Next, Processes

\* A process is recorded once, under its parent at that moment.
LEMMA ScanStep ==
  ASSUME TypeOK, FamilyInv, ScanInv, [Next]_vars
  PROVE  ScanInv'
<1>1. \A p \in Pid : Used(p) => Used(p)' /\ forker'[p] = forker[p]
  BY ForkerKept
<1>2. /\ Reaper \notin spaced' \cup misread' /\ misread \subseteq misread'
      /\ \A p \in misread' : Used(p)'
  <2>1. CASE UNCHANGED <<spaced, misread>>
    BY <1>1, <2>1 DEF ScanInv, TypeOK
  <2>2. ASSUME NEW p \in Pid, processStat(p)
        PROVE  /\ Reaper \notin spaced' \cup misread' /\ misread \subseteq misread'
               /\ \A q \in misread' : Used(q)'
    <3>1. spaced' = spaced /\ (misread' = misread \/ (p \in spaced /\ misread' = misread \cup {p}))
      BY <2>2 DEF processStat, tree
    <3>2. p \in spaced => Used(p)
      BY DEF TypeOK, FamilyInv
    <3>. QED
      BY <1>1, <3>1, <3>2 DEF ScanInv, TypeOK
  <2>3. ASSUME NEW p \in Pid, Fork(p) PROVE Reaper \notin spaced' /\ UNCHANGED misread
    <3>1. PICK q \in Pid \ {Reaper} : spaced' = (IF p \in spaced THEN spaced \cup {q} ELSE spaced)
                                      /\ UNCHANGED <<command, history>>
      BY <2>3, NewProcess
    <3>. QED
      BY <3>1 DEF ScanInv, history
  <2>4. ASSUME NEW p \in Pid, Exec(p) \/ Exit(p) PROVE Reaper \notin spaced' /\ UNCHANGED misread
    BY <2>4 DEF Exec, Exit, ScanInv
  <2>5. CASE \/ InjectRoot \/ OpenProc \/ ListProc \/ ListFails \/ Collect \/ collectAllChildren
             \/ StackOverflow \/ Collected \/ InjectChild \/ Finish \/ UNCHANGED vars
    BY <2>1, <2>5 DEF InjectRoot, OpenProc, ListProc, ListFails, Collect, collectAllChildren,
       StackOverflow, Collected, InjectChild, Finish, vars, tree, history
  <2>. QED
    BY <1>1, <2>2, <2>3, <2>4, <2>5 DEF Next, Main, Processes, ScanInv, TypeOK
<1>3. CASE UNCHANGED pidMap
  BY <1>1, <1>2, <1>3, RecordedPid DEF ScanInv
<1>4. ASSUME NEW p \in Pid, processStat(p), Readable(p) PROVE ScanInv'
  <2>1. /\ pidMap' = Recorded(p) /\ forker' = forker
        /\ p \in misread' \/ (p \notin spaced /\ ParentRead(p) = ppid[p])
    BY <1>4 DEF processStat, tree, ParentRead
  <2>2. Used(p) /\ (p \in misread' \/ ParentRead(p) \in {forker[p], Reaper})
    BY <1>4, <2>1 DEF FamilyInv, Readable
  <2>3. ASSUME NEW r \in Pid \cup {NoPid}, NEW q \in Range(Recorded(p)[r])
        PROVE  Used(q) /\ (q \in misread' \/ r \in {forker[q], Reaper})
    <3>1. q \in Range(pidMap[r]) \/ (r = ParentRead(p) /\ q = p)
      BY RecordedRange
    <3>. QED
      BY <1>2, <2>2, <3>1 DEF ScanInv
  <2>. QED
    BY <1>2, <2>1, <2>3 DEF ScanInv, Used
<1>5. (~ \E p \in Pid : processStat(p) /\ Readable(p)) => UNCHANGED pidMap
  BY DEF Next, Main, Processes, InjectRoot, OpenProc, ListProc, ListFails, processStat, Collect,
     collectAllChildren, StackOverflow, Collected, InjectChild, Finish, Fork, Exec, Exit, vars, command
<1>. QED
  BY <1>3, <1>4, <1>5

\* What was misread stays so.
LEMMA MisreadKept ==
  ASSUME [Next]_vars
  PROVE  misread \subseteq misread'
  BY DEF Next, Main, Processes, InjectRoot, OpenProc, ListProc, ListFails, processStat, Collect,
     collectAllChildren, StackOverflow, Collected, InjectChild, Finish, Fork, Exec, Exit, vars, history

\* A descendant stays one, whatever the processes do.
LEMMA BelowStep ==
  ASSUME TypeOK, FamilyInv, [Next]_vars, NEW p \in Pid, ForkedBelow(misread, p)
  PROVE  ForkedBelow(misread, p)'
<1>1. \A q \in Pid : forker'[q] = forker[q] \/ forker[q] = NoPid
  BY ForkerKept
<1>2. misread \subseteq misread'
  BY MisreadKept
<1>. QED
  BY <1>1, <1>2, BelowKept

\* What is recorded under Root, or under a process below it, is below it.
LEMMA RecordedBelow ==
  ASSUME TypeOK, FamilyInv, ScanInv, NEW r \in Pid, r = Root \/ ForkedBelow(misread, r),
         NEW p \in Range(pidMap[r])
  PROVE  p \in Pid /\ ForkedBelow(misread, p)
<1> USE PidAssumption
<1>1. p \in Pid /\ (p \in misread \/ r \in {forker[p], Reaper})
  BY RecordedPid DEF ScanInv
<1>2. CASE p \in misread
  BY <1>1, <1>2 DEF ForkedBelow
<1>3. CASE p \notin misread
  <2>1. r # Reaper
    BY BelowUsed
  <2>2. p # Reaper /\ forker[p] = r
    BY <1>1, <1>3, <2>1 DEF FamilyInv
  <2>3. forker[p] = Root \/ ForkedBelow(misread, forker[p])
    BY <2>2
  <2>. QED
    BY <1>1, <2>2, <2>3, ChildBelow
<1>. QED
  BY <1>2, <1>3

\* Nobody else is collected or injected.
LEMMA DescentStep ==
  ASSUME TypeOK, FamilyInv, ScanInv, DescentInv, [Next]_vars
  PROVE  DescentInv'
<1> USE PidAssumption
<1>1. \A p \in Pid : ForkedBelow(misread, p) => ForkedBelow(misread, p)'
  BY BelowStep
<1>2. Range(pending) \subseteq Pid /\ Range(childPIDs) \subseteq Pid
  BY DEF TypeOK, Range
<1>3. /\ \A p \in Range(pending) \cup Range(childPIDs) : ForkedBelow(misread, p)'
      /\ \A p \in faked : p = Root \/ ForkedBelow(misread, p)'
  BY <1>1, <1>2 DEF TypeOK, DescentInv, OnlyDescendants
<1>4. ASSUME UNCHANGED <<pending, childPIDs>>, faked' \subseteq faked \cup {Root} PROVE DescentInv'
  BY <1>3, <1>4 DEF DescentInv, OnlyDescendants
<1>5. CASE Collect
  <2>1. pending' = pidMap[Root] /\ UNCHANGED <<childPIDs, faked>>
    BY <1>5 DEF Collect
  <2>2. \A p \in Range(pidMap[Root]) : ForkedBelow(misread, p)'
    BY <1>1, RecordedBelow
  <2>3. \A p \in Range(pending') \cup Range(childPIDs') : ForkedBelow(misread, p)'
    BY <1>3, <2>1, <2>2
  <2>. QED
    BY <1>3, <2>1, <2>3 DEF DescentInv, OnlyDescendants
<1>6. CASE collectAllChildren
  <2> DEFINE q == Head(pending)
  <2>1. /\ q \in Pid /\ Tail(pending) \in Seq(Pid)
        /\ Range(pending) = {q} \cup Range(Tail(pending))
    BY <1>6, HeadTailRange DEF collectAllChildren, TypeOK
  <2>2. ForkedBelow(misread, q)
    BY <2>1 DEF DescentInv
  <2>3. Range(pending') = Range(pidMap[q]) \cup Range(Tail(pending))
    BY <1>6, PendingRange
  <2>4. Range(childPIDs') = Range(childPIDs) \cup {q}
    BY <1>6, <2>1, AppendRange DEF collectAllChildren, TypeOK
  <2>5. \A p \in Range(pidMap[q]) : ForkedBelow(misread, p)'
    BY <1>1, <2>1, <2>2, RecordedBelow
  <2>6. UNCHANGED faked
    BY <1>6 DEF collectAllChildren
  <2> HIDE DEF q
  <2>. QED
    BY <1>1, <1>3, <2>1, <2>2, <2>3, <2>4, <2>5, <2>6 DEF DescentInv, OnlyDescendants
<1>7. CASE InjectChild
  <2>1. childPIDs[next] \in Range(childPIDs)
    BY <1>7 DEF InjectChild, TypeOK, Range
  <2>2. UNCHANGED <<pending, childPIDs>> /\ faked' \subseteq faked \cup {childPIDs[next]}
    BY <1>7 DEF InjectChild
  <2>. QED
    BY <1>3, <2>1, <2>2 DEF DescentInv, OnlyDescendants
<1>8. ASSUME NEW p \in Pid, Fork(p) PROVE DescentInv'
  <2>1. PICK q \in Pid \ {Reaper} :
          /\ forker' = [forker EXCEPT ![q] = p]
          /\ faked' = (IF p \in faked THEN faked \cup {q} ELSE faked)
          /\ UNCHANGED <<command, history>>
    BY <1>8, NewProcess
  <2>2. forker'[q] = p
    BY <2>1 DEF TypeOK
  <2>3. ASSUME p \in faked PROVE ForkedBelow(misread, q)'
    <3>1. p = Root \/ ForkedBelow(misread, p)'
      BY <1>3, <2>3
    <3>. QED
      BY <2>2, <3>1 DEF ForkedBelow
  <2>. QED
    BY <1>3, <2>1, <2>3 DEF DescentInv, OnlyDescendants, command
<1>9. ASSUME NEW p \in Pid, Exec(p) \/ Exit(p) PROVE DescentInv'
  BY <1>4, <1>9 DEF Exec, Exit, command
<1>10. CASE \/ InjectRoot \/ OpenProc \/ ListProc \/ ListFails \/ StackOverflow \/ Collected
            \/ Finish \/ UNCHANGED vars
  BY <1>4, <1>10 DEF InjectRoot, OpenProc, ListProc, ListFails, StackOverflow, Collected, Finish,
     vars, command
<1>11. ASSUME NEW p \in Pid, processStat(p) PROVE DescentInv'
  BY <1>4, <1>11 DEF processStat
<1>. QED
  BY <1>5, <1>6, <1>7, <1>8, <1>9, <1>10, <1>11 DEF Next, Main, Processes

\* A process that is there for the whole scan is recorded under the one that forked it,
\* if that one is there as well: it cannot have become an orphan.
LEMMA SteadyStep ==
  ASSUME TypeOK, FamilyInv, SteadyInv, [Next]_vars
  PROVE  SteadyInv'
<1> USE PidAssumption DEF Scanned, Scanning
<1>1. \A p \in Pid : Used(p) => Used(p)' /\ forker'[p] = forker[p]
  BY ForkerKept
<1>2. \A p \in steady : p \in Pid /\ Used(p) /\ Used(p)' /\ forker'[p] = forker[p]
  BY <1>1 DEF TypeOK, SteadyInv
<1>3. ASSUME UNCHANGED <<pc, procs, pidMap>>, steady' \subseteq steady,
             Scanning => \A p \in steady' : p \in live' /\ (p = Root \/ p \notin spaced')
      PROVE  SteadyInv'
  BY <1>2, <1>3 DEF SteadyInv
<1>4. CASE InjectRoot \/ ListFails \/ StackOverflow
  BY <1>2, <1>4 DEF SteadyInv, InjectRoot, ListFails, StackOverflow, tree, history
<1>5. CASE OpenProc
  <2>1. /\ steady' \subseteq live /\ procs' = live /\ pc' = "listing" /\ UNCHANGED tree
        /\ \A p \in steady' : p = Root \/ p \notin spaced
    BY <1>5 DEF OpenProc
  <2>2. \A p \in steady' : Used(p)'
    BY <2>1, <1>1 DEF FamilyInv, TypeOK
  <2>. QED
    BY <2>1, <2>2 DEF SteadyInv, tree
<1>12. CASE ListProc
  <2>1. /\ pc = "listing" /\ pc' = "scan" /\ UNCHANGED <<tree, steady>> /\ procs \cap live \subseteq procs'
    BY <1>12 DEF ListProc, history
  <2>2. steady \subseteq procs'
    BY <2>1 DEF SteadyInv
  <2>. QED
    BY <1>2, <2>1, <2>2 DEF SteadyInv, tree
<1>6. ASSUME NEW p \in Pid, processStat(p) PROVE SteadyInv'
  <2>1. /\ pc = "scan" /\ procs' = procs \ {p} /\ UNCHANGED <<tree, steady, pc>>
        /\ pidMap' = IF Readable(p) THEN Recorded(p) ELSE pidMap
    BY <1>6 DEF processStat, Finished
  <2>2. \A r \in Pid \cup {NoPid} : Range(pidMap[r]) \subseteq Range(pidMap'[r])
    BY <2>1, RecordedRange
  <2>3. ASSUME NEW q \in steady \ (procs' \cup {Root}), forker[q] \in steady
        PROVE  q \in Range(pidMap'[forker[q]])
    <3>1. forker[q] \in Pid /\ q \in Pid
      BY <1>2, <2>3
    <3>2. CASE q = p
      <4>1. q \in live \ spaced /\ forker[q] \in live
        BY <2>1, <2>3 DEF SteadyInv
      <4>2. Readable(q) /\ ParentRead(q) = forker[q]
        BY <4>1 DEF FamilyInv, Readable, ParentRead
      <4>. QED
        BY <2>1, <3>1, <3>2, <4>2, RecordedRange
    <3>3. CASE q # p
      BY <2>1, <2>2, <2>3, <3>1, <3>3 DEF SteadyInv
    <3>. QED
      BY <3>2, <3>3
  <2>4. \A q \in steady' : q \in live' /\ (q = Root \/ q \notin spaced')
    BY <2>1 DEF SteadyInv, tree
  <2>. QED
    BY <1>2, <2>1, <2>3, <2>4 DEF SteadyInv, tree
<1>7. CASE Collect \/ Collected \/ Finish
  BY <1>2, <1>7 DEF SteadyInv, Collect, Collected, Finish, tree, history
<1>8. CASE collectAllChildren \/ InjectChild \/ UNCHANGED vars
  BY <1>3, <1>8 DEF SteadyInv, collectAllChildren, InjectChild, vars, tree, command, history
<1>9. ASSUME NEW p \in Pid, Fork(p) PROVE SteadyInv'
  <2>1. PICK q \in Pid \ {Reaper} :
          /\ forker[q] = NoPid /\ live' = live \cup {q}
          /\ spaced' = (IF p \in spaced THEN spaced \cup {q} ELSE spaced)
          /\ UNCHANGED <<command, history>>
    BY <1>9, NewProcess
  <2>2. q \notin steady
    BY <1>2, <2>1 DEF Used
  <2>. QED
    BY <1>3, <2>1, <2>2 DEF SteadyInv, command, history
<1>10. ASSUME NEW p \in Pid, Exec(p) PROVE SteadyInv'
  <2>1. UNCHANGED <<live, command>> /\ steady' \subseteq steady
    BY <1>10 DEF Exec
  <2>2. Scanning => \A q \in steady' : q = Root \/ q \notin spaced'
    BY <1>10 DEF Exec, SteadyInv
  <2>. QED
    BY <1>3, <2>1, <2>2 DEF SteadyInv, command
<1>11. ASSUME NEW p \in Pid, Exit(p) PROVE SteadyInv'
  BY <1>3, <1>11 DEF Exit, SteadyInv, command
<1>. QED
  BY <1>4, <1>5, <1>6, <1>7, <1>8, <1>9, <1>10, <1>11, <1>12 DEF Next, Main, Processes

\* No child of a process that was collected is forgotten.
LEMMA CollectStep ==
  ASSUME TypeOK, CollectInv, [Next]_vars
  PROVE  CollectInv'
<1> USE PidAssumption DEF Scanned, Unscanned
<1>1. ASSUME UNCHANGED <<pidMap, pending, childPIDs>>,
             pc' \in {"inject", "done"} => pc \in {"inject", "done"} \/ pending = <<>>,
             pc' \in Scanned => pc \in Scanned, pc' \in Unscanned => pc \in Unscanned
      PROVE  CollectInv'
  BY <1>1 DEF CollectInv
<1>2. CASE Collect
  <2>1. /\ pc' = "collect" /\ pending' = pidMap[Root] /\ pidMap' = pidMap
        /\ childPIDs' = <<>> /\ Range(<<>>) = {}
    BY <1>2 DEF Collect, CollectInv, Range
  <2>. QED
    BY <2>1 DEF CollectInv
<1>3. CASE collectAllChildren
  <2> DEFINE q == Head(pending)
  <2>1. /\ pc = "collect" /\ UNCHANGED <<pc, pidMap>>
        /\ pending' = pidMap[q] \o Tail(pending) /\ childPIDs' = Append(childPIDs, q)
    BY <1>3 DEF collectAllChildren, BeforeSiblings
  <2>2. /\ q \in Pid /\ Tail(pending) \in Seq(Pid) /\ pidMap[q] \in Seq(Pid)
        /\ Range(pending) = {q} \cup Range(Tail(pending))
    BY <1>3, HeadTailRange DEF collectAllChildren, TypeOK
  <2>3. Range(pending') = Range(pidMap[q]) \cup Range(Tail(pending))
    BY <1>3, PendingRange DEF q
  <2>4. Range(childPIDs') = Range(childPIDs) \cup {q}
    BY <2>1, <2>2, AppendRange DEF TypeOK
  <2> HIDE DEF q
  <2>5. ASSUME NEW r \in {Root} \cup Range(childPIDs')
        PROVE  Range(pidMap[r]) \subseteq Range(childPIDs') \cup Range(pending')
    <3>1. CASE r = q
      BY <2>3, <3>1
    <3>2. CASE r # q
      <4>1. Range(pidMap[r]) \subseteq Range(childPIDs) \cup Range(pending)
        BY <2>1, <2>4, <2>5, <3>2 DEF CollectInv
      <4>. QED
        BY <2>2, <2>3, <2>4, <4>1
    <3>. QED
      BY <3>1, <3>2
  <2>. QED
    BY <2>1, <2>5 DEF CollectInv
<1>4. CASE \/ InjectRoot \/ OpenProc \/ ListProc \/ ListFails \/ StackOverflow \/ Collected
           \/ InjectChild \/ Finish \/ UNCHANGED vars
  BY <1>1, <1>4 DEF InjectRoot, OpenProc, ListProc, ListFails, StackOverflow, Collected,
     InjectChild, Finish, vars, command
<1>5. ASSUME NEW p \in Pid, processStat(p) PROVE CollectInv'
  BY <1>5 DEF CollectInv, processStat
<1>6. ASSUME NEW p \in Pid, Fork(p) \/ Exec(p) \/ Exit(p) PROVE CollectInv'
  BY <1>1, <1>6 DEF Fork, Exec, Exit, command
<1>. QED
  BY <1>2, <1>3, <1>4, <1>5, <1>6 DEF Next, Main, Processes

\* Who was injected does not lose its clocks but by exec or exit, and its pid is not
\* given to another process.
LEMMA InjectStep ==
  ASSUME TypeOK, ScanInv, DescentInv, InjectInv, [Next]_vars
  PROVE  InjectInv'
<1>1. \A k \in 1..next - 1 : childPIDs[k] \in Range(childPIDs) /\ childPIDs[k] \in Pid
  BY DEF TypeOK, Range
<1>2. ASSUME pc \notin {"inject", "done"}, pc' \notin {"inject", "done"}, next' = next
      PROVE  InjectInv'
  BY <1>2 DEF InjectInv
<1>3. ASSUME UNCHANGED <<pc, childPIDs, next>>,
             \A k \in 1..next - 1 : childPIDs[k] \in live' =>
               childPIDs[k] \in live /\ (childPIDs[k] \in faked \cup excused
                                           => childPIDs[k] \in faked' \cup excused')
      PROVE  InjectInv'
  BY <1>3 DEF InjectInv
<1>4. CASE \/ InjectRoot \/ OpenProc \/ ListProc \/ ListFails \/ Collect \/ collectAllChildren
           \/ StackOverflow
  BY <1>2, <1>4 DEF InjectRoot, OpenProc, ListProc, ListFails, Collect, collectAllChildren, StackOverflow
<1>5. ASSUME NEW p \in Pid, processStat(p) PROVE InjectInv'
  BY <1>2, <1>5 DEF processStat
<1>6. CASE Collected
  BY <1>6 DEF Collected, InjectInv
<1>7. CASE InjectChild
  <2>1. /\ pc = "inject" /\ next <= Len(childPIDs) /\ next' = next + 1
        /\ UNCHANGED <<live, pc, childPIDs>>
        /\ faked \subseteq faked' /\ excused \subseteq excused'
        /\ childPIDs[next] \in faked' \cup excused'
    BY <1>7 DEF InjectChild, tree
  <2>2. next \in Nat /\ \A k \in 1..next' - 1 : k \in 1..next - 1 \/ k = next
    BY <2>1 DEF TypeOK
  <2>. QED
    BY <2>1, <2>2 DEF InjectInv
<1>8. CASE Finish
  BY <1>8 DEF Finish, InjectInv, tree, history
<1>9. CASE UNCHANGED vars
  BY <1>3, <1>9 DEF vars, tree, command, history
<1>10. ASSUME NEW p \in Pid, Fork(p) PROVE InjectInv'
  <2>1. PICK q \in Pid \ {Reaper} :
          /\ forker[q] = NoPid /\ live' = live \cup {q}
          /\ faked' = (IF p \in faked THEN faked \cup {q} ELSE faked)
          /\ UNCHANGED <<command, history>>
    BY <1>10, NewProcess
  <2>2. \A k \in 1..next - 1 : childPIDs[k] # q
    BY <1>1, <2>1, BelowUsed DEF DescentInv
  <2>. QED
    BY <1>3, <2>1, <2>2 DEF command, history
<1>11. ASSUME NEW p \in Pid, Exec(p) PROVE InjectInv'
  <2>1. /\ UNCHANGED <<live, pc, childPIDs, next>> /\ faked' = faked \ {p}
        /\ pc # "done" /\ (pc = "inject" => excused' = excused \cup {p})
        /\ excused \subseteq excused'
    BY <1>11 DEF Exec, Moves, Moving, command
  <2>2. CASE pc = "inject"
    BY <1>3, <2>1, <2>2
  <2>3. CASE pc # "inject"
    BY <1>2, <2>1, <2>3
  <2>. QED
    BY <2>2, <2>3
<1>12. ASSUME NEW p \in Pid, Exit(p) PROVE InjectInv'
  BY <1>3, <1>12 DEF Exit, command
<1>. QED
  BY <1>4, <1>5, <1>6, <1>7, <1>8, <1>9, <1>10, <1>11, <1>12 DEF Next, Main, Processes

(***************************************************************************)
(* Theorems                                                                *)
(***************************************************************************)

\* The invariant holds throughout.
THEOREM Invariance == Spec => []IInv
<1>1. IInv /\ [Next]_vars => IInv'
  <2> SUFFICES ASSUME IInv, [Next]_vars PROVE IInv'
    OBVIOUS
  <2>1. TypeOK'
    BY NextTypeOK DEF IInv
  <2>2. FamilyInv' /\ ScanInv' /\ DescentInv'
    BY FamilyStep, ScanStep, DescentStep DEF IInv
  <2>3. SteadyInv' /\ CollectInv' /\ InjectInv'
    BY SteadyStep, CollectStep, InjectStep DEF IInv
  <2>. QED
    BY <2>1, <2>2, <2>3 DEF IInv
<1>. QED
  BY <1>1, InitIInv, PTL DEF Spec

\* Every variable keeps its type: what is read from /proc and injected are pids of
\* processes.
THEOREM TypeCorrect == Spec => []TypeOK
<1>1. IInv => TypeOK
  BY DEF IInv
<1>. QED
  BY <1>1, Invariance, PTL

\* Whatever the order in which the entries of /proc are read, and whatever processes fork,
\* exec, exit and become orphans in the meantime, nobody outside the tree is touched, but
\* for a process whose name is taken for its parent and what that one forks.
THEOREM NobodyElseTouched == Spec => []OnlyDescendants
<1>1. IInv => OnlyDescendants
  BY DEF IInv, DescentInv
<1>. QED
  BY <1>1, Invariance, PTL

\* When the command ends, it has missed no descendant that was there, with all its
\* ancestors, for the whole scan, has not called exec since and could be injected.
THEOREM SteadyTreeReached == Spec => []SteadyTreeFaked
<1>1. IInv => SteadyTreeFaked
  <2> SUFFICES ASSUME IInv, pc = "done", NEW p \in live, Steady(p), p \notin excused, p # Root
               PROVE  p \in faked
    BY DEF SteadyTreeFaked
  <2> USE DEF IInv
  <2> DEFINE S == {q \in steady : q = Root \/ q \in Range(childPIDs)}
  <2>1. ASSUME NEW q \in steady, q = Root \/ forker[q] \in S PROVE q \in S
    <3>1. CASE q = Root
      BY <3>1
    <3>2. CASE q # Root
      <4>1. q \in Range(pidMap[forker[q]])
        BY <2>1, <3>2 DEF SteadyInv, Scanned
      <4>2. Range(pidMap[forker[q]]) \subseteq Range(childPIDs) \cup Range(pending)
        BY <2>1, <3>2 DEF CollectInv, Scanned
      <4>3. Range(pending) = {}
        BY DEF CollectInv, Range
      <4>. QED
        BY <4>1, <4>2, <4>3
    <3>. QED
      BY <3>1, <3>2
  <2>2. S \in SUBSET Pid
    BY DEF TypeOK
  <2>3. p \in S
    BY <2>1, <2>2 DEF Steady
  <2>4. PICK k \in 1..Len(childPIDs) : childPIDs[k] = p
    BY <2>3 DEF TypeOK, Range
  <2>5. k \in 1..next - 1
    BY <2>4 DEF TypeOK, InjectInv
  <2>. QED
    BY <2>4, <2>5 DEF InjectInv
<1>. QED
  BY <1>1, Invariance, PTL

(***************************************************************************)
(* Nobody is injected twice                                                *)
(***************************************************************************)

\* What Append keeps without repetition.
LEMMA AppendInjects ==
  ASSUME NEW S, NEW s \in Seq(S), IsInjective(s), NEW e \in S, e \notin Range(s)
  PROVE  IsInjective(Append(s, e))
<1>1. /\ Append(s, e) \in Seq(S) /\ Len(Append(s, e)) = Len(s) + 1 /\ Len(s) \in Nat
      /\ \A k \in 1..Len(s) : Append(s, e)[k] = s[k]
      /\ Append(s, e)[Len(s) + 1] = e
  BY AppendProperties
<1>2. \A k \in 1..Len(s) : s[k] # e
  BY DEF Range
<1>3. \A j, k \in 1..Len(s) : s[j] = s[k] => j = k
  BY DEF IsInjective
<1> DEFINE t == Append(s, e)
<1>4. ASSUME NEW j \in 1..Len(s) + 1, NEW k \in 1..Len(s) + 1, t[j] = t[k] PROVE j = k
  <2>1. (j \in 1..Len(s) \/ j = Len(s) + 1) /\ (k \in 1..Len(s) \/ k = Len(s) + 1)
    BY <1>1
  <2>. QED
    BY <1>1, <1>2, <1>3, <1>4, <2>1
<1>5. DOMAIN t = 1..Len(s) + 1
  BY <1>1
<1>. QED
  BY <1>4, <1>5 DEF IsInjective

\* A sequence without repetition: the head is not in the tail.
LEMMA TailInjects ==
  ASSUME NEW S, NEW s \in Seq(S), s # <<>>, IsInjective(s)
  PROVE  IsInjective(Tail(s)) /\ Head(s) \notin Range(Tail(s))
<1>1. Len(s) \in Nat /\ Len(s) # 0 /\ DOMAIN s = 1..Len(s) /\ Head(s) = s[1]
  BY EmptySeq
<1>2. /\ Tail(s) \in Seq(S) /\ Len(Tail(s)) = Len(s) - 1
      /\ \A k \in 1..Len(s) - 1 : Tail(s)[k] = s[k + 1]
  BY <1>1, HeadTailProperties
<1>3. DOMAIN Tail(s) = 1..Len(s) - 1
  BY <1>1, <1>2
<1>4. \A k \in 1..Len(s) - 1 : k + 1 \in 1..Len(s) /\ k + 1 # 1
  BY <1>1
<1>5. \A j, k \in 1..Len(s) : s[j] = s[k] => j = k
  BY <1>1 DEF IsInjective
<1>6. \A j, k \in 1..Len(s) - 1 : Tail(s)[j] = Tail(s)[k] => j = k
  <2> TAKE j, k \in 1..Len(s) - 1
  <2>1. Tail(s)[j] = s[j + 1] /\ Tail(s)[k] = s[k + 1] /\ j + 1 \in 1..Len(s) /\ k + 1 \in 1..Len(s)
    BY <1>2, <1>4
  <2>2. s[j + 1] = s[k + 1] => j + 1 = k + 1
    BY <1>5, <2>1
  <2>. QED
    BY <2>1, <2>2
<1>7. \A k \in 1..Len(s) - 1 : Tail(s)[k] # Head(s)
  <2> TAKE k \in 1..Len(s) - 1
  <2>1. 1 \in 1..Len(s) /\ k + 1 \in 1..Len(s) /\ k + 1 # 1 /\ Tail(s)[k] = s[k + 1]
    BY <1>1, <1>2, <1>4
  <2>. QED
    BY <1>1, <1>5, <2>1
<1>. QED
  BY <1>3, <1>6, <1>7 DEF IsInjective, Range

\* Two sequences without repetition that have no element in common.
LEMMA ConcatInjects ==
  ASSUME NEW S, NEW s \in Seq(S), NEW t \in Seq(S), IsInjective(s), IsInjective(t),
         Range(s) \cap Range(t) = {}
  PROVE  IsInjective(s \o t)
<1> DEFINE u == s \o t
           n == Len(s)
           m == Len(t)
<1>1. /\ u \in Seq(S) /\ Len(u) = n + m /\ n \in Nat /\ m \in Nat
      /\ \A k \in 1..n + m : u[k] = IF k <= n THEN s[k] ELSE t[k - n]
  BY ConcatProperties
<1>2. \A k \in 1..n + m : (k \in 1..n /\ u[k] = s[k]) \/ (k - n \in 1..m /\ u[k] = t[k - n])
  BY <1>1
<1>3. /\ \A j, k \in 1..n : s[j] = s[k] => j = k
      /\ \A j, k \in 1..m : t[j] = t[k] => j = k
      /\ \A j \in 1..n, k \in 1..m : s[j] # t[k]
  BY DEF IsInjective, Range
<1>4. DOMAIN u = 1..n + m
  BY <1>1
<1> HIDE DEF u, n, m
<1>5. ASSUME NEW j \in 1..n + m, NEW k \in 1..n + m, u[j] = u[k] PROVE j = k
  <2>1. CASE j \in 1..n /\ u[j] = s[j]
    BY <1>2, <1>3, <1>5, <2>1
  <2>2. CASE j - n \in 1..m /\ u[j] = t[j - n]
    <3>1. k - n \in 1..m /\ u[k] = t[k - n]
      BY <1>2, <1>3, <1>5, <2>2
    <3>2. j - n = k - n
      BY <1>3, <1>5, <2>2, <3>1
    <3>. QED
      BY <1>1, <3>2
  <2>. QED
    BY <1>2, <2>1, <2>2
<1>6. IsInjective(u)
  BY <1>4, <1>5 DEF IsInjective
<1>. QED
  BY <1>6 DEF u

\* One goroutine reads an entry, and records it at most once.
OnceInv ==
  /\ \A r \in Pid \cup {NoPid} : IsInjective(pidMap[r]) /\ Range(pidMap[r]) \cap procs = {}
  /\ \A r, s \in Pid \cup {NoPid} : r # s => Range(pidMap[r]) \cap Range(pidMap[s]) = {}
  /\ pc \in {"start", "list", "listing"} => \A r \in Pid \cup {NoPid} : Range(pidMap[r]) = {}

\* Whatever was collected or is pending was recorded as the child of Root or of a process
\* that was collected, and is there once.
QueueInv ==
  /\ pc \in Unscanned => pending = <<>>
  /\ Root \notin Range(childPIDs)
  /\ IsInjective(pending) /\ IsInjective(childPIDs) /\ Range(pending) \cap Range(childPIDs) = {}
  /\ \A p \in Range(pending) \cup Range(childPIDs) :
       \E r \in {Root} \cup Range(childPIDs) : p \in Range(pidMap[r])

\* No process is injected twice by one command: main does Root on its own, before the
\* scan, and getChildProcesses returns neither Root nor anybody twice, although the map it
\* walks was filled while processes were handed over to other parents.  A second Inject
\* would take the fake code of the first for the original.  Root is not even come across
\* again, which would be the end of the program, unless a parent was read from a name.
InjectedOnce ==
  /\ Root \notin Range(childPIDs) /\ IsInjective(childPIDs)
  /\ misread = {} => Root \notin Range(pending)

\* At the start nothing is recorded.
LEMMA InitOnce == Init => OnceInv /\ QueueInv
<1> SUFFICES ASSUME Init PROVE OnceInv /\ QueueInv
  OBVIOUS
<1>1. Range(<<>>) = {} /\ IsInjective(<<>>)
  BY DEF Range, IsInjective
<1>2. \A r \in Pid \cup {NoPid} : pidMap[r] = <<>>
  BY DEF Init
<1>. QED
  BY <1>1, <1>2 DEF Init, OnceInv, QueueInv, Unscanned

\* An entry is not recorded again: its goroutine is done.
LEMMA OnceStep ==
  ASSUME TypeOK, OnceInv, [Next]_vars
  PROVE  OnceInv'
<1> DEFINE Early == {"start", "list", "listing"}
<1>1. CASE UNCHANGED <<pidMap, procs>> /\ (pc' \in Early => pc \in Early)
  BY <1>1 DEF OnceInv
<1>2. CASE OpenProc \/ ListProc
  BY <1>2 DEF OpenProc, ListProc, OnceInv
<1>3. ASSUME NEW p \in Pid, processStat(p) PROVE OnceInv'
  <2>1. /\ pc = "scan" /\ pc' = "scan" /\ p \in procs /\ procs' = procs \ {p}
        /\ pidMap' = IF Readable(p) THEN Recorded(p) ELSE pidMap
    BY <1>3 DEF processStat, Finished
  <2>2. CASE pidMap' = pidMap
    BY <2>1, <2>2 DEF OnceInv
  <2>3. CASE pidMap' = Recorded(p)
    <3>1. ParentRead(p) \in Pid \cup {NoPid} /\ pidMap \in [Pid \cup {NoPid} -> Seq(Pid)]
      BY PidAssumption DEF TypeOK, ParentRead
    <3>2. \A r \in Pid \cup {NoPid} : p \notin Range(pidMap[r])
      BY <2>1 DEF OnceInv
    <3>3. IsInjective(Append(pidMap[ParentRead(p)], p))
      BY <3>1, <3>2, AppendInjects DEF OnceInv
    <3>4. \A r \in Pid \cup {NoPid} : IsInjective(pidMap'[r])
      BY <2>3, <3>1, <3>3 DEF Recorded, OnceInv
    <3>5. \A r \in Pid \cup {NoPid} :
            Range(pidMap'[r]) = IF r = ParentRead(p) THEN Range(pidMap[r]) \cup {p} ELSE Range(pidMap[r])
      BY <2>3, RecordedRange
    <3>6. \A r \in Pid \cup {NoPid} : Range(pidMap'[r]) \cap procs' = {}
      <4> TAKE r \in Pid \cup {NoPid}
      <4>1. Range(pidMap[r]) \cap procs = {} /\ Range(pidMap'[r]) \subseteq Range(pidMap[r]) \cup {p}
        BY <3>5 DEF OnceInv
      <4>. QED
        BY <2>1, <4>1
    <3>7. \A r, s \in Pid \cup {NoPid} : r # s => Range(pidMap'[r]) \cap Range(pidMap'[s]) = {}
      <4> TAKE r, s \in Pid \cup {NoPid}
      <4> HAVE r # s
      <4>1. Range(pidMap[r]) \cap Range(pidMap[s]) = {}
        BY DEF OnceInv
      <4>2. /\ Range(pidMap'[r]) = IF r = ParentRead(p) THEN Range(pidMap[r]) \cup {p} ELSE Range(pidMap[r])
            /\ Range(pidMap'[s]) = IF s = ParentRead(p) THEN Range(pidMap[s]) \cup {p} ELSE Range(pidMap[s])
        BY <3>5
      <4>3. p \notin Range(pidMap[r]) /\ p \notin Range(pidMap[s])
        BY <3>2
      <4>. QED
        BY <4>1, <4>2, <4>3
    <3>. QED
      BY <2>1, <3>4, <3>6, <3>7 DEF OnceInv
  <2>. QED
    BY <2>1, <2>2, <2>3
<1>4. ASSUME NEW p \in Pid, Fork(p) \/ Exec(p) \/ Exit(p) PROVE OnceInv'
  BY <1>1, <1>4 DEF Fork, Exec, Exit, command
<1>5. CASE \/ InjectRoot \/ ListFails \/ Collect \/ collectAllChildren \/ StackOverflow
           \/ Collected \/ InjectChild \/ Finish \/ UNCHANGED vars
  BY <1>1, <1>5 DEF InjectRoot, ListFails, Collect, collectAllChildren, StackOverflow, Collected,
     InjectChild, Finish, vars, command
<1>. QED
  BY <1>2, <1>3, <1>4, <1>5 DEF Next, Main, Processes

\* The children of a process that is collected now are nowhere yet: they were recorded
\* under it alone.
LEMMA QueueStep ==
  ASSUME TypeOK, CollectInv, OnceInv, QueueInv, [Next]_vars
  PROVE  QueueInv'
<1> USE PidAssumption DEF Unscanned
<1>1. ASSUME UNCHANGED <<pidMap, pending, childPIDs>>, pc' \in Unscanned => pc \in Unscanned
      PROVE  QueueInv'
  BY <1>1 DEF QueueInv
<1>2. CASE Collect
  <2>1. /\ pc' = "collect" /\ pending' = pidMap[Root] /\ pidMap' = pidMap
        /\ childPIDs' = <<>> /\ Range(<<>>) = {} /\ IsInjective(<<>>)
    BY <1>2 DEF Collect, CollectInv, Range, IsInjective
  <2>2. IsInjective(pidMap[Root])
    BY DEF OnceInv
  <2>. QED
    BY <2>1, <2>2 DEF QueueInv
<1>3. CASE collectAllChildren
  <2> DEFINE q == Head(pending)
             rest == Tail(pending)
             first == pidMap[q]
  <2>1. /\ pc = "collect" /\ UNCHANGED <<pc, pidMap>>
        /\ pending' = first \o rest /\ childPIDs' = Append(childPIDs, q)
    BY <1>3 DEF collectAllChildren, BeforeSiblings
  <2>2. /\ q \in Pid /\ rest \in Seq(Pid) /\ first \in Seq(Pid) /\ childPIDs \in Seq(Pid)
        /\ Range(pending) = {q} \cup Range(rest)
    BY <1>3, HeadTailRange DEF collectAllChildren, TypeOK
  <2>3. IsInjective(rest) /\ q \notin Range(rest)
    BY <1>3, TailInjects DEF collectAllChildren, TypeOK, QueueInv
  <2>4. Range(pending') = Range(first) \cup Range(rest)
    BY <1>3, PendingRange DEF first, rest
  <2>5. Range(childPIDs') = Range(childPIDs) \cup {q}
    BY <2>1, <2>2, AppendRange DEF TypeOK
  <2>6. q \notin Range(childPIDs) /\ q # Root
    BY <1>3, <2>2 DEF QueueInv, collectAllChildren
  <2>7. ASSUME NEW p \in Range(first) PROVE p \notin Range(pending) \cup Range(childPIDs)
    <3>1. SUFFICES ASSUME p \in Range(pending) \cup Range(childPIDs) PROVE FALSE
      OBVIOUS
    <3>2. PICK r \in {Root} \cup Range(childPIDs) : p \in Range(pidMap[r])
      BY <3>1 DEF QueueInv
    <3>3. r \in Pid /\ r # q
      BY <2>6, <3>2 DEF TypeOK, Range
    <3>. QED
      BY <2>2, <2>7, <3>2, <3>3 DEF OnceInv
  <2>8. IsInjective(childPIDs')
    BY <2>1, <2>2, <2>6, AppendInjects DEF QueueInv
  <2>9. IsInjective(first)
    BY <2>2 DEF OnceInv
  <2>10. \A p \in Range(first) \cup Range(rest) \cup Range(childPIDs) \cup {q} :
            \E r \in {Root} \cup Range(childPIDs) \cup {q} : p \in Range(pidMap[r])
    BY <2>2 DEF QueueInv
  <2> HIDE DEF q, rest, first
  <2>11. IsInjective(first \o rest)
    BY <2>2, <2>3, <2>7, <2>9, ConcatInjects
  <2>12. Range(pending') \cap Range(childPIDs') = {}
    BY <2>2, <2>3, <2>4, <2>5, <2>7 DEF QueueInv
  <2>. QED
    BY <2>1, <2>4, <2>5, <2>6, <2>8, <2>10, <2>11, <2>12 DEF QueueInv
<1>4. CASE \/ InjectRoot \/ OpenProc \/ ListProc \/ ListFails \/ StackOverflow \/ Collected
           \/ InjectChild \/ Finish \/ UNCHANGED vars
  BY <1>1, <1>4 DEF InjectRoot, OpenProc, ListProc, ListFails, StackOverflow, Collected,
     InjectChild, Finish, vars, command
<1>5. ASSUME NEW p \in Pid, processStat(p) PROVE QueueInv'
  <2>1. pc = "scan" /\ UNCHANGED <<pc, pending, childPIDs>>
    BY <1>5 DEF processStat
  <2>2. pending = <<>> /\ childPIDs = <<>> /\ Range(<<>>) = {}
    BY <2>1 DEF QueueInv, CollectInv, Range
  <2>. QED
    BY <2>1, <2>2 DEF QueueInv
<1>6. ASSUME NEW p \in Pid, Fork(p) \/ Exec(p) \/ Exit(p) PROVE QueueInv'
  BY <1>1, <1>6 DEF Fork, Exec, Exit, command
<1>. QED
  BY <1>2, <1>3, <1>4, <1>5, <1>6 DEF Next, Main, Processes

\* Nobody is injected twice, in any order of the goroutines and whatever the processes do.
THEOREM NobodyInjectedTwice == Spec => []InjectedOnce
<1> DEFINE Inv == IInv /\ OnceInv /\ QueueInv
<1>1. Init => Inv
  BY InitIInv, InitOnce
<1>2. Inv /\ [Next]_vars => OnceInv' /\ QueueInv'
  BY OnceStep, QueueStep DEF IInv
<1>3. Inv => InjectedOnce
  BY RootNoDescendant DEF IInv, DescentInv, Descends, QueueInv, InjectedOnce
<1>. QED
  BY <1>1, <1>2, <1>3, InitOnce, Invariance, PTL DEF Spec

(***************************************************************************)
(* The command comes to an end                                             *)
(***************************************************************************)

\* What the goroutines have recorded.
Known == UNION {Range(pidMap[r]) : r \in Pid \cup {NoPid}}

\* However many pids there are, there are finitely many processes at a time.
FiniteInv == IsFiniteSet(live) /\ IsFiniteSet(procs) /\ IsFiniteSet(Known)

\* What is left to do: the parts of the command to come, and the entries to read, the
\* processes to collect or the ones to inject in this part.
Stage ==
  CASE pc = "start" -> 6 [] pc = "list" -> 5 [] pc = "listing" -> 4 [] pc = "scan" -> 3
    [] pc = "collect" -> 2 [] pc = "inject" -> 1 [] OTHER -> 0

InStage ==
  CASE pc = "scan" -> Cardinality(procs)
    [] pc = "collect" -> Cardinality(Known \ Range(childPIDs))
    [] pc = "inject" -> Len(childPIDs) + 1 - next
    [] OTHER -> 0

Left == <<Stage, InStage>>

\* Pairs of numbers in lexicographic order.
Shorter == LexProductOrdering(OpToRel(<, Nat), Nat, 2)

\* Every step of the command, a goroutine's included, leaves it less to do; no step of a
\* process gives it more.
CommandDescends == [][(<<Left', Left>> \in Shorter)]_command

\* There is no endless descent in this order.
THEOREM ShorterIsWellFounded == IsWellFoundedOn(Shorter, [1..2 -> Nat])
  BY NatLessThanWellFounded, WFLexProductOrdering DEF Shorter

\* The first component decides, and the second one when it is the same.
LEMMA ShorterPair ==
  ASSUME NEW a \in Nat, NEW b \in Nat, NEW c \in Nat, NEW d \in Nat
  PROVE  /\ a < c => <<<<a, b>>, <<c, d>>>> \in Shorter
         /\ a = c /\ b < d => <<<<a, b>>, <<c, d>>>> \in Shorter
<1> DEFINE new == <<a, b>>
           old == <<c, d>>
           Less == OpToRel(<, Nat)
<1>1. /\ new \in [1..2 -> Nat] /\ new[1] = a /\ new[2] = b
      /\ old \in [1..2 -> Nat] /\ old[1] = c /\ old[2] = d
  OBVIOUS
<1>2. (a < c => <<a, c>> \in Less) /\ (b < d => <<b, d>> \in Less)
  BY DEF OpToRel
<1> HIDE DEF new, old, Less
<1>3. (\E j \in 1..2 : (\A i \in 1..(j - 1) : new[i] = old[i]) /\ <<new[j], old[j]>> \in Less)
        => <<new, old>> \in Shorter
  BY <1>1 DEF Shorter, LexProductOrdering, Less
<1>4. ASSUME a < c PROVE <<new, old>> \in Shorter
  <2>1. <<new[1], old[1]>> \in Less /\ 1 \in 1..2 /\ \A i \in 1..(1 - 1) : new[i] = old[i]
    BY <1>1, <1>2, <1>4
  <2>. QED
    BY <1>3, <2>1
<1>5. ASSUME a = c, b < d PROVE <<new, old>> \in Shorter
  <2>1. <<new[2], old[2]>> \in Less /\ 2 \in 1..2 /\ \A i \in 1..(2 - 1) : new[i] = old[i]
    BY <1>1, <1>2, <1>5
  <2>. QED
    BY <1>3, <2>1
<1>. QED
  BY <1>4, <1>5 DEF new, old

\* What is recorded grows by one entry at a time.
LEMMA KnownGrows ==
  ASSUME TypeOK, NEW p \in Pid
  PROVE  UNION {Range(Recorded(p)[r]) : r \in Pid \cup {NoPid}} = Known \cup {p}
<1>1. ParentRead(p) \in Pid \cup {NoPid}
  BY PidAssumption DEF TypeOK, ParentRead
<1>2. \A r \in Pid \cup {NoPid} :
        Range(Recorded(p)[r]) = IF r = ParentRead(p) THEN Range(pidMap[r]) \cup {p} ELSE Range(pidMap[r])
  BY RecordedRange
<1> DEFINE new == UNION {Range(Recorded(p)[r]) : r \in Pid \cup {NoPid}}
<1>3. ASSUME NEW x \in new PROVE x \in Known \cup {p}
  <2>1. PICK r \in Pid \cup {NoPid} : x \in Range(Recorded(p)[r])
    OBVIOUS
  <2>2. x \in Range(pidMap[r]) \cup {p}
    BY <1>2, <2>1
  <2>. QED
    BY <2>2 DEF Known
<1>4. ASSUME NEW x \in Known PROVE x \in new
  BY <1>2 DEF Known
<1>5. p \in new
  BY <1>1, <1>2
<1>. QED
  BY <1>3, <1>4, <1>5

\* Forks come one by one.
LEMMA FiniteStep ==
  ASSUME TypeOK, FiniteInv, [Next]_vars
  PROVE  FiniteInv'
<1>1. CASE UNCHANGED <<live, procs, pidMap>>
  BY <1>1 DEF FiniteInv, Known
<1>2. CASE OpenProc \/ ListProc
  <2>1. procs' \subseteq live /\ UNCHANGED <<live, pidMap>>
    BY <1>2 DEF OpenProc, ListProc, tree
  <2>2. IsFiniteSet(procs')
    BY <2>1, FS_Subset DEF FiniteInv
  <2>. QED
    BY <2>1, <2>2 DEF FiniteInv, Known
<1>3. ASSUME NEW p \in Pid, processStat(p) PROVE FiniteInv'
  <2>1. /\ UNCHANGED live /\ procs' = procs \ {p}
        /\ pidMap' = IF Readable(p) THEN Recorded(p) ELSE pidMap
    BY <1>3 DEF processStat, Finished, tree
  <2>2. Known' = Known \/ Known' = Known \cup {p}
    BY <2>1, KnownGrows DEF Known
  <2>3. IsFiniteSet(procs \ {p}) /\ IsFiniteSet(Known \cup {p})
    BY FS_RemoveElement, FS_AddElement DEF FiniteInv
  <2>. QED
    BY <2>1, <2>2, <2>3 DEF FiniteInv
<1>4. ASSUME NEW p \in Pid, Fork(p) PROVE FiniteInv'
  <2>1. PICK q \in Pid : live' = live \cup {q} /\ UNCHANGED <<procs, pidMap>>
    BY <1>4, NewProcess DEF command
  <2>2. IsFiniteSet(live \cup {q})
    BY FS_AddElement DEF FiniteInv
  <2>. QED
    BY <2>1, <2>2 DEF FiniteInv, Known
<1>5. ASSUME NEW p \in Pid, Exit(p) PROVE FiniteInv'
  <2>1. live' = live \ {p} /\ UNCHANGED <<procs, pidMap>>
    BY <1>5 DEF Exit, command
  <2>2. IsFiniteSet(live \ {p})
    BY FS_RemoveElement DEF FiniteInv
  <2>. QED
    BY <2>1, <2>2 DEF FiniteInv, Known
<1>6. ASSUME NEW p \in Pid, Exec(p) PROVE FiniteInv'
  BY <1>1, <1>6 DEF Exec, command
<1>7. CASE \/ InjectRoot \/ ListFails \/ Collect \/ collectAllChildren \/ StackOverflow
           \/ Collected \/ InjectChild \/ Finish \/ UNCHANGED vars
  BY <1>1, <1>7 DEF InjectRoot, ListFails, Collect, collectAllChildren, StackOverflow, Collected,
     InjectChild, Finish, vars, tree, command
<1>. QED
  BY <1>2, <1>3, <1>4, <1>5, <1>6, <1>7 DEF Next, Main, Processes

\* The measure is a pair of numbers.
LEMMA LeftIsPair ==
  ASSUME TypeOK, FiniteInv
  PROVE  Stage \in Nat /\ InStage \in Nat
<1>1. IsFiniteSet(Known \ Range(childPIDs))
  BY FS_Difference DEF FiniteInv
<1>2. Cardinality(procs) \in Nat /\ Cardinality(Known \ Range(childPIDs)) \in Nat
  BY <1>1, FS_CardinalityType DEF FiniteInv
<1>3. Len(childPIDs) \in Nat /\ next \in 1..Len(childPIDs) + 1
  BY DEF TypeOK
<1>4. Len(childPIDs) + 1 - next \in Nat
  BY <1>3
<1>. QED
  BY <1>2, <1>4 DEF Stage, InStage

\* Every step of the command goes down.
LEMMA LeftStep ==
  ASSUME TypeOK, OnceInv, QueueInv, FiniteInv, [Next]_vars, ~UNCHANGED command,
         Stage \in Nat, InStage \in Nat, Stage' \in Nat, InStage' \in Nat
  PROVE  <<Left', Left>> \in Shorter
<1>1. Stage' < Stage => <<Left', Left>> \in Shorter
  <2>1. \A a, b, c, d \in Nat : a < c => <<<<a, b>>, <<c, d>>>> \in Shorter
    BY ShorterPair
  <2>. QED
    BY <2>1 DEF Left
<1>2. Stage' = Stage /\ InStage' < InStage => <<Left', Left>> \in Shorter
  BY ShorterPair DEF Left
<1>3. CASE \/ InjectRoot \/ OpenProc \/ ListProc \/ ListFails \/ Collect \/ StackOverflow
           \/ Collected \/ Finish
  <2>1. Stage' < Stage
    BY <1>3 DEF InjectRoot, OpenProc, ListProc, ListFails, Collect, StackOverflow, Collected, Finish, Stage
  <2>. QED
    BY <1>1, <2>1
<1>4. ASSUME NEW p \in Pid, processStat(p) PROVE <<Left', Left>> \in Shorter
  <2>1. pc = "scan" /\ pc' = "scan" /\ p \in procs /\ procs' = procs \ {p}
    BY <1>4 DEF processStat, Finished
  <2>2. Cardinality(procs \ {p}) = Cardinality(procs) - 1 /\ Cardinality(procs) \in Nat
    BY <2>1, FS_RemoveElement, FS_CardinalityType DEF FiniteInv
  <2>3. Stage' = Stage /\ InStage = Cardinality(procs) /\ InStage' = Cardinality(procs')
    BY <2>1 DEF Stage, InStage
  <2>. QED
    BY <1>2, <2>1, <2>2, <2>3
<1>5. CASE collectAllChildren
  <2> DEFINE q == Head(pending)
             rest == Known \ Range(childPIDs)
  <2>1. /\ pc = "collect" /\ pc' = "collect" /\ UNCHANGED pidMap
        /\ childPIDs' = Append(childPIDs, q)
    BY <1>5 DEF collectAllChildren
  <2>2. q \in Pid /\ q \in Range(pending) /\ childPIDs \in Seq(Pid)
    BY <1>5, HeadTailRange DEF collectAllChildren, TypeOK
  <2>3. q \notin Range(childPIDs) /\ q \in Known
    <3>1. PICK r \in {Root} \cup Range(childPIDs) : q \in Range(pidMap[r])
      BY <2>2 DEF QueueInv
    <3>2. r \in Pid
      BY PidAssumption DEF TypeOK, Range
    <3>. QED
      BY <2>2, <3>1, <3>2 DEF QueueInv, Known
  <2>4. Known' \ Range(childPIDs') = rest \ {q}
    BY <2>1, <2>2, AppendRange DEF Known
  <2>5. q \in rest /\ IsFiniteSet(rest)
    BY <2>3, FS_Difference DEF FiniteInv
  <2>6. Cardinality(rest \ {q}) = Cardinality(rest) - 1 /\ Cardinality(rest) \in Nat
    BY <2>5, FS_RemoveElement, FS_CardinalityType
  <2>7. /\ Stage' = Stage /\ InStage = Cardinality(rest)
        /\ InStage' = Cardinality(Known' \ Range(childPIDs'))
    BY <2>1 DEF Stage, InStage
  <2>8. InStage' = InStage - 1
    BY <2>4, <2>6, <2>7
  <2>. QED
    BY <1>2, <2>7, <2>8
<1>6. CASE InjectChild
  <2>1. pc = "inject" /\ pc' = "inject" /\ next' = next + 1 /\ childPIDs' = childPIDs
    BY <1>6 DEF InjectChild
  <2>2. Len(childPIDs) \in Nat /\ next \in Nat
    BY DEF TypeOK
  <2>3. /\ Stage' = Stage /\ InStage = Len(childPIDs) + 1 - next
        /\ InStage' = Len(childPIDs) + 1 - (next + 1)
    BY <2>1 DEF Stage, InStage
  <2>. QED
    BY <1>2, <2>2, <2>3
<1>7. Processes \/ UNCHANGED vars => UNCHANGED command
  BY DEF Processes, Fork, Exec, Exit, vars
<1>. QED
  BY <1>3, <1>4, <1>5, <1>6, <1>7 DEF Next, Main

\* Whatever the processes do meanwhile, the command is through after finitely many of its
\* own steps.
THEOREM CommandAdvances == Spec => CommandDescends
<1> DEFINE Inv == IInv /\ OnceInv /\ QueueInv /\ FiniteInv
<1>1. Init => FiniteInv
  <2> SUFFICES ASSUME Init PROVE FiniteInv
    OBVIOUS
  <2>1. Known = {}
    BY DEF Init, Known, Range
  <2>2. IsFiniteSet({}) /\ IsFiniteSet({Root} \cup {Reaper})
    BY FS_EmptySet, FS_Singleton, FS_AddElement
  <2>3. live = {Root} \cup {Reaper} /\ procs = {}
    BY DEF Init
  <2>. QED
    BY <2>1, <2>2, <2>3 DEF FiniteInv
<1>2. Init => Inv
  BY <1>1, InitIInv, InitOnce
<1>3. Inv /\ [Next]_vars => OnceInv' /\ QueueInv' /\ FiniteInv'
  BY OnceStep, QueueStep, FiniteStep DEF IInv
<1> DEFINE Pair == Stage \in Nat /\ InStage \in Nat
<1>4. Inv => Pair
  BY LeftIsPair DEF IInv
<1>5. Inv /\ Pair /\ Pair' /\ [Next]_vars => [(<<Left', Left>> \in Shorter)]_command
  BY LeftStep DEF IInv
<1> HIDE DEF Pair
<1>. QED
  BY <1>2, <1>3, <1>4, <1>5, Invariance, PTL DEF Spec, CommandDescends
=============================================================================
