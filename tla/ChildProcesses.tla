---------------------------- MODULE ChildProcesses ----------------------------
(***************************************************************************)
(* main and getChildProcesses of cmd/watchmaker.go: the command injects a  *)
(* process, takes a picture of the process tree with one goroutine per     *)
(* entry of /proc, and injects every process it finds below the first,     *)
(* while the processes go on to fork, exec and exit.                       *)
(*                                                                         *)
(* Skew.Inject is one step here that works or fails.  A pid is used for    *)
(* one process only, and a process that exits is gone at once.             *)
(***************************************************************************)
EXTENDS Naturals, Sequences, Functions

CONSTANTS
  Pid,      \* the pids of the machine
  Root,     \* the pid given to the command
  Reaper,   \* the process that orphans are handed to
  NoPid,    \* the ppid of Reaper, and of a pid that is not in use
  Spaces,   \* may the name of a process contain a space?
  Digits,   \* pids that such a name may contain where the parent is expected
  Quiet,    \* is the tree at rest from the first injection on?
  MaxMoves  \* bound on the calls of exec and exit

ASSUME PidAssumption ==
  /\ Root \in Pid /\ Reaper \in Pid /\ Root # Reaper /\ NoPid \notin Pid
  /\ Digits \subseteq Pid /\ Spaces \in BOOLEAN /\ Quiet \in BOOLEAN /\ MaxMoves \in Nat

VARIABLES
  live,       \* processes
  forker,     \* who forked each process
  ppid,       \* its parent now
  spaced,     \* processes whose comm contains a space
  digits,     \* the pid that Fscanf takes for the parent of such a process, if any
  faked,      \* processes whose clocks are replaced
  pc,         \* control of main
  procs,      \* entries of /proc whose goroutine is not done
  pidMap,     \* children found for each pid
  pending,    \* children that the calls of collectAllChildren have yet to append
  childPIDs,  \* the processes to inject, in this order
  next,       \* the next one of them
  steady,     \* processes that were there for the whole scan
  misread,    \* processes whose parent was read from the digits in their comm
  excused,    \* processes that did exec, or could not be injected, after it
  moves       \* calls of exec and exit so far

tree    == <<live, forker, ppid, spaced, digits>>
command == <<pc, procs, pidMap, pending, childPIDs, next>>
history == <<steady, misread, excused, moves>>
vars    == <<tree, faked, command, history>>

Init ==
  /\ live = {Root, Reaper}
  /\ forker = [p \in Pid |-> IF p = Root THEN Reaper ELSE NoPid]
  /\ ppid = forker
  /\ spaced = {} /\ digits = [p \in Pid |-> NoPid] /\ faked = {}
  /\ pc = "start" /\ procs = {}
  /\ pidMap = [p \in Pid \cup {NoPid} |-> <<>>]
  /\ pending = <<>> /\ childPIDs = <<>> /\ next = 1
  /\ steady = {} /\ misread = {} /\ excused = {} /\ moves = 0

(***************************************************************************)
(* The command                                                             *)
(***************************************************************************)

\* skew.Inject(pid) for the process that was asked for: an error is fatal.
InjectRoot ==
  /\ pc = "start"
  /\ \/ Root \in live /\ faked' = faked \cup {Root} /\ pc' = "list"
     \/ pc' = "fatal" /\ UNCHANGED faked
  /\ UNCHANGED <<tree, procs, pidMap, pending, childPIDs, next, history>>

\* os.ReadDir sets out to read the directory.
OpenProc ==
  /\ pc = "list"
  /\ procs' = live
  /\ steady' = {p \in live : p = Root \/ p \notin spaced}
  /\ pc' = "listing"
  /\ UNCHANGED <<tree, faked, pidMap, pending, childPIDs, next, misread, excused, moves>>

\* The directory has an entry for every process that was there all the while, and
\* perhaps one for a process that was not; a goroutine is started for each.
ListProc ==
  /\ pc = "listing"
  /\ procs' \in {S \in SUBSET live : procs \cap live \subseteq S}
  /\ pc' = "scan"
  /\ UNCHANGED <<tree, faked, pidMap, pending, childPIDs, next, history>>

\* The directory cannot be read: log.Fatalln.
ListFails ==
  /\ pc = "listing"
  /\ pc' = "fatal"
  /\ UNCHANGED <<tree, faked, procs, pidMap, pending, childPIDs, next, history>>

\* Fscanf reads the name with %s, which stops at a space; what comes after the
\* next word is the parent then, if it is a number, and else Fscanf fails.
Readable(p) == p \in live /\ (p \in spaced => digits[p] # NoPid)
ParentRead(p) == IF p \in spaced THEN digits[p] ELSE ppid[p]

\* Mutant of Recorded: the key and the value are swapped.
RecordedUpwards(p) == [pidMap EXCEPT ![p] = Append(@, ParentRead(p))]

Recorded(p) == [pidMap EXCEPT ![ParentRead(p)] = Append(@, p)]

\* Mutant of Finished: wg.Done is called only after an entry was recorded.
FinishedIfRead(p) == IF Readable(p) THEN procs \ {p} ELSE procs

\* defer wg.Done(): also after an early return.
Finished(p) == procs \ {p}

processStat(p) ==
  /\ pc = "scan" /\ p \in procs
  /\ procs' = Finished(p)
  /\ pidMap' = IF Readable(p) THEN Recorded(p) ELSE pidMap
  /\ misread' = IF Readable(p) /\ p \in spaced THEN misread \cup {p} ELSE misread
  /\ UNCHANGED <<tree, faked, pc, pending, childPIDs, next, steady, excused, moves>>

\* wg.Wait() returns.
Collect ==
  /\ pc = "scan" /\ procs = {}
  /\ pending' = pidMap[Root]
  /\ pc' = "collect"
  /\ UNCHANGED <<tree, faked, procs, pidMap, childPIDs, next, history>>

\* Mutant of BeforeSiblings: one generation.
NothingBefore(child) == <<>>

\* The call for a child comes before the next turn of the loop.
BeforeSiblings(child) == pidMap[child]

\* One turn of the loop, in whichever of the recursive calls it is: the results of
\* the calls are appended one after the other.
collectAllChildren ==
  /\ pc = "collect" /\ pending # <<>> /\ Head(pending) # Root
  /\ childPIDs' = Append(childPIDs, Head(pending))
  /\ pending' = BeforeSiblings(Head(pending)) \o Tail(pending)
  /\ UNCHANGED <<tree, faked, pc, procs, pidMap, next, history>>

\* The tree has a cycle: the call for Root goes on to a call for Root, which does
\* the same, and the runtime ends the program.
StackOverflow ==
  /\ pc = "collect" /\ pending # <<>> /\ Head(pending) = Root
  /\ pc' = "fatal"
  /\ UNCHANGED <<tree, faked, procs, pidMap, pending, childPIDs, next, history>>

\* The first call returns.
Collected ==
  /\ pc = "collect" /\ pending = <<>>
  /\ pc' = "inject"
  /\ UNCHANGED <<tree, faked, procs, pidMap, pending, childPIDs, next, history>>

\* Fork and Inject of one child: an error is logged and the loop goes on.
InjectChild ==
  /\ pc = "inject" /\ next <= Len(childPIDs)
  /\ LET p == childPIDs[next]
     IN  \/ p \in live /\ faked' = faked \cup {p} /\ UNCHANGED excused
         \/ excused' = excused \cup {p} /\ UNCHANGED faked
  /\ next' = next + 1
  /\ UNCHANGED <<tree, pc, procs, pidMap, pending, childPIDs, steady, misread, moves>>

Finish ==
  /\ pc = "inject" /\ next > Len(childPIDs)
  /\ pc' = "done"
  /\ UNCHANGED <<tree, faked, procs, pidMap, pending, childPIDs, next, history>>

(***************************************************************************)
(* The processes                                                           *)
(***************************************************************************)

\* What happens once the command is over is of no interest.
Moving == pc \notin {"done", "fatal"} /\ (Quiet => pc = "start")

Scanning == pc \in {"listing", "scan"}

Moves ==
  /\ Moving /\ moves < MaxMoves
  /\ moves' = moves + 1

Unused == {q \in Pid \ {Reaper} : forker[q] = NoPid}

\* A new process has the name and the memory of the one that forked it.  Which
\* of the unused pids it gets makes no difference.
Fork(p) ==
  LET q == CHOOSE u \in Unused : TRUE IN
  /\ Moving /\ p \in live /\ Unused # {}
  /\ live' = live \cup {q}
  /\ forker' = [forker EXCEPT ![q] = p]
  /\ ppid' = [ppid EXCEPT ![q] = p]
  /\ spaced' = IF p \in spaced THEN spaced \cup {q} ELSE spaced
  /\ digits' = [digits EXCEPT ![q] = digits[p]]
  /\ faked' = IF p \in faked THEN faked \cup {q} ELSE faked
  /\ UNCHANGED <<command, history>>

\* execve: a new name, and the vDSO as the kernel made it.
Exec(p) ==
  /\ Moves /\ p \in live \ {Reaper}
  /\ \/ /\ spaced' = spaced \ {p} /\ digits' = [digits EXCEPT ![p] = NoPid]
        /\ UNCHANGED steady
     \/ /\ Spaces /\ spaced' = spaced \cup {p}
        /\ \E d \in Digits \cup {NoPid} : digits' = [digits EXCEPT ![p] = d]
        /\ steady' = IF Scanning THEN steady \ ({p} \ {Root}) ELSE steady
  /\ faked' = faked \ {p}
  /\ excused' = IF pc = "inject" THEN excused \cup {p} ELSE excused
  /\ UNCHANGED <<live, forker, ppid, command, misread>>

Exit(p) ==
  /\ Moves /\ p \in live \ {Reaper}
  /\ live' = live \ {p}
  /\ ppid' = [q \in Pid |-> IF q \in live /\ ppid[q] = p THEN Reaper ELSE ppid[q]]
  /\ spaced' = spaced \ {p} /\ digits' = [digits EXCEPT ![p] = NoPid]
  /\ faked' = faked \ {p}
  /\ steady' = IF Scanning THEN steady \ {p} ELSE steady
  /\ UNCHANGED <<forker, command, misread, excused>>

(***************************************************************************)
(* Specification                                                           *)
(***************************************************************************)

Main ==
  \/ InjectRoot \/ OpenProc \/ ListProc \/ ListFails
  \/ Collect \/ collectAllChildren \/ StackOverflow \/ Collected
  \/ InjectChild \/ Finish
  \/ \E p \in Pid : processStat(p)

Processes == \E p \in Pid : Fork(p) \/ Exec(p) \/ Exit(p)

Next == Main \/ Processes

\* The command and its goroutines go on.
Spec == Init /\ [][Next]_vars /\ WF_vars(Main)

(***************************************************************************)
(* Properties                                                              *)
(***************************************************************************)

\* Every variable keeps its type; the pids that are read and injected are pids
\* of processes.
TypeOK ==
  /\ live \subseteq Pid /\ spaced \subseteq live /\ faked \subseteq Pid
  /\ digits \in [Pid -> Digits \cup {NoPid}] /\ misread \subseteq Pid
  /\ forker \in [Pid -> Pid \cup {NoPid}] /\ ppid \in [Pid -> Pid \cup {NoPid}]
  /\ pc \in {"start", "list", "listing", "scan", "collect", "inject", "done", "fatal"}
  /\ procs \subseteq Pid /\ steady \subseteq Pid /\ excused \subseteq Pid
  /\ pidMap \in [Pid \cup {NoPid} -> Seq(Pid)]
  /\ pending \in Seq(Pid) /\ childPIDs \in Seq(Pid) /\ next \in 1..Len(childPIDs) + 1
  /\ moves \in 0..MaxMoves

\* Is p one of these, or was it forked by Root, by one of these, or by a process
\* that was?  It is then in every set that holds what Root and its members fork.
ForkedBelow(these, p) ==
  \A S \in SUBSET Pid :
    /\ these \subseteq S
    /\ \A q \in Pid \ {Reaper} : forker[q] \in S \cup {Root} => q \in S
    => p \in S

Descends(p) == ForkedBelow({}, p)

\* p and all the processes between it and Root were there for the whole scan.
Steady(p) ==
  \A S \in SUBSET Pid :
    (\A q \in steady : q = Root \/ forker[q] \in S => q \in S) => p \in S

\* When the command ends, it has replaced the clocks of every descendant that
\* the scan could see, in any order of the goroutines and whatever other
\* processes did: one that was there with all its ancestors for the whole scan,
\* has not called exec since, and could be injected.
SteadyTreeFaked ==
  pc = "done" => \A p \in live : Steady(p) /\ p \notin excused /\ p # Root => p \in faked

\* No process outside the tree is touched, although the entries of /proc are
\* read at different times and orphans change their parent in between.  The one
\* way in is a name: a process whose name has digits behind a space may be filed
\* under the process with that pid, and what it forked comes with it.
OnlyDescendants ==
  \A p \in faked : p = Root \/ ForkedBelow(misread, p)

\* The command ends, whichever entries cannot be read and whatever they make of
\* the tree.
CommandEnds == pc = "start" ~> pc \in {"done", "fatal"}

\* getChildProcesses finds every process below Root.
AllGenerations ==
  pc = "inject" => \A p \in live : Descends(p) => p \in Range(childPIDs)
=============================================================================
