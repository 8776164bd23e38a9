----------------------------- MODULE ThreadTrace -----------------------------
(***************************************************************************)
(* Trace and Detach of ptrace_linux.go: how watchmaker freezes a process   *)
(* whose threads keep running, spawning and exiting while it attaches.     *)
(*                                                                         *)
(* One action per system call of the tracer, so that every step of the     *)
(* target can fall between any two of them.  The kernel side (what         *)
(* /proc/<pid>/task lists, what PTRACE_SEIZE, PTRACE_INTERRUPT, wait4 and  *)
(* PTRACE_DETACH do to a thread) is external: it is modelled from the way  *)
(* the calls are used and from the errors the code checks.                 *)
(***************************************************************************)
EXTENDS Naturals, FiniteSets

CONSTANTS
  Tid,           \* thread ids of the target; a tid is used for one thread
  Leader,        \* the thread whose tid is the pid
  LeaderMayExit  \* may the leader leave while other threads go on?

ASSUME LeaderAssumption == Leader \in Tid
ASSUME LeaderMayExitAssumption == LeaderMayExit \in BOOLEAN

VARIABLES
  thread,    \* kernel state of each thread
  seized,    \* threads this tracer has PTRACE_SEIZEd
  asked,     \* seized threads with a PTRACE_INTERRUPT not yet obeyed
  pc,        \* control of the goroutine that runs Trace and Detach
  listing,   \* entries of the current ReadDir not yet visited
  tid,       \* the thread being attached
  subset,    \* did this round meet only known threads so far?
  tids,      \* known threads met in this round
  tidMap,    \* threads attached so far; at the end, the program's tids
  attached,  \* attachedTids, what the deferred cleanup detaches
  release    \* threads the running cleanup or Detach still has to visit

kernel == <<thread, seized, asked>>
round  == <<listing, tid, subset, tids>>
vars   == <<kernel, pc, round, tidMap, attached, release>>

ThreadState == {"none", "run", "stop", "zombie", "gone"}
Control == {"idle", "readdir", "visit", "interrupt", "wait", "maps", "held",
            "release"}

Live(t) == thread[t] \in {"run", "stop"}

\* The directory /proc/<pid>/task, read in one go: zombies are listed until they are reaped.
Listed == {t \in Tid : thread[t] \in {"run", "stop", "zombie"}}

\* What an exiting thread becomes: its tracer, and for the leader the parent,
\* still has to collect it.
DeadState(t) == IF t \in seized \/ t = Leader THEN "zombie" ELSE "gone"

\* A leader that exits is not reported while the group has other members.
Reapable(t) ==
  /\ thread[t] = "zombie"
  /\ t = Leader => \A u \in Tid \ {Leader} : thread[u] \in {"none", "gone"}

Init ==
  /\ thread = [t \in Tid |-> IF t = Leader THEN "run" ELSE "none"]
  /\ seized = {} /\ asked = {}
  /\ pc = "idle"
  /\ listing = {} /\ tid = Leader /\ subset = TRUE /\ tids = {}
  /\ tidMap = {} /\ attached = {} /\ release = {}

(***************************************************************************)
(* Trace                                                                   *)
(***************************************************************************)

\* Mutant of ReleaseOnError: forgets the threads attached in earlier rounds.
ReleaseThisRoundOnly == tids

\* The deferred cleanup goes over every thread attached in any round.
ReleaseOnError == attached

\* return nil, err: the deferred function runs with traceSuccess unset.
Abort == pc' = "release" /\ release' = ReleaseOnError

Begin ==
  /\ pc = "idle"
  /\ pc' = "readdir"
  /\ tidMap' = {} /\ attached' = {} /\ subset' = TRUE /\ tids' = {}
  /\ UNCHANGED <<kernel, listing, tid, release>>

\* Mutant of FreshRound: subset is declared outside the loop.
StaleRound == UNCHANGED subset /\ tids' = {}

\* subset := true and tids := make(...), at the head of every round.
FreshRound == subset' = TRUE /\ tids' = {}

ReadDir ==
  /\ pc = "readdir" /\ Listed # {}
  /\ listing' = Listed /\ FreshRound
  /\ pc' = "visit"
  /\ UNCHANGED <<kernel, tid, tidMap, attached, release>>

ReadDirFails ==
  /\ pc = "readdir" /\ Listed = {}
  /\ Abort
  /\ UNCHANGED <<kernel, round, tidMap, attached>>

VisitKnown(t) ==
  /\ pc = "visit" /\ t \in listing \cap tidMap
  /\ listing' = listing \ {t}
  /\ tids' = tids \cup {t}
  /\ UNCHANGED <<kernel, pc, tid, subset, tidMap, attached, release>>

Seize(t) ==
  /\ pc = "visit" /\ t \in listing \ tidMap
  /\ thread[t] = "run" /\ t \notin seized
  /\ seized' = seized \cup {t}
  /\ listing' = listing \ {t} /\ tid' = t /\ subset' = FALSE
  /\ pc' = "interrupt"
  /\ UNCHANGED <<thread, asked, tids, tidMap, attached, release>>

\* The thread is gone or a zombie, another tracer has it, or ptrace is denied.
SeizeFails(t) ==
  /\ pc = "visit" /\ t \in listing \ tidMap
  /\ listing' = listing \ {t} /\ tid' = t /\ subset' = FALSE
  /\ Abort
  /\ UNCHANGED <<kernel, tids, tidMap, attached>>

Interrupt ==
  /\ pc = "interrupt"
  /\ asked' = IF thread[tid] = "run" THEN asked \cup {tid} ELSE asked
  /\ attached' = attached \cup {tid}
  /\ pc' = "wait"
  /\ UNCHANGED <<thread, seized, round, tidMap, release>>

\* attachedTids grows only after the interrupt: a failure leaves tid seized.
InterruptFails ==
  /\ pc = "interrupt" /\ ~Live(tid)
  /\ Abort
  /\ UNCHANGED <<kernel, round, tidMap, attached>>

\* Mutant of Known: tidMap[tid] = true is missing.
KnownThisRound ==
  /\ tids' = tids \cup {tid}
  /\ UNCHANGED tidMap

\* Once waitPid has returned, tid counts as attached in every later round.
Known ==
  /\ tids' = tids \cup {tid}
  /\ tidMap' = tidMap \cup {tid}

\* waitPid returns for a stop and for a death alike: the status is not read.
WaitStop ==
  /\ pc = "wait" /\ thread[tid] = "stop"
  /\ Known
  /\ pc' = "visit"
  /\ UNCHANGED <<kernel, listing, tid, subset, attached, release>>

WaitDeath ==
  /\ pc = "wait" /\ Reapable(tid)
  /\ thread' = [thread EXCEPT ![tid] = IF tid = Leader THEN "zombie" ELSE "gone"]
  /\ seized' = seized \ {tid}
  /\ asked' = asked \ {tid}
  /\ Known
  /\ pc' = "visit"
  /\ UNCHANGED <<listing, tid, subset, attached, release>>

\* Mutant of RoundIsFinal: one pass over the directory is enough.
EveryRoundIsFinal == TRUE

\* The loop ends with a round that met no thread it did not know.
RoundIsFinal == subset

\* tidMap = tids drops the threads that are not listed any more.
LastRound ==
  /\ pc = "visit" /\ listing = {} /\ RoundIsFinal
  /\ tidMap' = tids
  /\ pc' = "maps"
  /\ UNCHANGED <<kernel, round, attached, release>>

NextRound ==
  /\ pc = "visit" /\ listing = {} /\ ~RoundIsFinal
  /\ pc' = "readdir"
  /\ UNCHANGED <<kernel, round, tidMap, attached, release>>

\* ReadMaps and return program, nil: the caller now owns a stopped process.
ReadMaps ==
  /\ pc = "maps"
  /\ pc' = "held"
  /\ UNCHANGED <<kernel, round, tidMap, attached, release>>

ReadMapsFails ==
  /\ pc = "maps"
  /\ Abort
  /\ UNCHANGED <<kernel, round, tidMap, attached>>

(***************************************************************************)
(* Detach, and the deferred cleanup of a failed Trace                      *)
(***************************************************************************)

Detach ==
  /\ pc = "held"
  /\ pc' = "release" /\ release' = tidMap
  /\ UNCHANGED <<kernel, round, tidMap, attached>>

\* PTRACE_DETACH lets a stopped thread run; "no such process" is swallowed.
Release(t) ==
  /\ pc = "release" /\ t \in release
  /\ release' = release \ {t}
  /\ IF thread[t] = "stop"
       THEN /\ thread' = [thread EXCEPT ![t] = "run"]
            /\ seized' = seized \ {t}
       ELSE UNCHANGED <<thread, seized>>
  /\ UNCHANGED <<asked, pc, round, tidMap, attached>>

Released ==
  /\ pc = "release" /\ release = {}
  /\ pc' = "idle"
  /\ UNCHANGED <<kernel, round, tidMap, attached, release>>

(***************************************************************************)
(* The target and the kernel                                               *)
(***************************************************************************)

tracer == <<pc, round, tidMap, attached, release>>

\* PTRACE_SEIZE without PTRACE_O_TRACECLONE: a new thread is not traced.
Spawn(t, u) ==
  /\ thread[t] = "run" /\ thread[u] = "none"
  /\ thread' = [thread EXCEPT ![u] = "run"]
  /\ UNCHANGED <<seized, asked, tracer>>

Exit(t) ==
  /\ thread[t] = "run"
  /\ t = Leader => LeaderMayExit
  /\ thread' = [thread EXCEPT ![t] = DeadState(t)]
  /\ asked' = asked \ {t}
  /\ UNCHANGED <<seized, tracer>>

\* SIGKILL or exit_group: it also takes the threads that are stopped.
KillGroup ==
  /\ \E t \in Tid : Live(t)
  /\ thread' = [t \in Tid |-> IF Live(t) THEN DeadState(t) ELSE thread[t]]
  /\ asked' = {}
  /\ UNCHANGED <<seized, tracer>>

Stop(t) ==
  /\ t \in asked /\ thread[t] = "run"
  /\ thread' = [thread EXCEPT ![t] = "stop"]
  /\ asked' = asked \ {t}
  /\ UNCHANGED <<seized, tracer>>

\* The parent of the process collects the leader once nobody traces it.
ReapLeader ==
  /\ Reapable(Leader) /\ Leader \notin seized
  /\ thread' = [thread EXCEPT ![Leader] = "gone"]
  /\ UNCHANGED <<seized, asked, tracer>>

(***************************************************************************)
(* Specification                                                           *)
(***************************************************************************)

Trace ==
  \/ Begin \/ ReadDir \/ ReadDirFails
  \/ \E t \in Tid : VisitKnown(t) \/ Seize(t) \/ SeizeFails(t)
  \/ Interrupt \/ InterruptFails \/ WaitStop \/ WaitDeath
  \/ LastRound \/ NextRound \/ ReadMaps \/ ReadMapsFails

Cleanup == Released \/ \E t \in Tid : Release(t)

Target ==
  \/ \E t, u \in Tid : Spawn(t, u)
  \/ \E t \in Tid : Exit(t) \/ Stop(t)
  \/ KillGroup \/ ReapLeader

Next == Trace \/ Detach \/ Cleanup \/ Target

Spec == Init /\ [][Next]_vars

\* A goroutine that is not blocked goes on, and a thread of the target obeys
\* an interrupt; nothing makes the target spawn, exit or be killed.
FairSpec ==
  /\ Spec
  /\ WF_vars((pc # "idle" /\ Trace) \/ Detach \/ Cleanup)
  /\ \A t \in Tid : WF_vars(Stop(t))

(***************************************************************************)
(* Properties                                                              *)
(***************************************************************************)

\* Every variable keeps its type, a thread is asked to stop only while it is
\* traced, and a thread met in a round is one whose attachment was recorded.
TypeOK ==
  /\ thread \in [Tid -> ThreadState]
  /\ seized \subseteq Tid /\ asked \subseteq seized
  /\ pc \in Control
  /\ listing \subseteq Tid /\ tid \in Tid /\ subset \in BOOLEAN
  /\ tidMap \subseteq Tid /\ tids \subseteq tidMap
  /\ attached \subseteq Tid /\ release \subseteq Tid

\* When Trace has returned a program, no thread of the target runs, whatever
\* was spawned while the threads were being attached one by one: the code
\* that follows rewrites text and data under that assumption.
StopTheWorld == pc = "held" => \A t \in Tid : thread[t] # "run"

\* Once Detach or the deferred cleanup of a failed Trace is over, no thread
\* of the target is left stopped and none that lives is still traced.
NoThreadLeftBehind ==
  pc = "idle" => \A t \in Tid : thread[t] # "stop" /\ ~(t \in seized /\ Live(t))

\* A session of Trace and Detach ends, unless waitPid waits for a leader that
\* has exited: its death is not reported while other threads remain.
HangsOnlyOnDeadLeader ==
  pc # "idle" ~> \/ pc = "idle"
                 \/ pc = "wait" /\ tid = Leader /\ thread[Leader] = "zombie"
=============================================================================
