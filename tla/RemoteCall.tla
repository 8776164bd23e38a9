------------------------------ MODULE RemoteCall ------------------------------
(***************************************************************************)
(* MmapSlice of ptrace_linux.go and all it calls: how watchmaker borrows   *)
(* the stopped main thread of the target to run mmap there, puts its       *)
(* registers and its code back, and copies an image into the new mapping.  *)
(*                                                                         *)
(* Every ptrace request that changes the target is a step.  Between any    *)
(* two of them the target may be killed; a single step may be reported by  *)
(* waitPid before the instruction ran, because a signal was pending.       *)
(***************************************************************************)
EXTENDS Integers

CONSTANTS
  Arch,          \* GOARCH: where Syscall puts the number and finds the result
  CodeWritable,  \* may ptrace poke at the instruction pointer? (not where it is
                 \* in a read-only shared mapping)
  Alone,         \* is the main thread the only one?
  PageSize,      \* os.Getpagesize()
  Sizes,         \* lengths of the images
  Addrs          \* where the kernel may place a mapping

ASSUME ArchAssumption == Arch \in {"amd64", "arm64"}
ASSUME FlagAssumption == CodeWritable \in BOOLEAN /\ Alone \in BOOLEAN
ASSUME SizeAssumption == PageSize \in Nat \ {0} /\ Sizes \subseteq Nat \ {0}

\* unix.SYS_MMAP on amd64.
SYS_MMAP == 9

ASSUME AddrAssumption == Addrs \subseteq Nat \ {0, SYS_MMAP}

\* A negated errno, what a failed system call leaves in the result register.
Errno == -1

VARIABLES
  alive,       \* the target has not been killed
  regs,        \* registers of the main thread
  code,        \* the instructions at its ip and at the next one
  maps,        \* length of each anonymous mapping made so far
  pc,          \* control of the injector
  attempt,     \* strategy of Mmap under way
  size,        \* length of the image MmapSlice was called with
  backupRegs,  \* saved by Protect
  backupCode,
  result,      \* what Syscall or Mmap returns
  images       \* the entries that MmapSlice has returned

target == <<alive, regs, code, maps>>
backup == <<backupRegs, backupCode>>
call   == <<attempt, size>>
vars   == <<target, pc, call, backup, result, images>>

Ip == 0..1
UserRegs == [ip |-> 0, kind |-> "user", ret |-> 0]
UserCode == [i \in Ip |-> "user"]

\* The main thread looks as it did when it was stopped.
Untouched == regs = UserRegs /\ code = UserCode

Control == {"idle", "protect", "setregs", "poke", "step", "wait", "getregs",
            "restoreregs", "restorecode", "mapped", "stuck"}

Init ==
  /\ alive = TRUE /\ regs = UserRegs /\ code = UserCode
  /\ maps = [a \in {} |-> 0]
  /\ pc = "idle" /\ attempt = 1 /\ size = 0
  /\ backupRegs = UserRegs /\ backupCode = "user"
  /\ result = 0 /\ images = {}

(***************************************************************************)
(* Lengths and results                                                     *)
(***************************************************************************)

\* Mutant of AlignUp: rounds down, as & ^(pageSize - 1) alone does.
AlignDown(n) == (n \div PageSize) * PageSize

AlignUp(n) == ((n + PageSize - 1) \div PageSize) * PageSize

\* Strategy 1 asks for whole pages, strategy 2 for two pages at least.
MmapLength(n) ==
  IF attempt = 2 /\ AlignUp(n) < 2 * PageSize THEN 2 * PageSize ELSE AlignUp(n)

\* Mutant of MmapFailed: takes any result but 0 for an error, as a C caller does.
MmapFailedUnlessZero(r) == r # 0

\* Mutant of MmapFailed: without the check for the NULL address.
MmapFailedWithErrno(r) == r = Errno

\* tryMmap: the NULL address, or an errno in the result register.
MmapFailed(r) == r = 0 \/ r = Errno

\* The result register holds the system call number on amd64 (rax) and the
\* first argument on arm64 (x0) until the call is made.
ResultBeforeCall == IF Arch = "amd64" THEN SYS_MMAP ELSE 0

(***************************************************************************)
(* Syscall, under Mmap                                                     *)
(***************************************************************************)

\* Mutant of AfterFailure: retries for ever.
RetryAlways == "protect"

\* Mmap has two strategies and then gives up.
AfterFailure == IF attempt = 1 THEN "protect" ELSE "idle"

\* One strategy has failed.
Fail ==
  /\ pc' = AfterFailure
  /\ attempt' = 2
  /\ UNCHANGED size

MmapSlice(n) ==
  /\ pc = "idle"
  /\ pc' = "protect" /\ attempt' = 1 /\ size' = n
  /\ UNCHANGED <<target, backup, result, images>>

\* GETREGS and PEEKDATA of a stopped thread: nothing changes in between.
Protect ==
  /\ pc = "protect" /\ alive
  /\ backupRegs' = regs /\ backupCode' = code[regs.ip]
  /\ pc' = "setregs"
  /\ UNCHANGED <<target, call, result, images>>

SetRegs ==
  /\ pc = "setregs" /\ alive
  /\ regs' = [regs EXCEPT !.kind = "call", !.ret = ResultBeforeCall]
  /\ pc' = "poke"
  /\ UNCHANGED <<alive, code, maps, call, backup, result, images>>

PokeSyscall ==
  /\ pc = "poke" /\ alive /\ CodeWritable
  /\ code' = [code EXCEPT ![backupRegs.ip] = "syscall"]
  /\ pc' = "step"
  /\ UNCHANGED <<alive, regs, maps, call, backup, result, images>>

\* Any request but the wait fails once the target is dead; the early returns
\* skip Restore.
RequestFails ==
  /\ \/ pc \in {"protect", "setregs", "poke", "step", "getregs", "restoreregs",
                "restorecode"} /\ ~alive
     \/ pc = "poke" /\ ~CodeWritable
  /\ Fail
  /\ UNCHANGED <<target, backup, result, images>>

\* PTRACE_SINGLESTEP; the target runs until it reports a stop to wait4.
Step ==
  /\ pc = "step" /\ alive
  /\ pc' = "wait"
  /\ UNCHANGED <<target, call, backup, result, images>>

\* The instruction ran: mmap succeeds or leaves an errno.
WaitStepped ==
  /\ pc = "wait" /\ alive /\ code[regs.ip] = "syscall"
  /\ \/ \E a \in Addrs \ DOMAIN maps :
          /\ maps' = [b \in DOMAIN maps \cup {a} |->
                        IF b = a THEN MmapLength(size) ELSE maps[b]]
          /\ regs' = [ip |-> regs.ip + 1, kind |-> "ret", ret |-> a]
     \/ /\ regs' = [ip |-> regs.ip + 1, kind |-> "ret", ret |-> Errno]
        /\ UNCHANGED maps
  /\ pc' = "getregs"
  /\ UNCHANGED <<alive, code, call, backup, result, images>>

\* A signal stops the thread before the instruction: waitPid drops the status.
WaitSignalled ==
  /\ pc = "wait" /\ alive
  /\ pc' = "getregs"
  /\ UNCHANGED <<target, call, backup, result, images>>

WaitKilled ==
  /\ pc = "wait" /\ ~alive
  /\ pc' = IF Alone THEN "getregs" ELSE "stuck"
  /\ UNCHANGED <<target, call, backup, result, images>>

GetResult ==
  /\ pc = "getregs" /\ alive
  /\ result' = regs.ret
  /\ pc' = "restoreregs"
  /\ UNCHANGED <<target, call, backup, images>>

\* Mutant of SavedRegs: puts the ip back and leaves the other registers.
SavedIpOnly == [regs EXCEPT !.ip = backupRegs.ip]

SavedRegs == backupRegs

RestoreRegs ==
  /\ pc = "restoreregs" /\ alive
  /\ regs' = SavedRegs
  /\ pc' = "restorecode"
  /\ UNCHANGED <<alive, code, maps, call, backup, result, images>>

RestoreCode ==
  /\ pc = "restorecode" /\ alive
  /\ code' = [code EXCEPT ![backupRegs.ip] = backupCode]
  /\ IF MmapFailed(result)
       THEN Fail
       ELSE pc' = "mapped" /\ UNCHANGED call
  /\ UNCHANGED <<alive, regs, maps, backup, result, images>>

(***************************************************************************)
(* WriteSlice and the end of MmapSlice                                     *)
(***************************************************************************)

\* process_vm_writev fails only when not even the first page can be written;
\* the number of bytes it wrote is not looked at.
WriteImage ==
  /\ pc = "mapped" /\ alive /\ result \in DOMAIN maps
  /\ images' = images \cup {[start |-> result, end |-> result + size]}
  /\ pc' = "idle"
  /\ UNCHANGED <<target, call, backup, result>>

WriteImageFails ==
  /\ pc = "mapped" /\ (~alive \/ result \notin DOMAIN maps)
  /\ pc' = "idle"
  /\ UNCHANGED <<target, call, backup, result, images>>

\* SIGKILL is the one thing that still moves a target whose threads are stopped.
Kill ==
  /\ alive
  /\ alive' = FALSE
  /\ UNCHANGED <<regs, code, maps, pc, call, backup, result, images>>

(***************************************************************************)
(* Specification                                                           *)
(***************************************************************************)

Injector ==
  \/ Protect \/ SetRegs \/ PokeSyscall \/ RequestFails \/ Step
  \/ GetResult \/ RestoreRegs \/ RestoreCode \/ WriteImage \/ WriteImageFails

Wait == WaitStepped \/ WaitSignalled \/ WaitKilled

Next == Injector \/ Wait \/ Kill \/ \E n \in Sizes : MmapSlice(n)

Spec == Init /\ [][Next]_vars

\* The injector goes on, and a single-stepped thread stops or dies.
FairSpec == Spec /\ WF_vars(Injector) /\ WF_vars(Wait)

(***************************************************************************)
(* Properties                                                              *)
(***************************************************************************)

RegsType == [ip : Ip, kind : {"user", "call", "ret"}, ret : Int]

\* Every variable keeps its type and no mapping is as short as no page at all.
TypeOK ==
  /\ alive \in BOOLEAN
  /\ regs \in RegsType /\ backupRegs \in RegsType
  /\ code \in [Ip -> {"user", "syscall"}] /\ backupCode \in {"user", "syscall"}
  /\ DOMAIN maps \subseteq Addrs /\ \A a \in DOMAIN maps : maps[a] \in Nat \ {0}
  /\ pc \in Control /\ attempt \in 1..2 /\ size \in Nat
  /\ result \in Int
  /\ images \subseteq [start : Addrs, end : Nat]

\* When MmapSlice is over and the target lives, its main thread has the
\* registers and the code it was stopped with, whatever signals arrived,
\* whichever strategy worked, and also when MmapSlice returns an error.
MmapSliceRestores == pc = "idle" /\ alive => Untouched

\* Every entry that MmapSlice has returned lies in a mapping of its own, even
\* though neither WriteSlice nor waitPid looks at what really happened.
ImageFits ==
  /\ \A e \in images : e.start \in DOMAIN maps /\ e.end - e.start <= maps[e.start]
  /\ \A d, e \in images : d.start = e.start => d = e

\* Mmap hands out only addresses that mmap returned in the target, so that the
\* image is written where the target has room for it.
MmapReturnsMapping == pc = "mapped" => result \in DOMAIN maps

\* A mapping made in a target that lives belongs to the call under way or to an
\* image: the second strategy is not tried after a first one that worked.
NoMappingLeaks ==
  pc \in {"idle", "protect"} /\ alive => DOMAIN maps = {e.start : e \in images}

\* MmapSlice returns, also when the target is killed or a signal stops the step.
\* The one way to hang is waitPid after the single step: the target was killed
\* before the thread reported a stop, has other threads, and its leader is never
\* reported.  A kill at any other moment only makes the requests fail.
CallReturns ==
  pc # "idle" ~> pc = "idle" \/ (pc = "stuck" /\ ~alive /\ ~Alone)
=============================================================================
