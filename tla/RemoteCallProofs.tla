--------------------------- MODULE RemoteCallProofs ---------------------------
(***************************************************************************)
(* The safety properties of RemoteCall hold for every page size, every     *)
(* image length and every choice of addresses by the kernel:               *)
(* MmapSliceRestores wherever the code of the target can be written        *)
(* through ptrace, and MmapReturnsMapping on arm64.  A call takes a        *)
(* bounded number of steps.                                                *)
(***************************************************************************)
EXTENDS RemoteCall, TLAPS

\* Between Protect and the end of Restore.
Borrowed == pc \in {"setregs", "poke", "step", "wait", "getregs", "restoreregs",
                    "restorecode"}

Patched == [i \in Ip |-> IF i = 0 THEN "syscall" ELSE "user"]

\* While the target lives, what is in the main thread is determined by how far
\* the injector is, and the backup is what the thread was stopped with.
BorrowInv ==
  alive /\ CodeWritable =>
    /\ pc \in {"idle", "protect", "mapped", "setregs"} => Untouched
    /\ Borrowed => backupRegs = UserRegs /\ backupCode = "user"
    /\ pc = "poke" => code = UserCode
    /\ pc \in {"step", "wait", "getregs", "restoreregs", "restorecode"} =>
         code = Patched
    /\ pc \in {"poke", "step", "wait"} => regs.ip = 0
    /\ pc = "restorecode" => regs = UserRegs

\* Where the code cannot be written, no call ever gets as far as the step.
NeverSteps ==
  ~CodeWritable => pc \in {"idle", "protect", "setregs", "poke"}

\* An address is either no mapping, or one made for this image alone.
Fresh(r) ==
  r \in DOMAIN maps => size <= maps[r] /\ \A e \in images : e.start # r

ResultInv ==
  /\ pc # "idle" => size # 0
  /\ pc \in {"poke", "step", "wait"} => regs.ret \notin DOMAIN maps
  /\ pc = "getregs" => Fresh(regs.ret)
  /\ pc \in {"restoreregs", "restorecode", "mapped"} => Fresh(result)

IInv == TypeOK /\ BorrowInv /\ NeverSteps /\ ResultInv /\ ImageFits

\* Rounding up to pages loses nothing of the image.
LEMMA AlignUpEnough ==
  ASSUME NEW n \in Nat \ {0}
  PROVE  AlignUp(n) \in Nat \ {0} /\ n <= AlignUp(n)
  BY SizeAssumption DEF AlignUp

\* Both strategies ask for at least the length of the image.
LEMMA MmapLengthEnough ==
  ASSUME TypeOK, size # 0
  PROVE  MmapLength(size) \in Nat \ {0} /\ size <= MmapLength(size)
  BY AlignUpEnough, SizeAssumption DEF MmapLength, TypeOK

\* Before the first call the main thread is untouched.
LEMMA InitIInv == Init => IInv
  BY DEF Init, IInv, TypeOK, BorrowInv, NeverSteps, ResultInv, ImageFits, Fresh,
     RegsType, UserRegs, UserCode, Untouched, Borrowed, Ip, Control

\* No step of the injector, of the wait or of the killer breaks the invariant.
LEMMA NextIInv == IInv /\ [Next]_vars => IInv'
<1> SUFFICES ASSUME IInv, [Next]_vars PROVE IInv'
  OBVIOUS
<1> USE FlagAssumption, AddrAssumption, SizeAssumption
    DEF IInv, TypeOK, BorrowInv, NeverSteps, ResultInv, ImageFits, Fresh, RegsType,
        UserRegs, UserCode, Untouched, Patched, Borrowed, Ip, Control,
        target, backup, call
<1>1. ASSUME NEW n \in Sizes, MmapSlice(n) PROVE IInv'
  BY <1>1 DEF MmapSlice
<1>2. CASE Protect
  BY <1>2 DEF Protect
<1>3. CASE SetRegs
  <2>1. ResultBeforeCall \in Int /\ ResultBeforeCall \notin Addrs
    BY DEF ResultBeforeCall, SYS_MMAP
  <2>2. regs' = [ip |-> regs.ip, kind |-> "call", ret |-> ResultBeforeCall]
    BY <1>3 DEF SetRegs
  <2>. QED
    BY <1>3, <2>1, <2>2 DEF SetRegs
<1>4. CASE PokeSyscall
  <2>1. code = UserCode /\ backupRegs.ip = 0
    BY <1>4 DEF PokeSyscall
  <2>2. code' = [UserCode EXCEPT ![0] = "syscall"]
    BY <1>4, <2>1 DEF PokeSyscall
  <2>3. code' = Patched
    BY <2>2
  <2>4. code' \in [Ip -> {"user", "syscall"}]
    BY <2>3
  <2>. QED
    BY <1>4, <2>3, <2>4 DEF PokeSyscall
<1>5. CASE RequestFails
  BY <1>5 DEF RequestFails, Fail, AfterFailure
<1>6. CASE Step
  BY <1>6 DEF Step
<1>7. CASE WaitStepped
  <2> DEFINE Length == MmapLength(size)
  <2>1. Length \in Nat \ {0} /\ size <= Length
    BY <1>7, MmapLengthEnough DEF WaitStepped
  <2>2. alive /\ pc = "wait" /\ CodeWritable /\ code = Patched /\ regs.ip = 0
    BY <1>7 DEF WaitStepped
  <2>3. /\ pc' = "getregs"
        /\ UNCHANGED <<alive, code, attempt, size, backupRegs, backupCode, result, images>>
    BY <1>7 DEF WaitStepped
  <2>. HIDE DEF Length
  <2>4. CASE regs' = [ip |-> regs.ip + 1, kind |-> "ret", ret |-> Errno] /\ UNCHANGED maps
    <3>1. regs' \in RegsType /\ regs'.ret \notin Addrs
      BY <2>2, <2>4 DEF Errno
    <3>. QED
      BY <2>2, <2>3, <2>4, <3>1
  <2>5. ASSUME NEW a \in Addrs \ DOMAIN maps,
               maps' = [b \in DOMAIN maps \cup {a} |-> IF b = a THEN Length ELSE maps[b]],
               regs' = [ip |-> regs.ip + 1, kind |-> "ret", ret |-> a]
        PROVE  IInv'
    <3>1. regs' \in RegsType /\ regs'.ret = a
      BY <2>2, <2>5
    <3>2. DOMAIN maps' = DOMAIN maps \cup {a} /\ maps'[a] = Length
      BY <2>5
    <3>3. \A b \in DOMAIN maps : maps'[b] = maps[b]
      BY <2>5
    <3>4. TypeOK'
      BY <2>1, <2>3, <3>1, <3>2, <3>3
    <3>5. ImageFits'
      BY <2>3, <3>2, <3>3
    <3>6. Fresh(regs.ret)'
      BY <2>1, <2>3, <2>5, <3>1, <3>2
    <3>. QED
      BY <2>2, <2>3, <3>4, <3>5, <3>6
  <2>. QED
    BY <1>7, <2>4, <2>5 DEF WaitStepped, Length
<1>8. CASE WaitSignalled
  BY <1>8 DEF WaitSignalled
<1>9. CASE WaitKilled
  BY <1>9 DEF WaitKilled
<1>10. CASE GetResult
  BY <1>10 DEF GetResult
<1>11. CASE RestoreRegs
  BY <1>11 DEF RestoreRegs, SavedRegs
<1>12. CASE RestoreCode
  <2>1. alive /\ CodeWritable /\ regs = UserRegs
    BY <1>12 DEF RestoreCode
  <2>2. code' = UserCode
    BY <1>12, <2>1 DEF RestoreCode
  <2>3. code' \in [Ip -> {"user", "syscall"}]
    BY <2>2
  <2>4. /\ pc' \in {"protect", "idle", "mapped"} /\ attempt' \in 1..2
        /\ pc = "restorecode"
        /\ UNCHANGED <<alive, regs, maps, size, backup, result, images>>
    BY <1>12 DEF RestoreCode, Fail, AfterFailure
  <2>5. TypeOK'
    BY <2>3, <2>4
  <2>6. BorrowInv'
    BY <2>1, <2>2, <2>4
  <2>. QED
    BY <2>1, <2>4, <2>5, <2>6
<1>13. CASE WriteImage
  BY <1>13 DEF WriteImage
<1>14. CASE WriteImageFails
  BY <1>14 DEF WriteImageFails
<1>15. CASE Kill
  BY <1>15 DEF Kill
<1>16. CASE UNCHANGED vars
  BY <1>16 DEF vars
<1>. QED
  BY <1>1, <1>2, <1>3, <1>4, <1>5, <1>6, <1>7, <1>8, <1>9, <1>10, <1>11, <1>12, <1>13, <1>14, <1>15, <1>16
  DEF Next, Injector, Wait

\* The inductive invariant holds of every reachable state.
THEOREM Invariance == Spec => []IInv
  BY InitIInv, NextIInv, PTL DEF Spec

\* Every variable keeps its type, and no mapping is empty.
THEOREM TypeCorrect == Spec => []TypeOK
  BY Invariance, PTL DEF IInv

\* Where ptrace can write the code of the target, a MmapSlice that returns,
\* with or without an error, has put registers and code back.
THEOREM Restored == CodeWritable /\ Spec => []MmapSliceRestores
<1>1. CodeWritable /\ IInv => MmapSliceRestores
  BY DEF IInv, BorrowInv, MmapSliceRestores
<1>2. CASE CodeWritable
  <2>1. IInv => MmapSliceRestores
    BY <1>1, <1>2
  <2>. QED
    BY <2>1, Invariance, PTL
<1>. QED
  BY <1>2

\* Every image that MmapSlice returned has a mapping of its own that is as
\* long as the image, for any page size.
THEOREM Fits == Spec => []ImageFits
  BY Invariance, PTL DEF IInv

Starts == {e.start : e \in images}

\* While the target lives, the one mapping that has no image yet is the one
\* whose address is on its way through the registers.
LeakInv ==
  alive =>
    /\ pc \in {"idle", "protect", "setregs", "poke", "step", "wait"} =>
         DOMAIN maps = Starts
    /\ pc = "getregs" => DOMAIN maps \subseteq Starts \cup {regs.ret}
    /\ pc \in {"restoreregs", "restorecode", "mapped"} =>
         DOMAIN maps \subseteq Starts \cup {result}

\* Before the first call there is no mapping and nothing to lose.
LEMMA InitLeakInv == Init => LeakInv
  BY DEF Init, LeakInv, Starts

\* No step loses a mapping, as long as the registers are those of IInv.
LEMMA NextLeakInv == IInv /\ LeakInv /\ [Next]_vars => LeakInv'
<1> SUFFICES ASSUME IInv, LeakInv, [Next]_vars PROVE LeakInv'
  OBVIOUS
<1>1. /\ DOMAIN maps \subseteq Addrs /\ Starts \subseteq DOMAIN maps
      /\ alive \in BOOLEAN /\ pc \in Control
      /\ pc \notin {"idle", "protect", "setregs", "poke"} => CodeWritable
  BY FlagAssumption DEF IInv, TypeOK, NeverSteps, ImageFits, Starts, Control
<1> USE <1>1 DEF LeakInv, target, backup, call, Control
<1>2. ASSUME NEW n \in Sizes, MmapSlice(n) PROVE LeakInv'
  BY <1>2 DEF MmapSlice, Starts
<1>3. CASE Protect
  BY <1>3 DEF Protect, Starts
<1>4. CASE SetRegs
  BY <1>4 DEF SetRegs, Starts
<1>5. CASE PokeSyscall
  BY <1>5 DEF PokeSyscall, Starts
<1>6. CASE RequestFails
  BY <1>6 DEF RequestFails, Fail, AfterFailure, Starts
<1>7. CASE Step
  BY <1>7 DEF Step, Starts
<1>8. CASE WaitStepped
  <2>1. Starts' = Starts /\ DOMAIN maps = Starts /\ pc' = "getregs"
    BY <1>8 DEF WaitStepped, Starts
  <2>2. CASE UNCHANGED maps
    BY <2>1, <2>2
  <2>3. CASE ~UNCHANGED maps
    <3>1. PICK a \in Addrs \ DOMAIN maps :
            /\ maps' = [b \in DOMAIN maps \cup {a} |->
                           IF b = a THEN MmapLength(size) ELSE maps[b]]
            /\ regs' = [ip |-> regs.ip + 1, kind |-> "ret", ret |-> a]
      BY <1>8, <2>3 DEF WaitStepped
    <3>2. DOMAIN maps' = DOMAIN maps \cup {a}
      BY <3>1
    <3>3. regs'.ret = a
      BY <3>1
    <3>. QED
      BY <2>1, <3>2, <3>3
  <2>. QED
    BY <2>2, <2>3
<1>9. CASE WaitSignalled
  BY <1>9 DEF WaitSignalled, Starts
<1>10. CASE WaitKilled
  BY <1>10 DEF WaitKilled, Starts
<1>11. CASE GetResult
  BY <1>11 DEF GetResult, Starts
<1>12. CASE RestoreRegs
  BY <1>12 DEF RestoreRegs, Starts
<1>13. CASE RestoreCode
  <2>1. MmapFailed(result) => result \notin Addrs
    BY AddrAssumption DEF MmapFailed, Errno
  <2>. QED
    BY <1>13, <2>1 DEF RestoreCode, Fail, AfterFailure, Starts
<1>14. CASE WriteImage
  <2> DEFINE new == [start |-> result, end |-> result + size]
  <2>1. images' = images \cup {new} /\ new.start = result
    BY <1>14 DEF WriteImage
  <2>. HIDE DEF new
  <2>2. Starts' = Starts \cup {result}
    BY <2>1 DEF Starts
  <2>. QED
    BY <1>14, <2>2 DEF WriteImage
<1>15. CASE WriteImageFails
  BY <1>15 DEF WriteImageFails, Starts
<1>16. CASE Kill
  BY <1>16 DEF Kill
<1>17. CASE UNCHANGED vars
  BY <1>17 DEF vars, Starts
<1>. QED
  BY <1>2, <1>3, <1>4, <1>5, <1>6, <1>7, <1>8, <1>9, <1>10, <1>11, <1>12, <1>13, <1>14, <1>15, <1>16, <1>17
  DEF Next, Injector, Wait

\* No mapping is left without an image in a target that lives, on amd64 either,
\* where a signal makes Syscall return a number that is no address.
THEOREM Kept == Spec => []NoMappingLeaks
<1>1. IInv /\ LeakInv => NoMappingLeaks
  BY DEF LeakInv, NoMappingLeaks, Starts
<1>2. Spec => []LeakInv
  BY InitLeakInv, NextLeakInv, Invariance, PTL DEF Spec
<1>. QED
  BY <1>1, <1>2, Invariance, PTL

\* What the result register or the result may hold once the call was tried.
Outcomes == {0, Errno} \cup DOMAIN maps

\* On arm64 the result register holds 0 until the instruction has run, so what
\* Syscall returns is an address only if mmap returned it.
AddressInv ==
  /\ pc \in {"poke", "step", "wait"} => regs.ret = 0
  /\ pc = "getregs" => regs.ret \in Outcomes
  /\ pc \in {"restoreregs", "restorecode"} => result \in Outcomes
  /\ MmapReturnsMapping

\* No step puts a number into the result that is neither an address nor one of
\* the two that tryMmap takes for a failure.
LEMMA NextAddressInv ==
  ASSUME Arch = "arm64", TypeOK, AddressInv, [Next]_vars
  PROVE  AddressInv'
<1>1. pc \in Control /\ attempt \in 1..2 /\ regs \in RegsType
  BY DEF TypeOK
<1> USE <1>1 DEF AddressInv, Outcomes, MmapReturnsMapping, Control, target, backup, call
<1>2. ASSUME NEW n \in Sizes, MmapSlice(n) PROVE AddressInv'
  BY <1>2 DEF MmapSlice
<1>3. CASE Protect
  BY <1>3 DEF Protect
<1>4. CASE SetRegs
  BY <1>4 DEF SetRegs, ResultBeforeCall, RegsType
<1>5. CASE PokeSyscall
  BY <1>5 DEF PokeSyscall
<1>6. CASE RequestFails
  BY <1>6 DEF RequestFails, Fail, AfterFailure
<1>7. CASE Step
  BY <1>7 DEF Step
<1>8. CASE WaitStepped
  <2>1. pc' = "getregs"
    BY <1>8 DEF WaitStepped
  <2>2. CASE regs' = [ip |-> regs.ip + 1, kind |-> "ret", ret |-> Errno]
    BY <2>1, <2>2
  <2>3. CASE regs' # [ip |-> regs.ip + 1, kind |-> "ret", ret |-> Errno]
    <3>1. PICK a \in Addrs \ DOMAIN maps :
            /\ maps' = [b \in DOMAIN maps \cup {a} |->
                           IF b = a THEN MmapLength(size) ELSE maps[b]]
            /\ regs' = [ip |-> regs.ip + 1, kind |-> "ret", ret |-> a]
      BY <1>8, <2>3 DEF WaitStepped
    <3>2. a \in DOMAIN maps' /\ regs'.ret = a
      BY <3>1
    <3>. QED
      BY <2>1, <3>2
  <2>. QED
    BY <2>2, <2>3
<1>9. CASE WaitSignalled
  BY <1>9 DEF WaitSignalled
<1>10. CASE WaitKilled
  BY <1>10 DEF WaitKilled
<1>11. CASE GetResult
  BY <1>11 DEF GetResult
<1>12. CASE RestoreRegs
  BY <1>12 DEF RestoreRegs
<1>13. CASE RestoreCode
  BY <1>13 DEF RestoreCode, Fail, AfterFailure, MmapFailed
<1>14. CASE WriteImage
  BY <1>14 DEF WriteImage
<1>15. CASE WriteImageFails
  BY <1>15 DEF WriteImageFails
<1>16. CASE Kill
  BY <1>16 DEF Kill
<1>17. CASE UNCHANGED vars
  BY <1>17 DEF vars
<1>. QED
  BY <1>2, <1>3, <1>4, <1>5, <1>6, <1>7, <1>8, <1>9, <1>10, <1>11, <1>12, <1>13, <1>14, <1>15, <1>16, <1>17
  DEF Next, Injector, Wait

\* On arm64, Mmap hands out only addresses that mmap returned in the target,
\* whatever signals arrive and whether or not the target lives; on amd64 a
\* signal makes it hand out the number of the system call.
THEOREM Returned == Arch = "arm64" /\ Spec => []MmapReturnsMapping
<1>1. CASE Arch = "arm64"
  <2>1. Init => AddressInv
    BY DEF Init, AddressInv, MmapReturnsMapping
  <2>2. TypeOK /\ AddressInv /\ [Next]_vars => AddressInv'
    BY <1>1, NextAddressInv
  <2>3. AddressInv => MmapReturnsMapping
    BY DEF AddressInv
  <2>. QED
    BY <2>1, <2>2, <2>3, TypeCorrect, PTL DEF Spec
<1>. QED
  BY <1>1

(***************************************************************************)
(* The length of a call                                                    *)
(***************************************************************************)

\* The steps of one strategy that are still to come, at most.
InStrategy ==
  CASE pc = "protect" -> 9 [] pc = "setregs" -> 8 [] pc = "poke" -> 7 [] pc = "step" -> 6
    [] pc = "wait" -> 5 [] pc = "getregs" -> 4 [] pc = "restoreregs" -> 3
    [] pc = "restorecode" -> 2 [] pc = "mapped" -> 1 [] OTHER -> 0

\* There are two strategies.
Left == InStrategy + 9 * (2 - attempt)

injector == <<pc, call, backup, result, images>>
Calling == pc # "idle"

\* Every step of MmapSlice leaves fewer to come, whatever fails, and a kill gives it no
\* more.
CallDescends == [][Calling => Left' < Left]_injector

\* The bound, and that the second strategy is not left for the first.
LEMMA LeftBounded ==
  ASSUME TypeOK
  PROVE  InStrategy \in 0..9 /\ attempt \in 1..2 /\ Left \in 0..18
<1>1. InStrategy \in 0..9
  BY DEF InStrategy
<1>2. attempt \in 1..2
  BY DEF TypeOK
<1>. QED
  BY <1>1, <1>2 DEF Left

\* A strategy that fails leaves the other one, or nothing.
LEMMA FailDescends ==
  ASSUME TypeOK, Fail, InStrategy > 0
  PROVE  Left' < Left
<1>1. CASE attempt = 1
  <2>1. pc' = "protect" /\ attempt' = 2
    BY <1>1 DEF Fail, AfterFailure
  <2>2. InStrategy' = 9
    BY <2>1 DEF InStrategy
  <2>. QED
    BY <1>1, <2>1, <2>2, LeftBounded DEF Left
<1>2. CASE attempt # 1
  <2>1. attempt = 2 /\ pc' = "idle" /\ attempt' = 2
    BY <1>2, LeftBounded DEF Fail, AfterFailure
  <2>2. InStrategy' = 0
    BY <2>1 DEF InStrategy
  <2>. QED
    BY <2>1, <2>2, LeftBounded DEF Left
<1>. QED
  BY <1>1, <1>2

\* Every other step goes on within its strategy.
LEMMA CallStep ==
  ASSUME TypeOK, [Next]_vars, Calling, ~UNCHANGED injector
  PROVE  Left' < Left
<1>1. ASSUME InStrategy' < InStrategy, InStrategy' \in Nat, UNCHANGED call PROVE Left' < Left
  BY <1>1, LeftBounded DEF Left, call
<1>2. CASE RequestFails
  <2>1. Fail /\ InStrategy > 0
    BY <1>2 DEF RequestFails, InStrategy
  <2>. QED
    BY <2>1, FailDescends
<1>3. CASE RestoreCode
  <2>1. pc = "restorecode" /\ (Fail \/ (pc' = "mapped" /\ UNCHANGED call))
    BY <1>3 DEF RestoreCode
  <2>2. CASE Fail
    <3>1. InStrategy > 0
      BY <2>1 DEF InStrategy
    <3>. QED
      BY <2>2, <3>1, FailDescends
  <2>3. CASE pc' = "mapped" /\ UNCHANGED call
    <3>1. InStrategy' < InStrategy /\ InStrategy' \in Nat
      BY <2>1, <2>3 DEF InStrategy
    <3>. QED
      BY <1>1, <2>3, <3>1
  <2>. QED
    BY <2>1, <2>2, <2>3
<1>4. CASE Protect \/ SetRegs \/ PokeSyscall \/ Step \/ Wait \/ GetResult \/ RestoreRegs
           \/ WriteImage \/ WriteImageFails
  <2>1. InStrategy' < InStrategy /\ InStrategy' \in Nat
    BY <1>4 DEF Protect, SetRegs, PokeSyscall, Step, Wait, WaitStepped, WaitSignalled,
       WaitKilled, GetResult, RestoreRegs, WriteImage, WriteImageFails, InStrategy
  <2>2. UNCHANGED call
    BY <1>4 DEF Protect, SetRegs, PokeSyscall, Step, Wait, WaitStepped, WaitSignalled,
       WaitKilled, GetResult, RestoreRegs, WriteImage, WriteImageFails
  <2>. QED
    BY <1>1, <2>1, <2>2
<1>5. ~Kill /\ ~UNCHANGED vars /\ ~\E n \in Sizes : MmapSlice(n)
  BY DEF Kill, vars, target, injector, Calling, MmapSlice
<1>. QED
  BY <1>2, <1>3, <1>4, <1>5 DEF Next, Injector

\* For any image and any size, MmapSlice makes at most eighteen steps, whatever signals and
\* errors come: a second failure is final.
THEOREM CallAdvances == Spec => CallDescends /\ [](Left \in 0..18)
<1>1. TypeOK => Left \in 0..18
  BY LeftBounded
<1>2. TypeOK /\ [Next]_vars => [Calling => Left' < Left]_injector
  BY CallStep
<1>. QED
  BY <1>1, <1>2, TypeCorrect, PTL DEF Spec, CallDescends
=============================================================================
