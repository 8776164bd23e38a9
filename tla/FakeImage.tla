------------------------------ MODULE FakeImage ------------------------------
(***************************************************************************)
(* AttachToProcess and Recover of fake_image_linux.go: how one FakeImage   *)
(* replaces one vDSO function of one process, finds its image again, sets  *)
(* the variables of the image and puts the function back.                  *)
(*                                                                         *)
(* Between the operations the process may call exec, another FakeImage may *)
(* take over (a second run of the command, or the Fork of a Skew), and the *)
(* injector may die in the middle of an operation.  Freezing the process   *)
(* is ThreadTrace and mapping the image is RemoteCall: here Trace, Detach  *)
(* and MmapSlice are single steps.                                         *)
(***************************************************************************)
EXTENDS ImageOutcome

CONSTANTS
  Arch,        \* GOARCH
  FuncSize,    \* bytes of the vDSO function, from its dynamic symbol
  Addr,        \* addresses mmap may return in the process
  Base,        \* addresses of the vDSO function
  FailPoints,  \* steps that may fail in a process that lives on
  MayExec      \* may the process call exec between the operations?

ptrSize == 8

\* Words that JumpToFakeFunc writes, and the bytes of them that are executed.
JumpWords == 2
JumpSize == IF Arch = "amd64" THEN 12 ELSE 16

ASSUME ArchAssumption == Arch \in {"amd64", "arm64"}
ASSUME SizeAssumption == FuncSize \in Nat \ {0}
ASSUME AddrAssumption == Addr \subseteq Nat \ {0} /\ Base \subseteq Nat \ {0}
ASSUME FailAssumption ==
  /\ FailPoints \subseteq {"trace", "mmap", "locate", "jump", "setvar"}
  /\ MayExec \in BOOLEAN

VARIABLES
  text,            \* words at the function: the address of an image in the
                   \* words of a jump, 0 in the original ones
  base,            \* where the function is
  mem,             \* addresses that hold a copy of the image
  vars,            \* the variables of every copy
  linked,          \* variables whose pointer slot is set (arm64)
  OriginFuncCode,  \* fields of the FakeImage
  OriginAddress,
  fakeEntry,
  pc,              \* control of the operation under way
  op,              \* which operation it is, or was the last one
  want,            \* parameter "variables" of AttachToProcess
  todo,            \* variables still to set
  word,            \* next word PtraceWriteSlice writes
  funcBytes,       \* what ReadSlice read of the function
  err,             \* the local variable of that name
  injected,        \* is the deferred rewrite registered?
  ret,             \* what the last operation returned, if nothing happened since
  began,           \* the function when the operation began
  before,          \* what the operation found, in the terms of ImageSwitch
  under,           \* what the function ran when this FakeImage replaced it
  mishap,          \* what the operation met that it cannot make good
  harm,            \* did an earlier operation since exec meet such a thing?
  lost             \* was OriginFuncCode left by an attachment before exec kept
                   \* by one after it, which mapped its image and then failed?

process  == <<text, base, mem, vars, linked>>
image    == <<OriginFuncCode, OriginAddress, fakeEntry>>
locals   == <<op, want, todo, word, funcBytes, err, injected>>
harms    == <<mishap, harm, lost>>
past     == <<began, before, under, harms>>
history  == <<ret, past>>
allVars  == <<process, image, pc, locals, history>>

(***************************************************************************)
(* Words and slices                                                        *)
(***************************************************************************)

\* Words that hold a byte of the function, and words the model looks at.
FuncWords == (FuncSize + ptrSize - 1) \div ptrSize
Words == IF FuncWords > JumpWords THEN FuncWords ELSE JumpWords
Word == 0..Words - 1

OrigWord == [to |-> 0, cut |-> FALSE]
JumpWord(a) == [to |-> a, cut |-> FALSE]
WordType == [to : Addr \cup {0}, cut : BOOLEAN]

\* Mutant of AlignedWords: alignBuffer drops the last, partial word.
WholeWords == FuncSize \div ptrSize

\* alignBuffer: PtraceWriteSlice writes whole words, the last one padded with 0.
AlignedWords == FuncWords

\* The size bytes of the function that ReadSlice reads, padded to words.
SliceOf(t) ==
  [i \in 0..FuncWords - 1 |->
     [t[i] EXCEPT !.cut = @ \/ (i + 1) * ptrSize > FuncSize]]

OrigText == [i \in Word |-> OrigWord]
NoCode == <<>>

\* The bytes of the function are those the kernel put there.
Real(t) == SliceOf(t) = SliceOf(OrigText)

\* The function is a jump to a; of a jump written back from funcBytes only the
\* first FuncSize bytes are left.
JumpsTo(t, a) ==
  /\ t[0].to = a /\ t[1].to = a
  /\ t[0].cut \/ t[1].cut => FuncSize >= JumpSize

\* An image that can run: on arm64 it goes through the pointers.
Runs(a) == a \in mem /\ (Arch = "arm64" => linked[a] = Var)

\* The words of an instruction no processor can run.
Broken == [kind |-> "broken", vars |-> Zero]

\* What a call of a function with these words runs.
View(t) ==
  CASE Real(t) -> Kernel
    [] \E a \in Addr : JumpsTo(t, a) /\ Runs(a) ->
         Faked(vars[CHOOSE a \in Addr : JumpsTo(t, a)])
    [] OTHER -> Broken

\* The function, in the terms of ImageSwitch.
Present == [view |-> View(text), under |-> under, entry |-> fakeEntry \in mem]

Init ==
  /\ text = OrigText /\ base \in Base
  /\ mem = {} /\ vars = [a \in Addr |-> Zero] /\ linked = [a \in Addr |-> {}]
  /\ OriginFuncCode = NoCode /\ OriginAddress = 0 /\ fakeEntry = 0
  /\ pc = "idle" /\ op = "attach" /\ want = Zero /\ todo = {} /\ word = 0
  /\ funcBytes = NoCode /\ err = FALSE /\ injected = FALSE
  /\ ret = "none" /\ began = text /\ under = Nothing /\ before = Present
  /\ mishap = {} /\ harm = FALSE /\ lost = FALSE

(***************************************************************************)
(* Steps shared by AttachToProcess and Recover                             *)
(***************************************************************************)

Fails(point) == point \in FailPoints

(***************************************************************************)
(* What an operation may meet that the code does not make good:            *)
(*   torn   a write of the function was cut off, or nothing of it undone;  *)
(*   stale  code that was saved before exec was written back;              *)
(*   unfit  so was code that cannot run: saved before exec, of a function  *)
(*          that was broken, or the head of a jump in a function that is   *)
(*          shorter than the jump;                                         *)
(*   died   the injector died while the function could not run.            *)
(***************************************************************************)
Mishap == {"torn", "stale", "unfit", "died"}

Met(m, happened) == mishap' = IF happened THEN mishap \cup {m} ELSE mishap

Harmed == harm \/ mishap # {}

Enter(o) ==
  /\ op' = o /\ err' = FALSE /\ injected' = FALSE /\ ret' = "none"
  /\ began' = text /\ before' = Present
  /\ mishap' = {} /\ harm' = Harmed /\ UNCHANGED <<under, lost>>

\* Mutant of Found: any FakeImage that was attached before is taken as present.
FoundIfEntry == fakeEntry # 0

\* FindInjectedImage: the content at fakeEntry, without the variables, is the
\* image.  A slice that cannot be read counts as not found.
Found == fakeEntry # 0 /\ fakeEntry \in mem

Leave(e) ==
  /\ pc' = "detach" /\ err' = e
  /\ UNCHANGED <<op, want, todo, word, funcBytes, injected>>

Detach ==
  /\ pc = "detach"
  /\ pc' = "idle"
  /\ ret' = IF err THEN "error" ELSE "ok"
  /\ UNCHANGED <<process, image, locals, past>>

(***************************************************************************)
(* AttachToProcess                                                         *)
(***************************************************************************)

\* The command attaches a fresh FakeImage; a caller of the library may attach
\* one again, to change the variables or after it was undone.
AttachToProcess(w) ==
  /\ pc = "idle"
  /\ Enter("attach")
  /\ want' = w /\ pc' = "find"
  /\ UNCHANGED <<process, image, todo, word, funcBytes>>

\* The number of variables does not match, or Trace fails, or no vDSO is mapped.
TraceFails ==
  /\ pc = "find" /\ Fails("trace")
  /\ pc' = "idle" /\ ret' = "error"
  /\ UNCHANGED <<process, image, locals, past>>

FindInjectedImage ==
  /\ pc = "find" /\ op = "attach"
  /\ IF Found THEN pc' = "setvar" /\ todo' = Var
              ELSE pc' = "mmap" /\ UNCHANGED todo
  /\ UNCHANGED <<process, image, op, want, word, funcBytes, err, injected, history>>

MmapSlice(a) ==
  /\ pc = "mmap" /\ a \notin mem
  /\ mem' = mem \cup {a}
  /\ vars' = [vars EXCEPT ![a] = Zero]
  /\ linked' = [linked EXCEPT ![a] = {}]
  /\ fakeEntry' = a
  /\ pc' = "locate"
  /\ UNCHANGED <<text, base, OriginFuncCode, OriginAddress, locals, history>>

MmapSliceFails ==
  /\ pc = "mmap" /\ (Fails("mmap") \/ mem = Addr)
  /\ Leave(TRUE)
  /\ UNCHANGED <<process, image, history>>

\* FindSymbolInEntry and ReadSlice.
Locate ==
  /\ pc = "locate"
  /\ funcBytes' = SliceOf(text)
  /\ word' = 0 /\ pc' = "jump"
  /\ UNCHANGED <<process, image, op, want, todo, err, injected, history>>

\* fakeEntry is set by now, and stays set; so does what an attachment before exec
\* left in OriginFuncCode.
LocateFails ==
  /\ pc = "locate" /\ Fails("locate")
  /\ lost' = (OriginFuncCode # NoCode)
  /\ Leave(TRUE)
  /\ UNCHANGED <<process, image, ret, began, before, under, mishap, harm>>

JumpToFakeFunc ==
  /\ pc = "jump" /\ word < JumpWords
  /\ text' = [text EXCEPT ![word] = JumpWord(fakeEntry)]
  /\ word' = word + 1
  /\ UNCHANGED <<base, mem, vars, linked, image, pc, op, want, todo, funcBytes,
                 err, injected, history>>

\* Mutant of SavedCode: the function is read when the jump is there.
ReadAfterJump == SliceOf(text)

SavedCode == funcBytes

Injected ==
  /\ pc = "jump" /\ word = JumpWords
  /\ OriginFuncCode' = SavedCode /\ OriginAddress' = base
  /\ injected' = TRUE /\ under' = before.view /\ lost' = FALSE
  /\ pc' = "setvar" /\ todo' = Var
  /\ UNCHANGED <<process, fakeEntry, op, want, word, funcBytes, err, ret, began,
                 before, mishap, harm>>

\* A word cannot be written.  TryReWriteFakeImage then runs with what an earlier
\* attachment left in OriginFuncCode, as this one has not set it yet.
JumpFails ==
  /\ pc = "jump" /\ word < JumpWords /\ Fails("jump")
  /\ Met("torn", word > 0)
  /\ lost' = (OriginFuncCode # NoCode)
  /\ pc' = "rewrite" /\ err' = TRUE /\ word' = 0
  /\ UNCHANGED <<process, image, op, want, todo, funcBytes, injected, ret, began,
                 before, under, harm>>

\* Mutant of Stored: adds to the delta that is there.
StoredOnTop(v) == vars[fakeEntry][v] + want[v]

Stored(v) == want[v]

SetVarUint64(v) ==
  /\ pc = "setvar" /\ v \in todo
  /\ vars' = [vars EXCEPT ![fakeEntry][v] = Stored(v)]
  /\ linked' = [linked EXCEPT ![fakeEntry] = @ \cup {v}]
  /\ todo' = todo \ {v}
  /\ UNCHANGED <<text, base, mem, image, pc, op, want, word, funcBytes, err,
                 injected, history>>

\* Mutant of OnSetVarError: the deferred rewrite is forgotten.
LeaveInjected == "detach"

\* The deferred rewrite undoes what this call injected, not an older injection.
OnSetVarError == IF injected THEN "rewrite" ELSE "detach"

SetVarFails ==
  /\ pc = "setvar" /\ todo # {} /\ Fails("setvar")
  /\ pc' = OnSetVarError /\ err' = TRUE /\ word' = 0
  /\ UNCHANGED <<process, image, op, want, todo, funcBytes, injected, history>>

Attached ==
  /\ pc = "setvar" /\ todo = {}
  /\ Leave(FALSE)
  /\ UNCHANGED <<process, image, history>>

(***************************************************************************)
(* Recover and TryReWriteFakeImage                                         *)
(***************************************************************************)

Recover ==
  /\ pc = "idle"
  /\ Enter("recover")
  /\ IF OriginFuncCode = NoCode THEN pc' = "detach" ELSE pc' = "find"
  /\ UNCHANGED <<process, image, want, todo, word, funcBytes>>

FindForRecover ==
  /\ pc = "find" /\ op = "recover"
  /\ IF Found THEN pc' = "rewrite" /\ word' = 0
              ELSE pc' = "detach" /\ UNCHANGED word
  /\ UNCHANGED <<process, image, op, want, todo, funcBytes, err, injected, history>>

\* Code saved before exec, and code that cannot run where it is written.
StaleCode == under = Nothing
UnfitCode == under \in {Nothing, Broken} \/ (FuncSize < JumpSize /\ under # Kernel)

\* Where the vDSO has moved, the word lands somewhere else.
ReWrite ==
  /\ pc = "rewrite" /\ OriginFuncCode # NoCode /\ word < AlignedWords
  /\ text' = IF OriginAddress = base THEN [text EXCEPT ![word] = OriginFuncCode[word]]
                                     ELSE text
  /\ mishap' = mishap \cup (IF StaleCode THEN {"stale"} ELSE {})
                      \cup (IF UnfitCode THEN {"unfit"} ELSE {})
  /\ word' = word + 1
  /\ UNCHANGED <<base, mem, vars, linked, image, pc, op, want, todo, funcBytes, err,
                 injected, ret, began, before, under, harm, lost>>

\* OriginFuncCode is forgotten, and with it what it stood for.
NoOrigin ==
  /\ OriginFuncCode' = NoCode /\ OriginAddress' = 0
  /\ under' = Nothing /\ lost' = FALSE

ReWritten ==
  /\ pc = "rewrite" /\ (OriginFuncCode = NoCode \/ word = AlignedWords)
  /\ NoOrigin
  /\ Leave(err)
  /\ UNCHANGED <<process, fakeEntry, ret, began, before, mishap, harm>>

\* Nothing is mapped at the old address, or a word cannot be written.  Recover
\* returns the error and keeps OriginFuncCode; the deferred function of
\* AttachToProcess forgets it.
ReWriteFails ==
  /\ pc = "rewrite" /\ OriginFuncCode # NoCode /\ word < AlignedWords
  /\ OriginAddress # base \/ Fails("jump")
  /\ Met("torn", word > 0 \/ injected)
  /\ IF injected THEN NoOrigin
                 ELSE UNCHANGED <<OriginFuncCode, OriginAddress, under, lost>>
  /\ Leave(TRUE)
  /\ UNCHANGED <<process, fakeEntry, ret, began, before, harm>>

(***************************************************************************)
(* What happens around the operations                                      *)
(***************************************************************************)

Forget == NoOrigin /\ fakeEntry' = 0

\* A new process image: nothing of the injection is left.
Exec ==
  /\ pc = "idle" /\ MayExec
  /\ text' = OrigText /\ base' \in Base
  /\ mem' = {} /\ vars' = [a \in Addr |-> Zero] /\ linked' = [a \in Addr |-> {}]
  /\ ret' = "none" /\ under' = Nothing
  /\ mishap' = {} /\ harm' = FALSE /\ lost' = FALSE
  /\ UNCHANGED <<image, pc, locals, began, before>>

\* Another FakeImage for the same symbol, in this run or in a later one.
NewFakeImage ==
  /\ pc = "idle" /\ fakeEntry # 0
  /\ Forget /\ ret' = "none"
  /\ UNCHANGED <<process, pc, locals, began, before, mishap, harm>>

\* The function cannot run: it is between two words, or on arm64 it goes to a new
\* image that lacks pointers.
Critical ==
  \/ pc = "jump" /\ word \in 1..JumpWords - 1
  \/ pc = "rewrite" /\ word \in 1..AlignedWords - 1
  \/ /\ Arch = "arm64"
     /\ \/ pc = "jump" /\ word = JumpWords
        \/ pc = "setvar" /\ injected /\ todo # {}
        \/ pc = "rewrite" /\ injected /\ word = 0

\* The kernel detaches the threads of a process whose tracer dies.
Crash ==
  /\ pc # "idle"
  /\ Met("died", Critical)
  /\ pc' = "idle" /\ ret' = "none"
  /\ Forget
  /\ UNCHANGED <<process, locals, began, before, harm>>

(***************************************************************************)
(* Specification                                                           *)
(***************************************************************************)

Attach ==
  \/ \E w \in [Var -> Value] : AttachToProcess(w)
  \/ FindInjectedImage \/ MmapSliceFails \/ \E a \in Addr : MmapSlice(a)
  \/ Locate \/ LocateFails \/ JumpToFakeFunc \/ Injected \/ JumpFails
  \/ SetVarFails \/ Attached \/ \E v \in Var : SetVarUint64(v)

Undo == Recover \/ FindForRecover \/ ReWrite \/ ReWritten \/ ReWriteFails

Around == Exec \/ NewFakeImage \/ Crash

Next == Attach \/ TraceFails \/ Undo \/ Detach \/ Around

Spec == Init /\ [][Next]_allVars

(***************************************************************************)
(* Properties                                                              *)
(***************************************************************************)

CodeType == {NoCode} \cup [0..FuncWords - 1 -> WordType]

\* Every variable keeps its type, and what was read of the function has its size.
TypeOK ==
  /\ text \in [Word -> WordType] /\ base \in Base
  /\ mem \subseteq Addr /\ vars \in [Addr -> [Var -> Value]]
  /\ linked \in [Addr -> SUBSET Var]
  /\ OriginFuncCode \in CodeType /\ OriginAddress \in Base \cup {0}
  /\ fakeEntry \in Addr \cup {0}
  /\ pc \in {"idle", "find", "mmap", "locate", "jump", "setvar", "rewrite", "detach"}
  /\ op \in {"attach", "recover"} /\ ret \in {"none", "ok", "error"}
  /\ want \in [Var -> Value] /\ todo \subseteq Var /\ word \in 0..Words
  /\ funcBytes \in CodeType /\ err \in BOOLEAN /\ injected \in BOOLEAN
  /\ began \in [Word -> WordType]
  /\ before \in [view : Views \cup {Broken}, under : Views \cup {Broken, Nothing},
                 entry : BOOLEAN]
  /\ under \in Views \cup {Broken, Nothing}
  /\ mishap \subseteq Mishap /\ harm \in BOOLEAN /\ lost \in BOOLEAN

\* A call of a function with these words runs the kernel's code or jumps to an
\* image that is mapped and ready.
CanRun(t) == View(t) # Broken

\* An operation that found a function that runs leaves one that runs, whichever
\* of its steps fail, and wherever its injector dies.  It does not if it met a
\* mishap: a word of the function could not be written after another one was,
\* what it wrote back was saved before exec or does not fit a short function, or
\* its injector died between two words or, on arm64, before the pointers of the
\* image were set.
RunnableText ==
  pc = "idle" /\ CanRun(began) /\ mishap = {} => CanRun(text)

\* AttachToProcess returns nil only if the function now goes to an image that
\* holds the variables asked for.
AttachMeansFaked ==
  op = "attach" /\ ret = "ok" =>
    \E a \in Addr : JumpsTo(text, a) /\ Runs(a) /\ vars[a] = want

\* An AttachToProcess that returns an error leaves the bytes of the function as
\* they were, unless a write of the function was itself cut off, or the undo
\* wrote what another attachment had saved before exec.
FailedAttachUndone ==
  op = "attach" /\ ret = "error" /\ mishap \cap {"torn", "stale"} = {} =>
    SliceOf(text) = SliceOf(began)

\* Code is written back where it was read, although OriginAddress may be the
\* address of a vDSO that is gone.  In one case it is not: an attachment before
\* exec left OriginFuncCode, and one after it mapped its image, so that
\* OriginFuncCode counts as current, and then failed to look up or to write the
\* function.
WritesStayInFunction ==
  pc = "rewrite" /\ OriginFuncCode # NoCode /\ OriginAddress # base => lost

\* While an operation has the process stopped, nothing has happened yet; once it
\* has met a mishap, nothing is promised of the function until exec.
Shown == CASE Harmed                  -> Wreck
           [] ~Harmed /\ pc = "idle" -> Present
           [] OTHER                   -> before

Switch == INSTANCE ImageSwitch
  WITH image <- Shown, op <- IF pc = "idle" THEN "none" ELSE op

\* Until the first mishap since exec, an operation that ends, fails or dies has
\* done what ImageSwitch says, as if in one step: Recover brings back what this
\* FakeImage replaced, a failure changes nothing but variables of an image
\* attached before, and a call of the function never runs half of a jump or an
\* image that is not ready.
SwitchesAtOnce == Switch!Spec
=============================================================================
