---------------------------- MODULE FakeImageProofs ----------------------------
(***************************************************************************)
(* What holds of FakeImage for functions of any length, any number of      *)
(* images, variables and values, both architectures, and whichever of the  *)
(* steps fail: where Recover and the deferred undo write, what a failed    *)
(* attachment leaves, when the function can still run, and that FakeImage  *)
(* implements ImageSwitch.                                                 *)
(***************************************************************************)
EXTENDS FakeImage, TLAPS

(***************************************************************************)
(* The function and its words                                              *)
(***************************************************************************)

Slot == 0..FuncWords - 1
Text == [Word -> WordType]

\* The image that the function jumps to; 0 stands for the code of the kernel.
Target(t) == t[0].to
Goes(t, a) == IF a = 0 THEN Real(t) ELSE a \in Addr /\ JumpsTo(t, a)
Ready(a) == a = 0 \/ Runs(a)
ViewOf(a) == IF a = 0 THEN Kernel ELSE Faked(vars[a])

\* What ReadSlice reads of a function that goes to a.
Code(c, a) ==
  IF a = 0 THEN c = SliceOf(OrigText)
           ELSE /\ a \in Addr /\ c[0].to = a
                /\ FuncSize >= JumpSize => c[1].to = a

\* A function has at least one word, and as many as the jump if it is as long.
LEMMA Sizes ==
  /\ FuncWords \in Nat /\ FuncWords >= 1 /\ AlignedWords = FuncWords /\ JumpWords = 2
  /\ Words \in Nat /\ Words >= 2 /\ FuncWords <= Words
  /\ Word = 0..Words - 1 /\ 0 \in Word /\ 1 \in Word /\ Slot \subseteq Word /\ 0 \in Slot
  /\ FuncSize >= JumpSize => 1 \in Slot
<1>1. FuncSize \in Nat /\ FuncSize >= 1
  BY SizeAssumption
<1>2. FuncWords \in Nat /\ FuncWords >= 1
  BY <1>1 DEF FuncWords, ptrSize
<1>3. FuncSize >= JumpSize => FuncWords >= 2
  BY <1>1 DEF FuncWords, ptrSize, JumpSize
<1>4. Words \in Nat /\ Words >= 2 /\ FuncWords <= Words
  BY <1>2 DEF Words, JumpWords
<1>5. Word = 0..Words - 1
  BY DEF Word
<1>. QED
  BY <1>2, <1>3, <1>4, <1>5 DEF AlignedWords, JumpWords, Slot

\* What is read of a function are its words, up to the padding.
LEMMA SliceType ==
  ASSUME NEW t \in Text
  PROVE  /\ SliceOf(t) \in [Slot -> WordType] /\ SliceOf(t) \in CodeType /\ SliceOf(t) # NoCode
         /\ \A i \in Slot : SliceOf(t)[i].to = t[i].to
<1>1. SliceOf(t) = [i \in Slot |-> [t[i] EXCEPT !.cut = @ \/ (i + 1) * ptrSize > FuncSize]]
  BY DEF SliceOf, Slot
<1>2. ASSUME NEW i \in Slot
      PROVE  LET w == [t[i] EXCEPT !.cut = @ \/ (i + 1) * ptrSize > FuncSize]
             IN  w \in WordType /\ w.to = t[i].to
  BY Sizes DEF WordType, Text
<1>3. SliceOf(t) \in [Slot -> WordType] /\ \A i \in Slot : SliceOf(t)[i].to = t[i].to
  BY <1>1, <1>2
<1>4. SliceOf(t) # NoCode
  BY <1>1, Sizes DEF NoCode
<1>. QED
  BY <1>3, <1>4 DEF CodeType, Slot

\* Code that was read and written back reads the same again.
LEMMA SliceTwice ==
  ASSUME NEW t \in Text, NEW u \in Text, \A i \in Slot : t[i] = SliceOf(u)[i]
  PROVE  SliceOf(t) = SliceOf(u)
<1> DEFINE cut(i) == (i + 1) * ptrSize > FuncSize
           padded(w, i) == [to |-> w.to, cut |-> w.cut \/ cut(i)]
<1>1. ASSUME NEW x \in Text
      PROVE  SliceOf(x) = [i \in Slot |-> padded(x[i], i)]
  <2>1. SliceOf(x) = [i \in Slot |-> [x[i] EXCEPT !.cut = @ \/ cut(i)]]
    BY DEF SliceOf, Slot
  <2>2. ASSUME NEW i \in Slot
        PROVE  [x[i] EXCEPT !.cut = @ \/ cut(i)] = padded(x[i], i)
    BY Sizes DEF Text, WordType
  <2>. QED
    BY <2>1, <2>2
<1>2. \A i \in Slot : t[i] = padded(u[i], i)
  BY <1>1
<1>3. ASSUME NEW i \in Slot PROVE padded(t[i], i) = padded(u[i], i)
  <2>1. t[i] = padded(u[i], i) /\ t[i].to = u[i].to
    BY <1>2
  <2>2. CASE cut(i)
    <3>1. (t[i].cut \/ cut(i)) = TRUE /\ (u[i].cut \/ cut(i)) = TRUE
      BY <2>2
    <3>. QED
      BY <2>1, <3>1
  <2>3. CASE ~cut(i)
    <3>1. u[i] \in WordType /\ u[i].cut \in BOOLEAN
      BY Sizes DEF Text, WordType
    <3>2. (u[i].cut \/ cut(i)) = u[i].cut
      BY <2>3, <3>1
    <3>3. padded(u[i], i) = u[i]
      BY <3>1, <3>2 DEF WordType
    <3>. QED
      BY <2>1, <3>3
  <2>. QED
    BY <2>2, <2>3
<1>4. SliceOf(t) = [i \in Slot |-> padded(t[i], i)] /\ SliceOf(u) = [i \in Slot |-> padded(u[i], i)]
  BY <1>1
<1> HIDE DEF padded
<1>. QED
  BY <1>3, <1>4

\* The kernel's function, and the words of a jump, are texts.
LEMMA WordFacts ==
  /\ OrigText \in Text /\ Real(OrigText) /\ 0 \notin Addr
  /\ \A i \in Slot : SliceOf(OrigText)[i].to = 0
  /\ \A a \in Addr \cup {0} : JumpWord(a) \in WordType /\ JumpWord(a).to = a /\ ~JumpWord(a).cut
<1>1. OrigText \in Text /\ \A i \in Word : OrigText[i].to = 0
  BY DEF OrigText, OrigWord, WordType, Text
<1>2. \A i \in Slot : SliceOf(OrigText)[i].to = 0
  BY <1>1, SliceType, Sizes
<1>3. \A a \in Addr \cup {0} : JumpWord(a) \in WordType /\ JumpWord(a).to = a /\ ~JumpWord(a).cut
  BY DEF JumpWord, WordType
<1>4. Real(OrigText) /\ 0 \notin Addr
  BY AddrAssumption DEF Real
<1>. QED
  BY <1>1, <1>2, <1>3, <1>4

\* A function goes to one place.
LEMMA GoesTarget ==
  ASSUME NEW t \in Text, NEW a, Goes(t, a)
  PROVE  a = Target(t)
<1>1. CASE a = 0
  <2>1. SliceOf(t)[0].to = 0
    BY <1>1, WordFacts, Sizes DEF Goes, Real
  <2>. QED
    BY <1>1, <2>1, SliceType, Sizes DEF Target
<1>2. CASE a # 0
  BY <1>2 DEF Goes, JumpsTo, Target
<1>. QED
  BY <1>1, <1>2

\* What is read of a function that goes to a, ...
LEMMA Saved ==
  ASSUME NEW t \in Text, NEW a, Goes(t, a)
  PROVE  Code(SliceOf(t), a)
<1>1. CASE a = 0
  BY <1>1 DEF Goes, Real, Code
<1>2. CASE a # 0
  <2>1. t[0].to = a /\ t[1].to = a /\ a \in Addr
    BY <1>2 DEF Goes, JumpsTo
  <2>. QED
    BY <1>2, <2>1, SliceType, Sizes DEF Code
<1>. QED
  BY <1>1, <1>2

\* ... goes to a when it is written back to a function that is long enough.
LEMMA Restored ==
  ASSUME NEW t \in Text, NEW c, NEW a, Code(c, a), a = 0 \/ FuncSize >= JumpSize,
         \A i \in Slot : t[i] = c[i]
  PROVE  Goes(t, a)
<1>1. CASE a = 0
  <2>1. SliceOf(t) = SliceOf(OrigText)
    BY <1>1, SliceTwice, WordFacts DEF Code
  <2>. QED
    BY <1>1, <2>1 DEF Goes, Real
<1>2. CASE a # 0
  BY <1>2, Sizes DEF Code, Goes, JumpsTo
<1>. QED
  BY <1>1, <1>2

\* A function that both words of a jump were written to goes there.
LEMMA JumpWritten ==
  ASSUME NEW t, NEW a \in Addr, t[0] = JumpWord(a), t[1] = JumpWord(a)
  PROVE  Goes(t, a)
  BY WordFacts DEF Goes, JumpsTo

(***************************************************************************)
(* Views                                                                   *)
(***************************************************************************)

\* The kinds of views are apart.
LEMMA ViewFacts ==
  /\ Zero \in Settings /\ Kernel \in Views /\ Nothing \notin Views /\ Broken \notin Views
  /\ Nothing # Broken
  /\ \A w : Faked(w) # Kernel /\ Faked(w) # Nothing /\ Faked(w) # Broken /\ Faked(w).vars = w
  /\ \A w \in Settings : Faked(w) \in Views
  BY SettingAssumption DEF Zero, Settings, Kernel, Views, Nothing, Broken, Faked

\* What a call of a function that goes to a runs.
LEMMA Viewed ==
  ASSUME NEW t \in Text, NEW a, Goes(t, a), Ready(a)
  PROVE  View(t) = ViewOf(a)
<1>1. CASE a = 0
  <2>1. Real(t)
    BY <1>1 DEF Goes
  <2>2. ~\E b \in Addr : JumpsTo(t, b)
    <3>1. ASSUME NEW b \in Addr, JumpsTo(t, b) PROVE FALSE
      <4>1. b = Target(t) /\ b # 0
        BY <3>1, WordFacts DEF JumpsTo, Target
      <4>. QED
        BY <1>1, <4>1, GoesTarget
    <3>. QED
      BY <3>1
  <2>3. View(t) = Kernel
    BY <2>1, <2>2 DEF View
  <2>. QED
    BY <1>1, <2>3 DEF ViewOf
<1>2. CASE a # 0
  <2>1. a \in Addr /\ JumpsTo(t, a) /\ Runs(a)
    BY <1>2 DEF Goes, Ready
  <2>2. \A b \in Addr : JumpsTo(t, b) => b = a
    BY <2>1 DEF JumpsTo
  <2>3. (CHOOSE b \in Addr : JumpsTo(t, b)) = a
    BY <2>1, <2>2
  <2>4. ~Real(t)
    <3>1. Real(t) => 0 = Target(t)
      BY GoesTarget DEF Goes
    <3>. QED
      BY <1>2, <2>1, <3>1 DEF JumpsTo, Target
  <2>5. View(t) = Faked(vars[CHOOSE b \in Addr : JumpsTo(t, b)])
    BY <2>1, <2>4 DEF View
  <2>. QED
    BY <1>2, <2>3, <2>5 DEF ViewOf
<1>. QED
  BY <1>1, <1>2

\* An image that may be jumped to shows a view.
LEMMA ViewOfType ==
  ASSUME TypeOK, NEW a \in Addr \cup {0}
  PROVE  ViewOf(a) \in Views /\ ViewOf(a) # Broken /\ ViewOf(a) # Nothing
<1>1. a # 0 => vars[a] \in Settings
  BY DEF TypeOK, Settings
<1>. QED
  BY <1>1, ViewFacts DEF ViewOf

\* A function can run if it goes to an image that is ready, or to the kernel's code, ...
LEMMA CanRunGoes ==
  ASSUME NEW t \in Text
  PROVE  CanRun(t) <=> \E a \in Addr \cup {0} : Goes(t, a) /\ Ready(a)
<1>1. ASSUME CanRun(t) PROVE \E a \in Addr \cup {0} : Goes(t, a) /\ Ready(a)
  <2>1. Real(t) \/ \E a \in Addr : JumpsTo(t, a) /\ Runs(a)
    BY <1>1 DEF CanRun, View
  <2>2. CASE Real(t)
    BY <2>2 DEF Goes, Ready
  <2>3. ASSUME NEW a \in Addr, JumpsTo(t, a), Runs(a) PROVE \E b \in Addr \cup {0} : Goes(t, b) /\ Ready(b)
    BY <2>3, WordFacts DEF Goes, Ready
  <2>. QED
    BY <2>1, <2>2, <2>3
<1>2. ASSUME NEW a \in Addr \cup {0}, Goes(t, a), Ready(a) PROVE CanRun(t)
  <2>1. View(t) = ViewOf(a)
    BY <1>2, Viewed
  <2>. QED
    BY <2>1, ViewFacts DEF ViewOf, CanRun, Kernel, Broken
<1>. QED
  BY <1>1, <1>2

\* ... and what it runs is a view then, and broken otherwise.
LEMMA ViewType ==
  ASSUME TypeOK, NEW t \in Text
  PROVE  View(t) \in Views \cup {Broken} /\ (View(t) # Broken => View(t) \in Views)
<1>1. CASE ~CanRun(t)
  BY <1>1, ViewFacts DEF CanRun
<1>2. CASE CanRun(t)
  <2>1. PICK a \in Addr \cup {0} : Goes(t, a) /\ Ready(a)
    BY <1>2, CanRunGoes
  <2>. QED
    BY <2>1, Viewed, ViewOfType
<1>. QED
  BY <1>1, <1>2

(***************************************************************************)
(* Types, and what the control of an operation says of its variables       *)
(***************************************************************************)

ControlInv ==
  /\ under # Nothing => fakeEntry \in mem /\ OriginFuncCode # NoCode /\ OriginAddress = base
  /\ pc \in {"find", "mmap", "locate", "jump"} => ~err /\ ~injected
  /\ pc = "find" /\ op = "recover" => OriginFuncCode # NoCode
  /\ pc \in {"mmap", "locate", "jump"} => op = "attach" /\ under = Nothing
  /\ pc = "mmap" => fakeEntry \notin mem
  /\ pc \in {"locate", "jump", "setvar"} => fakeEntry \in mem
  /\ pc = "jump" => word <= JumpWords /\ funcBytes # NoCode
  /\ pc = "setvar" => op = "attach" /\ ~err
  /\ pc \in {"setvar", "rewrite"} /\ injected => op = "attach" /\ under # Nothing
  /\ pc = "rewrite" => /\ word <= AlignedWords /\ fakeEntry \in mem
                       /\ op = "attach" <=> err
                       /\ op = "attach" /\ ~injected => under = Nothing
                       /\ op = "recover" => OriginFuncCode # NoCode
  /\ pc # "idle" => ret = "none"

BaseInv == TypeOK /\ ControlInv

\* Both hold at first.
LEMMA InitBase == Init => BaseInv
<1> SUFFICES ASSUME Init PROVE BaseInv
  OBVIOUS
<1>1. /\ text = OrigText /\ text \in Text /\ began = text /\ base \in Base /\ mem = {}
      /\ OriginFuncCode = NoCode /\ OriginAddress = 0 /\ fakeEntry = 0 /\ pc = "idle"
      /\ op = "attach" /\ todo = {} /\ word = 0 /\ funcBytes = NoCode /\ err = FALSE
      /\ injected = FALSE /\ ret = "none" /\ under = Nothing /\ before = Present
      /\ mishap = {} /\ harm = FALSE /\ lost = FALSE
  BY WordFacts DEF Init
<1>2. Goes(text, 0) /\ Ready(0) /\ ViewOf(0) = Kernel
  BY <1>1, WordFacts DEF Goes, Ready, ViewOf
<1>3. View(text) \in Views
  BY <1>1, <1>2, Viewed, ViewFacts
<1>4. before \in [view : Views \cup {Broken}, under : Views \cup {Broken, Nothing}, entry : BOOLEAN]
  BY <1>1, <1>3 DEF Present
<1>5. /\ vars \in [Addr -> [Var -> Value]] /\ linked \in [Addr -> SUBSET Var]
      /\ want \in [Var -> Value]
  BY ViewFacts DEF Init, Settings
<1>6. word \in 0..Words /\ funcBytes \in CodeType /\ OriginFuncCode \in CodeType
  BY <1>1, Sizes DEF CodeType
<1>7. TypeOK
  BY <1>1, <1>4, <1>5, <1>6 DEF TypeOK, Text
<1>8. ControlInv
  BY <1>1 DEF ControlInv
<1>. QED
  BY <1>7, <1>8 DEF BaseInv

\* Every step keeps the types, ...
LEMMA TypeNext == BaseInv /\ [Next]_allVars => TypeOK'
<1> SUFFICES ASSUME BaseInv, [Next]_allVars PROVE TypeOK'
  OBVIOUS
<1>1. TypeOK /\ ControlInv /\ text \in Text
  BY DEF BaseInv, TypeOK, Text
<1>2. Present \in [view : Views \cup {Broken}, under : Views \cup {Broken, Nothing}, entry : BOOLEAN]
  <2>1. View(text) \in Views \cup {Broken}
    BY <1>1, ViewType
  <2>. QED
    BY <1>1, <2>1 DEF Present, TypeOK
<1>3. Zero \in [Var -> Value] /\ OrigText \in [Word -> WordType] /\ NoCode \in CodeType
  BY ViewFacts, WordFacts DEF Settings, Text, CodeType
<1>4. SliceOf(text) \in CodeType
  BY <1>1, SliceType
<1> USE DEF TypeOK
<1>5. ASSUME NEW w \in [Var -> Value], AttachToProcess(w) PROVE TypeOK'
  BY <1>1, <1>2, <1>5 DEF AttachToProcess, Enter, Harmed, process, image
<1>6. CASE Recover
  BY <1>1, <1>2, <1>6 DEF Recover, Enter, Harmed, process, image
<1>7. CASE TraceFails \/ Detach
  BY <1>1, <1>7 DEF TraceFails, Detach, process, image, locals, past, harms
<1>8. CASE FindInjectedImage \/ Attached
  BY <1>1, <1>8 DEF FindInjectedImage, Attached, Leave, process, image, history, past, harms
<1>9. CASE MmapSliceFails \/ LocateFails
  BY <1>1, <1>9 DEF MmapSliceFails, LocateFails, Leave, process, image, history, past, harms
<1>10. ASSUME NEW a \in Addr, MmapSlice(a) PROVE TypeOK'
  BY <1>1, <1>3, <1>10 DEF MmapSlice, locals, history, past, harms
<1>11. CASE Locate
  BY <1>1, <1>4, <1>11, Sizes DEF Locate, process, image, history, past, harms
<1>12. CASE JumpToFakeFunc
  <2>1. JumpWord(fakeEntry) \in WordType
    BY <1>1, WordFacts
  <2>2. word \in Word /\ word + 1 \in 0..Words
    BY <1>1, <1>12, Sizes DEF JumpToFakeFunc
  <2>. QED
    BY <1>1, <1>12, <2>1, <2>2 DEF JumpToFakeFunc, image, history, past, harms
<1>13. CASE Injected
  BY <1>1, <1>13 DEF Injected, SavedCode, process
<1>14. CASE JumpFails
  BY <1>1, <1>14, Sizes DEF JumpFails, Met, Mishap, process, image
<1>15. CASE SetVarFails
  BY <1>1, <1>15, Sizes DEF SetVarFails, OnSetVarError, process, image, history, past, harms
<1>16. ASSUME NEW v \in Var, SetVarUint64(v) PROVE TypeOK'
  <2>1. vars' \in [Addr -> [Var -> Value]]
    BY <1>1, <1>16 DEF SetVarUint64, Stored
  <2>. QED
    BY <1>1, <1>16, <2>1 DEF SetVarUint64, image, history, past, harms
<1>17. CASE FindForRecover
  BY <1>1, <1>17, Sizes DEF FindForRecover, process, image, history, past, harms
<1>18. CASE ReWrite
  <2>1. word \in Word /\ word + 1 \in 0..Words /\ OriginFuncCode[word] \in WordType
    BY <1>1, <1>18, Sizes DEF ReWrite, CodeType, Slot
  <2>2. text' \in [Word -> WordType]
    BY <1>1, <1>18, <2>1 DEF ReWrite
  <2>3. mishap' \subseteq Mishap
    BY <1>1, <1>18 DEF ReWrite, Mishap
  <2>. QED
    BY <1>1, <1>18, <2>1, <2>2, <2>3 DEF ReWrite, image
<1>19. CASE ReWritten
  BY <1>1, <1>3, <1>19 DEF ReWritten, NoOrigin, Leave, process
<1>20. CASE ReWriteFails
  BY <1>1, <1>3, <1>20 DEF ReWriteFails, NoOrigin, Leave, Met, Mishap, process
<1>21. CASE Exec
  BY <1>1, <1>3, <1>21 DEF Exec, image, locals
<1>22. CASE NewFakeImage
  BY <1>1, <1>3, <1>22 DEF NewFakeImage, Forget, NoOrigin, process, locals
<1>23. CASE Crash
  BY <1>1, <1>3, <1>23 DEF Crash, Met, Mishap, Forget, NoOrigin, process, locals
<1>24. CASE UNCHANGED allVars
  BY <1>1, <1>24 DEF allVars, process, image, locals, history, past, harms
<1>. QED
  BY <1>5, <1>6, <1>7, <1>8, <1>9, <1>10, <1>11, <1>12, <1>13, <1>14, <1>15, <1>16, <1>17, <1>18,
     <1>19, <1>20, <1>21, <1>22, <1>23, <1>24 DEF Next, Attach, Undo, Around

\* ... and the control.
LEMMA ControlNext == BaseInv /\ [Next]_allVars => ControlInv'
<1> SUFFICES ASSUME BaseInv, [Next]_allVars PROVE ControlInv'
  OBVIOUS
<1>1. TypeOK /\ ControlInv /\ 0 \notin mem /\ text \in Text
  BY AddrAssumption DEF BaseInv, TypeOK, Text
<1> USE DEF ControlInv
<1>5. CASE \E w \in [Var -> Value] : AttachToProcess(w)
  BY <1>1, <1>5 DEF AttachToProcess, Enter, process, image
<1>6. CASE Recover
  BY <1>1, <1>6 DEF Recover, Enter, process, image
<1>7. CASE TraceFails \/ Detach
  BY <1>1, <1>7 DEF TraceFails, Detach, process, image, locals, past
<1>8. CASE FindInjectedImage \/ Attached
  BY <1>1, <1>8 DEF FindInjectedImage, Found, Attached, Leave, process, image, history, past
<1>9. CASE MmapSliceFails \/ LocateFails
  BY <1>1, <1>9 DEF MmapSliceFails, LocateFails, Leave, process, image, history, past
<1>10. ASSUME NEW a \in Addr, MmapSlice(a) PROVE ControlInv'
  BY <1>1, <1>10 DEF MmapSlice, locals, history, past
<1>11. CASE Locate
  <2>1. SliceOf(text) # NoCode
    BY <1>1, SliceType
  <2>. QED
    BY <1>1, <1>11, <2>1, Sizes DEF Locate, process, image, history, past
<1>12. CASE JumpToFakeFunc
  BY <1>1, <1>12, Sizes DEF JumpToFakeFunc, image, history, past, TypeOK
<1>13. CASE Injected
  <2>1. before.view # Nothing
    BY <1>1, ViewFacts DEF TypeOK
  <2>. QED
    BY <1>1, <1>13, <2>1 DEF Injected, SavedCode, process
<1>14. CASE JumpFails
  BY <1>1, <1>14, Sizes DEF JumpFails, process, image
<1>15. CASE SetVarFails
  BY <1>1, <1>15, Sizes DEF SetVarFails, OnSetVarError, process, image, history, past
<1>16. ASSUME NEW v \in Var, SetVarUint64(v) PROVE ControlInv'
  BY <1>1, <1>16 DEF SetVarUint64, image, history, past
<1>17. CASE FindForRecover
  BY <1>1, <1>17, Sizes DEF FindForRecover, Found, process, image, history, past
<1>18. CASE ReWrite
  BY <1>1, <1>18, Sizes DEF ReWrite, image, TypeOK
<1>19. CASE ReWritten
  BY <1>1, <1>19 DEF ReWritten, NoOrigin, Leave, process
<1>20. CASE ReWriteFails
  BY <1>1, <1>20 DEF ReWriteFails, NoOrigin, Leave, process
<1>21. CASE Exec
  BY <1>1, <1>21 DEF Exec, image, locals
<1>22. CASE NewFakeImage \/ Crash
  BY <1>1, <1>22 DEF NewFakeImage, Crash, Forget, NoOrigin, process, locals
<1>24. CASE UNCHANGED allVars
  BY <1>1, <1>24 DEF allVars, process, image, locals, history, past
<1>. QED
  BY <1>5, <1>6, <1>7, <1>8, <1>9, <1>10, <1>11, <1>12, <1>13, <1>14, <1>15, <1>16, <1>17, <1>18,
     <1>19, <1>20, <1>21, <1>22, <1>24 DEF Next, Attach, Undo, Around

\* Types and control hold in every state.
LEMMA Based == Spec => []BaseInv
<1>1. Init => BaseInv
  BY InitBase
<1>2. BaseInv /\ [Next]_allVars => BaseInv'
  BY TypeNext, ControlNext DEF BaseInv
<1>. QED
  BY <1>1, <1>2, PTL DEF Spec

(***************************************************************************)
(* Where the saved code is written                                         *)
(***************************************************************************)

LostInv ==
  OriginFuncCode # NoCode /\ fakeEntry \in mem /\ OriginAddress # base =>
    lost \/ pc \in {"locate", "jump"}

\* Code that was read before exec counts as current only where lost says so.
LEMMA LostNext == BaseInv /\ LostInv /\ [Next]_allVars => LostInv'
<1> SUFFICES ASSUME BaseInv, LostInv, [Next]_allVars PROVE LostInv'
  OBVIOUS
<1>1. ControlInv
  BY DEF BaseInv
<1> USE DEF LostInv
<1>2. CASE Attach
  <2>1. ASSUME NEW a \in Addr, MmapSlice(a) PROVE LostInv'
    BY <2>1 DEF MmapSlice
  <2>2. CASE Locate \/ LocateFails \/ JumpToFakeFunc \/ Injected \/ JumpFails
    BY <1>1, <2>2
    DEF Locate, LocateFails, JumpToFakeFunc, Injected, JumpFails, Leave, process, image, history,
        past, harms
  <2>3. CASE \E w \in [Var -> Value] : AttachToProcess(w)
    BY <2>3 DEF AttachToProcess, Enter, process, image
  <2>4. CASE \/ FindInjectedImage \/ MmapSliceFails \/ SetVarFails \/ Attached
             \/ \E v \in Var : SetVarUint64(v)
    BY <2>4
    DEF FindInjectedImage, MmapSliceFails, SetVarFails, Attached, SetVarUint64, Leave, process,
        image, history, past, harms
  <2>. QED
    BY <1>2, <2>1, <2>2, <2>3, <2>4 DEF Attach
<1>3. CASE TraceFails \/ Detach
  BY <1>3 DEF TraceFails, Detach, process, image, locals, past, harms
<1>4. CASE Undo
  BY <1>1, <1>4
  DEF Undo, Recover, Enter, FindForRecover, ReWrite, ReWritten, ReWriteFails, NoOrigin, Leave,
      process, image, history, past, harms
<1>5. CASE Around
  BY <1>5 DEF Around, Exec, NewFakeImage, Crash, Forget, NoOrigin, process, image
<1>6. CASE UNCHANGED allVars
  BY <1>6 DEF allVars, process, image, history, past, harms
<1>. QED
  BY <1>2, <1>3, <1>4, <1>5, <1>6 DEF Next

(***************************************************************************)
(* What a failed attachment leaves                                         *)
(***************************************************************************)

\* What was read is what the attachment found, and is written back word by word.
UndoneInv ==
  op = "attach" /\ mishap \cap {"torn", "stale"} = {} =>
    /\ pc \in {"find", "mmap", "locate"} \/ (pc = "jump" /\ word = 0) => text = began
    /\ pc = "jump" => funcBytes = SliceOf(began)
    /\ pc \in {"setvar", "rewrite"} /\ injected => OriginFuncCode = SliceOf(began)
    /\ pc \in {"setvar", "rewrite"} /\ ~injected => text = began
    /\ pc = "rewrite" /\ ~injected => word = 0
    /\ pc = "rewrite" /\ injected => \A i \in Slot : i < word => text[i] = OriginFuncCode[i]
    /\ (pc = "detach" /\ err) \/ (pc = "idle" /\ ret = "error") =>
         SliceOf(text) = SliceOf(began)

\* A word that is written back is in its place.
LEMMA WordBack ==
  ASSUME BaseInv, ReWrite, OriginAddress = base, \A i \in Slot : i < word => text[i] = OriginFuncCode[i]
  PROVE  \A i \in Slot : i < word' => text'[i] = OriginFuncCode'[i]
<1>1. /\ text \in Text /\ word \in 0..Words /\ word < AlignedWords /\ word' = word + 1
      /\ UNCHANGED OriginFuncCode
  BY DEF BaseInv, TypeOK, ControlInv, ReWrite, Text, image
<1>2. text' = [text EXCEPT ![word] = OriginFuncCode[word]]
  BY <1>1 DEF ReWrite
<1>3. word \in Word
  BY <1>1, Sizes
<1>4. ASSUME NEW i \in Slot, i < word + 1 PROVE text'[i] = OriginFuncCode[i]
  <2>1. i \in Word
    BY Sizes
  <2>2. i \in Nat /\ word \in Nat
    BY <1>1, Sizes DEF Slot
  <2>3. CASE i = word
    BY <1>1, <1>2, <1>3, <2>1, <2>3 DEF Text
  <2>4. CASE i < word
    BY <1>1, <1>2, <1>3, <2>1, <2>4 DEF Text
  <2>. QED
    BY <1>4, <2>2, <2>3, <2>4
<1>. QED
  BY <1>1, <1>4

\* An attachment keeps account of what it found.
LEMMA UndoneNext == BaseInv /\ UndoneInv /\ [Next]_allVars => UndoneInv'
<1> SUFFICES ASSUME BaseInv, UndoneInv, [Next]_allVars PROVE UndoneInv'
  OBVIOUS
<1>1. ControlInv /\ text \in Text /\ began \in Text /\ word \in 0..Words
  BY DEF BaseInv, TypeOK, Text
<1> USE DEF UndoneInv
<1>2. CASE Recover \/ \E w \in [Var -> Value] : AttachToProcess(w)
  BY <1>2 DEF Recover, AttachToProcess, Enter, process, image
<1>3. CASE TraceFails \/ Detach
  BY <1>1, <1>3 DEF TraceFails, Detach, ControlInv, process, image, locals, past, harms
<1>4. CASE \/ FindInjectedImage \/ MmapSliceFails \/ LocateFails \/ Attached
           \/ \E a \in Addr : MmapSlice(a)
  BY <1>1, <1>4
  DEF FindInjectedImage, MmapSliceFails, LocateFails, Attached, MmapSlice, Leave, ControlInv,
      process, image, locals, history, past, harms
<1>5. CASE Locate
  BY <1>1, <1>5 DEF Locate, ControlInv, process, image, history, past, harms
<1>6. CASE JumpToFakeFunc
  BY <1>1, <1>6 DEF JumpToFakeFunc, ControlInv, image, history, past, harms
<1>7. CASE Injected
  BY <1>1, <1>7 DEF Injected, SavedCode, ControlInv, process
<1>8. CASE JumpFails
  BY <1>1, <1>8 DEF JumpFails, Met, ControlInv, process, image
<1>9. CASE SetVarFails \/ \E v \in Var : SetVarUint64(v)
  BY <1>1, <1>9, Sizes
  DEF SetVarFails, OnSetVarError, SetVarUint64, ControlInv, Slot, process, image, history, past, harms
<1>10. CASE FindForRecover
  BY <1>10 DEF FindForRecover, history, past, harms
<1>11. CASE ReWrite
  <2>1. SUFFICES ASSUME op = "attach", mishap' \cap {"torn", "stale"} = {} PROVE UndoneInv'
    BY <1>11 DEF ReWrite
  <2>2. /\ pc = "rewrite" /\ mishap \cap {"torn", "stale"} = {} /\ under # Nothing
        /\ UNCHANGED <<image, pc, op, injected, began>>
    BY <1>11, <2>1 DEF ReWrite, StaleCode
  <2>3. injected /\ OriginAddress = base
    BY <1>1, <2>1, <2>2 DEF ControlInv
  <2>4. \A i \in Slot : i < word' => text'[i] = OriginFuncCode'[i]
    BY <1>11, <2>1, <2>2, <2>3, WordBack
  <2>. QED
    BY <2>1, <2>2, <2>3, <2>4 DEF image
<1>12. CASE ReWritten
  <2>1. SUFFICES ASSUME op = "attach", mishap \cap {"torn", "stale"} = {}
                 PROVE  SliceOf(text) = SliceOf(began)
    BY <1>12 DEF ReWritten, Leave, process
  <2>2. CASE injected
    <3>1. OriginFuncCode = SliceOf(began) /\ word = AlignedWords
      BY <1>1, <1>12, <2>1, <2>2 DEF ReWritten, ControlInv
    <3>2. \A i \in Slot : i < word
      BY <3>1, Sizes DEF Slot
    <3>3. \A i \in Slot : text[i] = SliceOf(began)[i]
      BY <1>12, <2>1, <2>2, <3>1, <3>2 DEF ReWritten
    <3>. QED
      BY <1>1, <3>3, SliceTwice
  <2>3. CASE ~injected
    BY <1>12, <2>1, <2>3 DEF ReWritten
  <2>. QED
    BY <2>2, <2>3
<1>13. CASE ReWriteFails
  BY <1>1, <1>13 DEF ReWriteFails, Met, NoOrigin, Leave, process
<1>14. CASE Around
  BY <1>14 DEF Around, Exec, NewFakeImage, Crash
<1>15. CASE UNCHANGED allVars
  BY <1>15 DEF allVars, process, image, locals, history, past, harms
<1>. QED
  BY <1>2, <1>3, <1>4, <1>5, <1>6, <1>7, <1>8, <1>9, <1>10, <1>11, <1>12, <1>13, <1>14, <1>15
  DEF Next, Attach, Undo

(***************************************************************************)
(* A function that can run                                                 *)
(***************************************************************************)

\* The code that an operation found, and the code that Recover writes back, go to
\* the kernel or to an image that is ready, unless the function was broken then.
FoundInv ==
  pc \in {"find", "mmap", "locate", "jump"} /\ before.view # Broken =>
    \E a \in Addr \cup {0} :
      /\ Ready(a)
      /\ before.view = Kernel => a = 0
      /\ IF pc = "jump" THEN Code(funcBytes, a) ELSE Goes(text, a)

OriginInv ==
  under \notin {Nothing, Broken} =>
    \E a \in Addr \cup {0} :
      /\ Ready(a)
      /\ under = Kernel => a = 0
      /\ Code(OriginFuncCode, a)

\* The words of the function, as far as an operation has come.
JumpThere == text[0] = JumpWord(fakeEntry) /\ text[1] = JumpWord(fakeEntry)

TextInv ==
  /\ pc \in {"find", "mmap", "locate"} => text = began
  /\ pc = "jump" => /\ word = 0 => text = began
                    /\ word > 0 => text[0] = JumpWord(fakeEntry)
                    /\ word > 1 => text[1] = JumpWord(fakeEntry)
  /\ pc = "setvar" \/ (pc = "rewrite" /\ word = 0 /\ mishap = {}) =>
       IF injected THEN JumpThere ELSE text = began
  /\ pc \in {"setvar", "rewrite"} /\ injected => Var \ todo \subseteq linked[fakeEntry]
  /\ pc = "rewrite" /\ OriginAddress = base => \A i \in Slot : i < word => text[i] = OriginFuncCode[i]

\* Code that cannot run is not written back unnoticed, ...
FitInv ==
  pc = "rewrite" /\ word > 0 /\ mishap = {} =>
    under \notin {Nothing, Broken} /\ (FuncSize < JumpSize => under = Kernel)

\* ... so the function can run when the operation has ended.
EndInv ==
  pc \in {"detach", "idle"} /\ mishap = {} /\ CanRun(began) => CanRun(text)

RunInv == FoundInv /\ OriginInv /\ TextInv /\ FitInv /\ EndInv

\* Images stay ready until exec.
LEMMA ReadyStays ==
  ASSUME BaseInv, [Next]_allVars, ~Exec, NEW a, Ready(a)
  PROVE  Ready(a)'
<1>1. TypeOK /\ ControlInv
  BY DEF BaseInv
<1>2. ASSUME NEW b \in Addr, MmapSlice(b) PROVE Ready(a)'
  BY <1>1, <1>2 DEF MmapSlice, Ready, Runs, TypeOK
<1>3. ASSUME NEW v \in Var, SetVarUint64(v) PROVE Ready(a)'
  <2>1. fakeEntry \in Addr
    BY <1>1, <1>3 DEF SetVarUint64, TypeOK, ControlInv
  <2>2. mem' = mem /\ linked' = [linked EXCEPT ![fakeEntry] = @ \cup {v}]
    BY <1>3 DEF SetVarUint64
  <2>3. a = 0 \/ a \in Addr
    BY <1>1 DEF TypeOK, Ready, Runs
  <2>4. a # 0 => linked[a] \subseteq linked'[a] /\ linked'[a] \subseteq linked[a] \cup Var
    BY <1>1, <2>1, <2>2, <2>3 DEF TypeOK
  <2>. QED
    BY <2>2, <2>4 DEF Ready, Runs
<1>4. CASE UNCHANGED <<mem, linked>>
  BY <1>4 DEF Ready, Runs
<1>5. CASE TraceFails \/ Detach \/ NewFakeImage \/ Crash \/ UNCHANGED allVars
  BY <1>4, <1>5 DEF TraceFails, Detach, NewFakeImage, Crash, allVars, process
<1>6. CASE Undo
  BY <1>4, <1>6
  DEF Undo, Recover, FindForRecover, ReWrite, ReWritten, ReWriteFails, process
<1>7. CASE \/ \E w \in [Var -> Value] : AttachToProcess(w)
           \/ FindInjectedImage \/ MmapSliceFails \/ Locate \/ LocateFails \/ JumpToFakeFunc
           \/ Injected \/ JumpFails \/ SetVarFails \/ Attached
  BY <1>4, <1>7
  DEF AttachToProcess, FindInjectedImage, MmapSliceFails, Locate, LocateFails, JumpToFakeFunc,
      Injected, JumpFails, SetVarFails, Attached, process
<1>. QED
  BY <1>2, <1>3, <1>5, <1>6, <1>7 DEF Next, Attach, Around

\* An operation finds a function that goes somewhere, and reads it.
LEMMA FoundNext == BaseInv /\ FoundInv /\ [Next]_allVars => FoundInv'
<1> SUFFICES ASSUME BaseInv, FoundInv, [Next]_allVars,
                    pc' \in {"find", "mmap", "locate", "jump"}, before'.view # Broken
             PROVE  \E a \in Addr \cup {0} :
                      /\ Ready(a)'
                      /\ before'.view = Kernel => a = 0
                      /\ IF pc' = "jump" THEN Code(funcBytes', a) ELSE Goes(text', a)
  BY DEF FoundInv
<1>1. TypeOK /\ ControlInv /\ text \in Text
  BY DEF BaseInv, TypeOK, Text
<1>2. CASE pc = "idle"
  <2>1. Recover \/ \E w \in [Var -> Value] : AttachToProcess(w)
    BY <1>2
    DEF Next, Attach, Undo, Around, AttachToProcess, FindInjectedImage, MmapSliceFails, MmapSlice,
        Locate, LocateFails, JumpToFakeFunc, Injected, JumpFails, SetVarFails, Attached,
        SetVarUint64, TraceFails, Recover, FindForRecover, ReWrite, ReWritten, ReWriteFails,
        Detach, Exec, NewFakeImage, Crash, allVars
  <2>2. before'.view = View(text) /\ pc' # "jump" /\ text' = text /\ UNCHANGED <<mem, linked>>
    BY <2>1 DEF Recover, AttachToProcess, Enter, Present, process
  <2>3. PICK a \in Addr \cup {0} : Goes(text, a) /\ Ready(a)
    BY <1>1, <2>2, CanRunGoes DEF CanRun
  <2>4. View(text) = Kernel => a = 0
    BY <1>1, <2>3, Viewed, ViewFacts DEF ViewOf
  <2>. QED
    BY <2>2, <2>3, <2>4 DEF Ready, Runs
<1>3. CASE pc # "idle"
  <2>1. pc \in {"find", "mmap", "locate", "jump"} /\ before' = before /\ ~Exec
    BY <1>3
    DEF Next, Attach, Undo, Around, AttachToProcess, FindInjectedImage, MmapSliceFails, MmapSlice,
        Locate, LocateFails, JumpToFakeFunc, Injected, JumpFails, SetVarFails, OnSetVarError, Attached,
        SetVarUint64, TraceFails, Recover, FindForRecover, ReWrite, ReWritten, ReWriteFails, Leave,
        Detach, Exec, NewFakeImage, Crash, allVars, history, past
  <2>2. PICK a \in Addr \cup {0} :
          /\ Ready(a)
          /\ before.view = Kernel => a = 0
          /\ IF pc = "jump" THEN Code(funcBytes, a) ELSE Goes(text, a)
    BY <2>1 DEF FoundInv
  <2>3. Ready(a)'
    BY <2>1, <2>2, ReadyStays
  <2>4. CASE Locate
    <3>1. Code(SliceOf(text), a)
      BY <1>1, <2>2, <2>4, Saved DEF Locate
    <3>. QED
      BY <2>1, <2>2, <2>3, <2>4, <3>1 DEF Locate
  <2>5. CASE ~Locate
    <3>1. /\ (pc' = "jump") = (pc = "jump")
          /\ pc = "jump" => funcBytes' = funcBytes
          /\ pc # "jump" => text' = text
      BY <1>3, <2>1, <2>5
      DEF Next, Attach, Undo, Around, AttachToProcess, FindInjectedImage, MmapSliceFails, MmapSlice,
          LocateFails, JumpToFakeFunc, Injected, JumpFails, SetVarFails, Attached,
          SetVarUint64, TraceFails, Recover, FindForRecover, ReWrite, ReWritten, ReWriteFails, Leave,
          Detach, Exec, NewFakeImage, Crash, allVars, process, locals
    <3>. QED
      BY <2>1, <2>2, <2>3, <3>1
  <2>. QED
    BY <2>4, <2>5
<1>. QED
  BY <1>2, <1>3

\* What Recover writes back stays what it was.
LEMMA OriginNext == BaseInv /\ FoundInv /\ OriginInv /\ [Next]_allVars => OriginInv'
<1> SUFFICES ASSUME BaseInv, FoundInv, OriginInv, [Next]_allVars, under' \notin {Nothing, Broken}
             PROVE  \E a \in Addr \cup {0} :
                      /\ Ready(a)'
                      /\ under' = Kernel => a = 0
                      /\ Code(OriginFuncCode', a)
  BY DEF OriginInv
<1>1. ~Exec /\ ~NewFakeImage /\ ~Crash /\ ~ReWritten
  BY DEF Exec, NewFakeImage, Crash, ReWritten, Forget, NoOrigin
<1>2. CASE Injected
  <2>1. pc = "jump" /\ before.view # Broken /\ under' = before.view /\ OriginFuncCode' = funcBytes
    BY <1>2 DEF Injected, SavedCode
  <2>2. PICK a \in Addr \cup {0} :
          Ready(a) /\ (before.view = Kernel => a = 0) /\ Code(funcBytes, a)
    BY <2>1 DEF FoundInv
  <2>3. Ready(a)'
    BY <1>1, <2>2, ReadyStays
  <2>. QED
    BY <2>1, <2>2, <2>3
<1>3. CASE ~Injected
  <2>1. under' = under /\ OriginFuncCode' = OriginFuncCode
    <3>1. CASE Attach
      BY <1>3, <3>1
      DEF Attach, AttachToProcess, Enter, FindInjectedImage, MmapSliceFails, MmapSlice, Locate,
          LocateFails, JumpToFakeFunc, JumpFails, SetVarFails, Attached, SetVarUint64, image,
          history, past
    <3>2. CASE Undo
      BY <1>1, <3>2
      DEF Undo, Recover, Enter, FindForRecover, ReWrite, ReWriteFails, NoOrigin, image, history, past
    <3>3. CASE TraceFails \/ Detach \/ UNCHANGED allVars
      BY <3>3 DEF TraceFails, Detach, allVars, image, history, past
    <3>. QED
      BY <1>1, <3>1, <3>2, <3>3 DEF Next, Around
  <2>2. PICK a \in Addr \cup {0} :
          Ready(a) /\ (under = Kernel => a = 0) /\ Code(OriginFuncCode, a)
    BY <2>1 DEF OriginInv
  <2>3. Ready(a)'
    BY <1>1, <2>2, ReadyStays
  <2>. QED
    BY <2>1, <2>2, <2>3
<1>. QED
  BY <1>2, <1>3

\* The words of the function follow the operation.
LEMMA TextNext == BaseInv /\ TextInv /\ [Next]_allVars => TextInv'
<1> SUFFICES ASSUME BaseInv, TextInv, [Next]_allVars PROVE TextInv'
  OBVIOUS
<1>1. ControlInv /\ TypeOK /\ text \in Text /\ word \in 0..Words
  BY DEF BaseInv, TypeOK, Text
<1>2. CASE Recover \/ \E w \in [Var -> Value] : AttachToProcess(w)
  BY <1>2 DEF Recover, AttachToProcess, Enter, TextInv, process
<1>3. CASE \/ FindInjectedImage \/ MmapSliceFails \/ LocateFails \/ Attached \/ TraceFails \/ Detach
           \/ \E a \in Addr : MmapSlice(a)
  BY <1>1, <1>3
  DEF FindInjectedImage, MmapSliceFails, LocateFails, Attached, MmapSlice, TraceFails, Detach, Leave,
      ControlInv, TextInv, process, image, locals, history, past
<1>4. CASE Locate
  BY <1>1, <1>4 DEF Locate, TextInv, process, history, past
<1>5. CASE JumpToFakeFunc
  <2>1. /\ word \in {0, 1} /\ text' = [text EXCEPT ![word] = JumpWord(fakeEntry)] /\ word' = word + 1
        /\ pc = "jump" /\ pc' = "jump" /\ UNCHANGED fakeEntry
    BY <1>1, <1>5, Sizes DEF JumpToFakeFunc, image
  <2>2. /\ word' > 0 => text'[0] = JumpWord(fakeEntry)
        /\ word' > 1 => text'[1] = JumpWord(fakeEntry)
    BY <1>1, <2>1, Sizes DEF TextInv, Text
  <2>3. word' # 0
    BY <2>1
  <2>. QED
    BY <2>1, <2>2, <2>3 DEF TextInv
<1>6. CASE Injected
  BY <1>6, Sizes DEF Injected, TextInv, JumpThere, process
<1>7. CASE JumpFails
  <2>1. /\ pc = "jump" /\ ~injected /\ UNCHANGED <<injected, text, began>>
        /\ pc' = "rewrite" /\ word' = 0
    BY <1>1, <1>7 DEF JumpFails, ControlInv, process
  <2>2. mishap' = {} => word = 0
    BY <1>1, <1>7 DEF JumpFails, Met
  <2>3. mishap' = {} => text' = began'
    BY <2>1, <2>2 DEF TextInv
  <2>4. ~(\E i \in Slot : i < word')
    BY <2>1, Sizes DEF Slot
  <2>. QED
    BY <2>1, <2>3, <2>4 DEF TextInv
<1>8. ASSUME NEW v \in Var, SetVarUint64(v) PROVE TextInv'
  <2>1. fakeEntry \in Addr
    BY <1>1, <1>8 DEF SetVarUint64, ControlInv, TypeOK
  <2>2. linked'[fakeEntry] = linked[fakeEntry] \cup {v} /\ todo' = todo \ {v} /\ pc = "setvar"
    BY <1>1, <1>8, <2>1 DEF SetVarUint64, TypeOK
  <2>. QED
    BY <1>8, <2>2 DEF SetVarUint64, TextInv, JumpThere, image, history, past
<1>9. CASE SetVarFails
  BY <1>1, <1>9, Sizes
  DEF SetVarFails, OnSetVarError, TextInv, JumpThere, Slot, process, image, history, past
<1>10. CASE FindForRecover
  BY <1>1, <1>10, Sizes
  DEF FindForRecover, ControlInv, TextInv, Slot, process, image, history, past
<1>11. CASE ReWrite
  <2>1. /\ pc = "rewrite" /\ pc' = "rewrite" /\ word' = word + 1
        /\ UNCHANGED <<image, base, linked, todo, injected>>
    BY <1>11 DEF ReWrite
  <2>2. OriginAddress = base => \A i \in Slot : i < word' => text'[i] = OriginFuncCode'[i]
    BY <1>11, <2>1, WordBack DEF TextInv
  <2>3. word' # 0
    BY <1>1, <2>1
  <2>. QED
    BY <2>1, <2>2, <2>3 DEF TextInv, image
<1>12. CASE ReWritten \/ ReWriteFails
  BY <1>12 DEF ReWritten, ReWriteFails, Leave, TextInv
<1>13. CASE Around
  BY <1>13 DEF Around, Exec, NewFakeImage, Crash, TextInv
<1>14. CASE UNCHANGED allVars
  BY <1>14 DEF allVars, process, image, locals, history, past, harms, TextInv, JumpThere
<1>. QED
  BY <1>2, <1>3, <1>4, <1>5, <1>6, <1>7, <1>8, <1>9, <1>10, <1>11, <1>12, <1>13, <1>14
  DEF Next, Attach, Undo

\* ReWrite takes note of code that cannot run.
LEMMA FitNext == BaseInv /\ FitInv /\ [Next]_allVars => FitInv'
<1> SUFFICES ASSUME BaseInv, FitInv, [Next]_allVars, pc' = "rewrite", word' > 0, mishap' = {}
             PROVE  under' \notin {Nothing, Broken} /\ (FuncSize < JumpSize => under' = Kernel)
  BY DEF FitInv
<1>1. CASE ReWrite
  BY <1>1 DEF ReWrite, UnfitCode
<1>2. CASE ~ReWrite
  <2>1. JumpFails \/ SetVarFails \/ FindForRecover => word' = 0
    BY DEF JumpFails, SetVarFails, OnSetVarError, FindForRecover
  <2>2. UNCHANGED allVars
    BY <1>2, <2>1
    DEF Next, Attach, Undo, Around, AttachToProcess, FindInjectedImage, MmapSliceFails, MmapSlice,
        Locate, LocateFails, JumpToFakeFunc, Injected, Attached, SetVarUint64, TraceFails, Recover,
        ReWritten, ReWriteFails, Leave, Detach, Exec, NewFakeImage, Crash
  <2>. QED
    BY <2>2 DEF allVars, locals, history, past, harms, FitInv
<1>. QED
  BY <1>1, <1>2

\* The jump is there, and can be taken once the pointers are set.
LEMMA JumpRuns ==
  ASSUME BaseInv, JumpThere, fakeEntry \in mem, Arch = "arm64" => linked[fakeEntry] = Var
  PROVE  CanRun(text)
<1>1. text \in Text /\ fakeEntry \in Addr
  BY DEF BaseInv, TypeOK, Text
<1>2. Goes(text, fakeEntry) /\ Ready(fakeEntry)
  BY <1>1, JumpWritten DEF JumpThere, Ready, Runs
<1>. QED
  BY <1>1, <1>2, CanRunGoes

\* All words of code that can run are back.
LEMMA BackRuns ==
  ASSUME BaseInv, RunInv, pc = "rewrite", OriginFuncCode # NoCode, word = AlignedWords, mishap = {}
  PROVE  CanRun(text)
<1>1. text \in Text /\ ControlInv /\ word > 0
  BY Sizes DEF BaseInv, TypeOK, Text
<1>2. under \notin {Nothing, Broken} /\ (FuncSize < JumpSize => under = Kernel)
  BY <1>1 DEF RunInv, FitInv
<1>3. PICK a \in Addr \cup {0} :
        Ready(a) /\ (under = Kernel => a = 0) /\ Code(OriginFuncCode, a)
  BY <1>2 DEF RunInv, OriginInv
<1>4. \A i \in Slot : text[i] = OriginFuncCode[i]
  BY <1>1, <1>2, Sizes DEF RunInv, TextInv, ControlInv, Slot
<1>5. a = 0 \/ FuncSize >= JumpSize
  BY <1>2, <1>3, SizeAssumption DEF JumpSize
<1>6. Goes(text, a)
  BY <1>1, <1>3, <1>4, <1>5, Restored
<1>. QED
  BY <1>1, <1>3, <1>6, CanRunGoes

\* Where the injector may die, the function can run if it could before.
LEMMA Survives ==
  ASSUME BaseInv, RunInv, pc # "idle", ~Critical, mishap = {}, CanRun(began)
  PROVE  CanRun(text)
<1>1. ControlInv /\ TypeOK /\ word \in 0..Words
  BY DEF BaseInv, TypeOK
<1>2. CASE pc \in {"find", "mmap", "locate"}
  BY <1>2 DEF RunInv, TextInv
<1>3. CASE pc = "jump"
  <2>1. word = 0 \/ (word = 2 /\ Arch # "arm64")
    BY <1>1, <1>3, Sizes DEF Critical, ControlInv
  <2>2. CASE word = 0
    BY <1>3, <2>2 DEF RunInv, TextInv
  <2>3. CASE word = 2 /\ Arch # "arm64"
    BY <1>1, <1>3, <2>3, JumpRuns DEF RunInv, TextInv, JumpThere, ControlInv
  <2>. QED
    BY <2>1, <2>2, <2>3
<1>4. CASE pc = "setvar"
  <2>1. CASE injected
    <3>1. Arch = "arm64" => linked[fakeEntry] = Var
      BY <1>1, <1>4, <2>1 DEF Critical, RunInv, TextInv, ControlInv, TypeOK
    <3>. QED
      BY <1>1, <1>4, <2>1, <3>1, JumpRuns DEF RunInv, TextInv, ControlInv
  <2>2. CASE ~injected
    BY <1>4, <2>2 DEF RunInv, TextInv
  <2>. QED
    BY <2>1, <2>2
<1>5. CASE pc = "rewrite"
  <2>1. word = 0 \/ word = AlignedWords
    BY <1>1, <1>5, Sizes DEF Critical, ControlInv
  <2>2. CASE word = 0 /\ injected
    <3>1. Arch # "arm64" /\ fakeEntry \in mem /\ JumpThere
      BY <1>1, <1>5, <2>2 DEF Critical, ControlInv, RunInv, TextInv
    <3>. QED
      BY <3>1, JumpRuns
  <2>3. CASE word = 0 /\ ~injected
    BY <1>5, <2>3 DEF RunInv, TextInv
  <2>4. CASE word = AlignedWords
    <3>1. word > 0
      BY <2>4, Sizes
    <3>2. OriginFuncCode # NoCode
      BY <1>1, <1>5, <3>1 DEF RunInv, FitInv, ControlInv
    <3>. QED
      BY <1>5, <2>4, <3>2, BackRuns
  <2>. QED
    BY <2>1, <2>2, <2>3, <2>4
<1>6. CASE pc = "detach"
  BY <1>6 DEF RunInv, EndInv
<1>. QED
  BY <1>1, <1>2, <1>3, <1>4, <1>5, <1>6 DEF TypeOK

\* What can run depends on the images alone.
LEMMA CanRunAll ==
  \A t \in Text : CanRun(t) <=> \E a \in Addr \cup {0} : Goes(t, a) /\ Ready(a)
  BY CanRunGoes

\* So it does in the next state.
LEMMA CanRunNext ==
  (\A t \in Text : CanRun(t) <=> \E a \in Addr \cup {0} : Goes(t, a) /\ Ready(a))'
  BY CanRunAll, PTL

\* Texts with the same words go to the same places.
LEMMA SameRuns ==
  ASSUME TypeOK, TypeOK', UNCHANGED <<mem, linked>>
  PROVE  /\ text' = text => (CanRun(text)' <=> CanRun(text))
         /\ began' = began => (CanRun(began)' <=> CanRun(began))
<1>1. \A a : Ready(a)' <=> Ready(a)
  BY DEF Ready, Runs
<1>2. /\ text \in Text /\ began \in Text
      /\ text' \in Text /\ began' \in Text
  BY DEF TypeOK, Text
<1>3. \A t \in Text : CanRun(t) <=> \E a \in Addr \cup {0} : Goes(t, a) /\ Ready(a)
  BY CanRunAll
<1>4. /\ CanRun(text)' <=> \E a \in Addr \cup {0} : Goes(text', a) /\ Ready(a)'
      /\ CanRun(began)' <=> \E a \in Addr \cup {0} : Goes(began', a) /\ Ready(a)'
  BY <1>2, CanRunNext
<1>. QED
  BY <1>1, <1>2, <1>3, <1>4

\* A function that could run when the operation began can run while its text stays.
LEMMA FoundRuns ==
  ASSUME TypeOK', text' = began'
  PROVE  CanRun(text)' <=> CanRun(began)'
<1>1. text' \in Text /\ began' \in Text
  BY DEF TypeOK, Text
<1>2. /\ CanRun(text)' <=> \E a \in Addr \cup {0} : Goes(text', a) /\ Ready(a)'
      /\ CanRun(began)' <=> \E a \in Addr \cup {0} : Goes(began', a) /\ Ready(a)'
  BY <1>1, CanRunNext
<1>. QED
  BY <1>2

\* An operation that met no mishap has not broken the function.
LEMMA EndNext == BaseInv /\ BaseInv' /\ RunInv /\ [Next]_allVars => EndInv'
<1> SUFFICES ASSUME BaseInv, BaseInv', RunInv, [Next]_allVars,
                    pc' \in {"detach", "idle"}, mishap' = {}, CanRun(began)'
             PROVE  CanRun(text)'
  BY DEF EndInv
<1>1. TypeOK /\ TypeOK' /\ ControlInv /\ TextInv /\ EndInv /\ word \in 0..Words
  BY DEF BaseInv, RunInv, TypeOK
<1>2. ASSUME UNCHANGED <<process, began>>, CanRun(began) => CanRun(text)
      PROVE  CanRun(text)'
  BY <1>1, <1>2, SameRuns DEF process
<1>3. CASE Recover
  <2>1. text' = began'
    BY <1>3 DEF Recover, Enter, process
  <2>. QED
    BY <1>1, <2>1, FoundRuns
<1>4. CASE TraceFails \/ MmapSliceFails \/ LocateFails \/ FindForRecover
  <2>1. UNCHANGED <<process, began>> /\ text = began
    BY <1>1, <1>4
    DEF TraceFails, MmapSliceFails, LocateFails, FindForRecover, TextInv, past, history
  <2>. QED
    BY <1>2, <2>1
<1>5. CASE Attached
  <2>1. UNCHANGED <<process, began, mishap>> /\ pc = "setvar" /\ todo = {}
    BY <1>5 DEF Attached, past, history, harms
  <2>2. CASE injected
    <3>1. linked[fakeEntry] = Var /\ JumpThere /\ fakeEntry \in mem
      BY <1>1, <2>1, <2>2 DEF TextInv, ControlInv, TypeOK
    <3>. QED
      BY <1>2, <2>1, <3>1, JumpRuns
  <2>3. CASE ~injected
    BY <1>1, <1>2, <2>1, <2>3 DEF TextInv
  <2>. QED
    BY <2>2, <2>3
<1>6. CASE ReWritten
  <2>1. UNCHANGED <<process, began, mishap>> /\ pc = "rewrite"
    BY <1>6 DEF ReWritten
  <2>2. CASE OriginFuncCode = NoCode
    <3>1. word = 0 /\ ~injected
      BY <1>1, <2>1, <2>2 DEF RunInv, FitInv, ControlInv
    <3>. QED
      BY <1>1, <1>2, <2>1, <3>1 DEF TextInv
  <2>3. CASE OriginFuncCode # NoCode
    <3>1. word = AlignedWords
      BY <1>6, <2>3 DEF ReWritten
    <3>. QED
      BY <1>2, <2>1, <2>3, <3>1, BackRuns
  <2>. QED
    BY <2>2, <2>3
<1>7. CASE ReWriteFails
  <2>1. UNCHANGED <<process, began>> /\ pc = "rewrite" /\ word = 0 /\ ~injected /\ mishap = {}
    BY <1>1, <1>7 DEF ReWriteFails, Met
  <2>. QED
    BY <1>1, <1>2, <2>1 DEF TextInv
<1>8. CASE Detach \/ NewFakeImage
  <2>1. UNCHANGED <<process, began, mishap>> /\ pc \in {"detach", "idle"}
    BY <1>8 DEF Detach, NewFakeImage, past, harms
  <2>. QED
    BY <1>1, <1>2, <2>1, SameRuns DEF EndInv, process
<1>9. CASE Exec
  <2>1. text' = OrigText /\ Goes(OrigText, 0) /\ Ready(0)'
    BY <1>9, WordFacts DEF Exec, Goes, Ready
  <2>. QED
    BY <2>1, CanRunNext, WordFacts
<1>10. CASE Crash
  <2>1. UNCHANGED <<process, began>> /\ pc # "idle" /\ ~Critical /\ mishap = {}
    BY <1>10 DEF Crash, Met
  <2>. QED
    BY <1>2, <2>1, Survives
<1>11. CASE UNCHANGED allVars
  <2>1. UNCHANGED <<process, began, mishap, pc>>
    BY <1>11 DEF allVars, history, past, harms
  <2>. QED
    BY <1>1, <1>2, <2>1, SameRuns DEF EndInv, process
<1>12. CASE \/ \E w \in [Var -> Value] : AttachToProcess(w)
            \/ FindInjectedImage \/ (\E a \in Addr : MmapSlice(a)) \/ Locate \/ JumpToFakeFunc
            \/ Injected \/ JumpFails \/ (\E v \in Var : SetVarUint64(v)) \/ ReWrite
  BY <1>12
  DEF AttachToProcess, FindInjectedImage, MmapSlice, Locate, JumpToFakeFunc, Injected, JumpFails,
      SetVarUint64, ReWrite
<1>13. CASE SetVarFails
  <2>1. UNCHANGED <<process, began>> /\ pc = "setvar" /\ ~injected
    BY <1>13 DEF SetVarFails, OnSetVarError, history, past
  <2>. QED
    BY <1>1, <1>2, <2>1 DEF TextInv
<1>. QED
  BY <1>3, <1>4, <1>5, <1>6, <1>7, <1>8, <1>9, <1>10, <1>11, <1>12, <1>13
  DEF Next, Attach, Undo, Around

\* At first nothing is under way.
LEMMA InitRun == Init => RunInv
<1> SUFFICES ASSUME Init PROVE RunInv
  OBVIOUS
<1>1. pc = "idle" /\ under = Nothing /\ text = OrigText /\ began = text
  BY DEF Init
<1>. QED
  BY <1>1 DEF RunInv, FoundInv, OriginInv, TextInv, FitInv, EndInv

\* The invariants of the function hold in every state.
LEMMA Running == Spec => []RunInv
<1>1. Init => RunInv
  BY InitRun
<1>2. BaseInv /\ BaseInv' /\ RunInv /\ [Next]_allVars => RunInv'
  BY FoundNext, OriginNext, TextNext, FitNext, EndNext DEF RunInv
<1>. QED
  BY <1>1, <1>2, Based, PTL DEF Spec

(***************************************************************************)
(* Outcomes                                                                *)
(***************************************************************************)

\* The function, as its target shows it.
Now == [view |-> ViewOf(Target(text)), under |-> under, entry |-> fakeEntry \in mem]

\* A function whose image is mapped.
Kept(v, u) == [view |-> v, under |-> u, entry |-> TRUE]

\* Where the view is replaced, ...
LEMMA ViewReplaced ==
  ASSUME NEW v, NEW u, NEW x
  PROVE  [Kept(v, u) EXCEPT !.view = x] = Kept(x, u)
<1>1. ASSUME NEW e
      PROVE  [[view |-> v, under |-> u, entry |-> e] EXCEPT !.view = x]
               = [view |-> x, under |-> u, entry |-> e]
  OBVIOUS
<1>. QED
  BY <1>1, Zenon DEF Kept

\* ... or the entry.
LEMMA EntryReplaced ==
  ASSUME NEW v, NEW u, NEW e, NEW x
  PROVE  [[view |-> v, under |-> u, entry |-> e] EXCEPT !.entry = x]
           = [view |-> v, under |-> u, entry |-> x]
  OBVIOUS

\* A failed attachment of a new image changes nothing but that it is mapped, ...
LEMMA FreshFailed ==
  ASSUME NEW v, NEW w
  PROVE  {Fresh(v), Kept(v, Nothing)} \subseteq AttachFailed(Fresh(v), w)
<1>1. /\ [Fresh(v) EXCEPT !.entry = FALSE] = Fresh(v)
      /\ [Fresh(v) EXCEPT !.entry = TRUE] = Kept(v, Nothing)
  BY EntryReplaced, Zenon DEF Fresh, Kept
<1>2. AttachFailed(Fresh(v), w) = {[Fresh(v) EXCEPT !.entry = x] : x \in BOOLEAN}
  BY DEF AttachFailed, Fresh
<1>. QED
  BY <1>1, <1>2

\* ... and that of an image attached before has set some of the variables.
LEMMA KeptFailed ==
  ASSUME NEW old, NEW u, NEW w, NEW v \in Halfway(Kept(old, u), w)
  PROVE  Kept(v, u) \in AttachFailed(Kept(old, u), w)
<1>1. [Kept(old, u) EXCEPT !.view = v] = Kept(v, u)
  BY ViewReplaced
<1>2. AttachFailed(Kept(old, u), w) =
        {[Kept(old, u) EXCEPT !.view = x] : x \in Halfway(Kept(old, u), w)}
  BY DEF AttachFailed, Kept
<1>. QED
  BY <1>1, <1>2

\* What a finished operation leaves.
LEMMA Outcomes ==
  ASSUME NEW old, NEW u, NEW w
  PROVE  /\ AttachDone(Fresh(old), w) = Kept(Faked(w), old)
         /\ RecoverDone(Fresh(old)) = Fresh(old)
         /\ AttachDone(Kept(old, Nothing), w) = Kept(old, Nothing)
         /\ RecoverDone(Kept(old, Nothing)) = Kept(old, Nothing)
         /\ u # Nothing => /\ AttachDone(Kept(old, u), w) = Kept(Faked(w), u)
                           /\ RecoverDone(Kept(old, u)) = Kept(u, Nothing)
<1>1. AttachDone(Fresh(old), w) = Kept(Faked(w), old) /\ RecoverDone(Fresh(old)) = Fresh(old)
  BY DEF Fresh, AttachDone, RecoverDone, Kept
<1>2. AttachDone(Kept(old, Nothing), w) = Kept(old, Nothing)
  BY DEF AttachDone, Kept
<1>3. RecoverDone(Kept(old, Nothing)) = Kept(old, Nothing)
  BY DEF RecoverDone, Kept
<1>4. ASSUME u # Nothing
      PROVE  /\ AttachDone(Kept(old, u), w) = Kept(Faked(w), u)
             /\ RecoverDone(Kept(old, u)) = Kept(u, Nothing)
  BY <1>4 DEF AttachDone, RecoverDone, Kept
<1>. QED
  BY <1>1, <1>2, <1>3, <1>4

\* Between two settings lie those that have every variable from the one or the other.
LEMMA Betweens ==
  ASSUME NEW s \in Settings, NEW old, NEW new, \A v \in Var : s[v] = old[v] \/ s[v] = new[v]
  PROVE  Faked(s) \in Between(old, new)
  BY DEF Between

\* What a call runs after an attachment, ...
LEMMA DoneView ==
  ASSUME NEW i \in Image, NEW w \in Settings
  PROVE  AttachDone(i, w).view \in Halfway(i, w)
<1>1. i.entry \in BOOLEAN /\ i.view \in Views
  BY DEF Image
<1>2. CASE ~i.entry
  <2>1. AttachDone(i, w).view = Faked(w) /\ Halfway(i, w) = Between(Zero, w)
    BY <1>2 DEF AttachDone, Halfway
  <2>. QED
    BY <2>1, Betweens
<1>3. CASE i.entry /\ i.under # Nothing
  <2>1. AttachDone(i, w) = [i EXCEPT !.view = Faked(w)] /\ Halfway(i, w) = Between(i.view.vars, w)
    BY <1>3 DEF AttachDone, Halfway
  <2>2. AttachDone(i, w).view = Faked(w)
    BY <2>1 DEF Image
  <2>. QED
    BY <2>1, <2>2, Betweens
<1>4. CASE i.entry /\ i.under = Nothing
  <2>1. AttachDone(i, w) = i /\ Halfway(i, w) = {i.view}
    BY <1>4 DEF AttachDone, Halfway
  <2>. QED
    BY <2>1
<1>. QED
  BY <1>1, <1>2, <1>3, <1>4

\* ... and after one that failed.
LEMMA FailedView ==
  ASSUME NEW i \in Image, NEW w, NEW j \in AttachFailed(i, w)
  PROVE  j.view = i.view \/ j.view \in Halfway(i, w)
<1>1. CASE i.entry
  <2>1. PICK v \in Halfway(i, w) : j = [i EXCEPT !.view = v]
    BY <1>1 DEF AttachFailed
  <2>. QED
    BY <2>1 DEF Image
<1>2. CASE ~i.entry
  <2>1. PICK e \in BOOLEAN : j = [i EXCEPT !.entry = e]
    BY <1>2 DEF AttachFailed
  <2>. QED
    BY <2>1 DEF Image
<1>. QED
  BY <1>1, <1>2

(***************************************************************************)
(* The function until the first mishap                                     *)
(***************************************************************************)

\* It goes to the kernel or to an image that is ready, ...
Fit(t) == Goes(t, Target(t)) /\ Ready(Target(t))

\* ... and so does the code that Recover writes back, but to another image.
CodeInv ==
  /\ Code(OriginFuncCode, Target(OriginFuncCode)) /\ Ready(Target(OriginFuncCode))
  /\ Target(OriginFuncCode) # fakeEntry /\ under = ViewOf(Target(OriginFuncCode))

\* The function where no operation is replacing it.
SteadyInv ==
  /\ Fit(text)
  /\ under # Nothing => Target(text) = fakeEntry /\ CodeInv
  /\ under = Nothing /\ fakeEntry \in mem => Target(text) # fakeEntry

\* Nothing has happened yet in the operation.
FindInv == SteadyInv /\ Now = before

\* There is a new image that nothing jumps to.
NewInv ==
  /\ Fit(began) /\ Target(began) # fakeEntry
  /\ vars[fakeEntry] = Zero
  /\ before = Fresh(ViewOf(Target(began)))

\* The function jumps to the new image, whose variables are being set.
InjectedInv ==
  /\ CodeInv /\ before = Fresh(under)
  /\ \A v \in Var : vars[fakeEntry][v] = IF v \in todo THEN 0 ELSE want[v]

\* The variables of an image are being set that was there before.
AgainInv ==
  /\ before.entry /\ SteadyInv
  /\ under = Nothing => Now = before
  /\ under # Nothing =>
       /\ before.under = under /\ before.view = Faked(before.view.vars)
       /\ \A v \in Var :
            vars[fakeEntry][v] = IF v \in todo THEN before.view.vars[v] ELSE want[v]

\* Recover is bringing back what the function was.
RecoverInv ==
  /\ word = 0 => FindInv
  /\ under # Nothing => CodeInv /\ before = Kept(ViewOf(fakeEntry), under)

\* The outcome is one that ImageOutcome allows.
DetachInv ==
  /\ SteadyInv
  /\ op = "attach" /\ ~err => Now = AttachDone(before, want)
  /\ op = "attach" /\ err => Now \in AttachFailed(before, want)
  /\ op = "recover" /\ ~err => Now = RecoverDone(before)
  /\ op = "recover" /\ err => Now = before

PcInv ==
  /\ pc # "idle" => before \in Image
  /\ pc = "idle" => SteadyInv
  /\ pc \in {"find", "mmap"} => FindInv
  /\ pc \in {"locate", "jump"} => NewInv
  /\ pc = "jump" => funcBytes = SliceOf(began)
  /\ pc \in {"setvar", "rewrite"} /\ injected => InjectedInv
  /\ pc = "setvar" /\ ~injected => AgainInv
  /\ pc = "rewrite" /\ ~injected => IF op = "attach" THEN NewInv ELSE RecoverInv
  /\ pc = "detach" => DetachInv

\* The function that an operation found could run.
FineInv == ~Harmed => IF pc = "idle" THEN CanRun(text) ELSE CanRun(began)

IInv == BaseInv /\ RunInv /\ FineInv /\ (~Harmed => PcInv)

\* A function can run if it is fit.
LEMMA FitRuns ==
  ASSUME NEW t \in Text
  PROVE  CanRun(t) <=> Fit(t)
<1>1. Target(t) \in Addr \cup {0}
  BY Sizes DEF Text, WordType, Target
<1>. QED
  BY <1>1, CanRunGoes, GoesTarget DEF Fit

\* The words of a function that is fit show what its target is.
LEMMA FitViewed == BaseInv /\ Fit(text) => Present = Now /\ (under \in Views \cup {Nothing} => Now \in Image)
<1> SUFFICES ASSUME BaseInv, Fit(text)
             PROVE  Present = Now /\ (under \in Views \cup {Nothing} => Now \in Image)
  OBVIOUS
<1>1. text \in Text /\ Target(text) \in Addr \cup {0}
  BY Sizes DEF BaseInv, TypeOK, Text, WordType, Target
<1>2. View(text) = ViewOf(Target(text)) /\ ViewOf(Target(text)) \in Views
  BY <1>1, Viewed, ViewOfType DEF Fit, BaseInv
<1>3. (fakeEntry \in mem) \in BOOLEAN
  OBVIOUS
<1>. QED
  BY <1>2, <1>3 DEF Present, Now, Image

\* The same after a step.
LEMMA FitViewedNext ==
  (BaseInv /\ Fit(text) => Present = Now /\ (under \in Views \cup {Nothing} => Now \in Image))'
  BY FitViewed, PTL

\* What Recover writes back is a view.
LEMMA UnderView == BaseInv /\ SteadyInv => under \in Views \cup {Nothing}
<1> SUFFICES ASSUME BaseInv, SteadyInv, under # Nothing PROVE under \in Views
  OBVIOUS
<1>1. Target(OriginFuncCode) \in Addr \cup {0}
  BY DEF SteadyInv, CodeInv, Code
<1>. QED
  BY <1>1, ViewOfType DEF SteadyInv, CodeInv, BaseInv

\* What is not touched stays steady.
LEMMA Untouched ==
  ASSUME UNCHANGED <<process, image, under>>
  PROVE  /\ SteadyInv' <=> SteadyInv
         /\ CodeInv' <=> CodeInv
         /\ Now' = Now /\ \A a : ViewOf(a)' = ViewOf(a) /\ (Ready(a)' <=> Ready(a))
<1>1. \A a : ViewOf(a)' = ViewOf(a) /\ (Ready(a)' <=> Ready(a))
  BY DEF ViewOf, Ready, Runs, process
<1>. QED
  BY <1>1 DEF SteadyInv, CodeInv, Fit, Now, Target, ViewOf, Ready, Runs, process, image

\* Harm stays until exec.
LEMMA HarmStays == [Next]_allVars /\ ~Exec /\ ~Harmed' => ~Harmed
<1> SUFFICES ASSUME [Next]_allVars, ~Exec, Harmed PROVE Harmed'
  OBVIOUS
<1>1. CASE Recover \/ \E w \in [Var -> Value] : AttachToProcess(w)
  BY <1>1 DEF Recover, AttachToProcess, Enter, Harmed
<1>2. CASE UNCHANGED <<mishap, harm>>
  BY <1>2 DEF Harmed
<1>3. CASE JumpFails \/ ReWrite \/ ReWriteFails \/ Crash
  BY <1>3 DEF JumpFails, ReWrite, ReWriteFails, Crash, Met, Harmed
<1>4. CASE TraceFails \/ Detach \/ NewFakeImage \/ UNCHANGED allVars
  BY <1>2, <1>4 DEF TraceFails, Detach, NewFakeImage, allVars, history, past, harms
<1>5. CASE FindForRecover \/ ReWritten
  BY <1>2, <1>5 DEF FindForRecover, ReWritten, history, past, harms
<1>6. CASE \/ FindInjectedImage \/ MmapSliceFails \/ \E a \in Addr : MmapSlice(a)
           \/ Locate \/ LocateFails \/ JumpToFakeFunc \/ Injected
           \/ SetVarFails \/ Attached \/ \E v \in Var : SetVarUint64(v)
  BY <1>2, <1>6
  DEF FindInjectedImage, MmapSliceFails, MmapSlice, Locate, LocateFails, JumpToFakeFunc, Injected,
      SetVarFails, Attached, SetVarUint64, history, past, harms
<1>. QED
  BY <1>1, <1>3, <1>4, <1>5, <1>6 DEF Next, Attach, Undo, Around

(***************************************************************************)
(* The steps of AttachToProcess                                            *)
(***************************************************************************)

\* An operation begins with what it finds.
LEMMA BeginNext ==
  ASSUME IInv, ~Harmed, Recover \/ \E w \in [Var -> Value] : AttachToProcess(w)
  PROVE  PcInv'
<1>1. SteadyInv /\ BaseInv /\ pc = "idle"
  BY DEF IInv, PcInv, Recover, AttachToProcess
<1>2. Present = Now /\ Now \in Image
  BY <1>1, FitViewed, UnderView DEF SteadyInv
<1>3. UNCHANGED <<process, image, under>> /\ before' = Now /\ ~err'
  BY <1>2 DEF AttachToProcess, Recover, Enter
<1>4. SteadyInv' /\ Now' = before' /\ before' \in Image
  BY <1>1, <1>2, <1>3, Untouched
<1>5. CASE pc' = "find"
  BY <1>4, <1>5 DEF PcInv, FindInv
<1>6. CASE pc' = "detach"
  <2>1. op' = "recover" /\ OriginFuncCode = NoCode
    BY <1>6 DEF AttachToProcess, Recover, Enter
  <2>2. under' = Nothing /\ before'.under = under'
    BY <1>1, <1>3, <2>1 DEF BaseInv, ControlInv, Now
  <2>3. RecoverDone(before') = before'
    BY <2>2 DEF RecoverDone
  <2>. QED
    BY <1>3, <1>4, <1>6, <2>1, <2>3 DEF PcInv, DetachInv
<1>. QED
  BY <1>5, <1>6 DEF AttachToProcess, Recover

\* The image of this FakeImage is there, or it is not.
LEMMA FindNext ==
  ASSUME IInv, ~Harmed, FindInjectedImage
  PROVE  PcInv'
<1>1. /\ FindInv /\ SteadyInv /\ Now = before /\ before \in Image /\ BaseInv /\ ~injected
      /\ fakeEntry \in mem => fakeEntry # 0
  BY AddrAssumption
  DEF IInv, PcInv, FindInv, FindInjectedImage, BaseInv, ControlInv, TypeOK
<1>2. UNCHANGED <<process, image, under, before, op, want, err, injected>>
  BY DEF FindInjectedImage, history, past
<1>3. SteadyInv' /\ Now' = before' /\ before' \in Image
  BY <1>1, <1>2, Untouched
<1>4. CASE Found
  <2>1. pc' = "setvar" /\ todo' = Var /\ fakeEntry' \in mem' /\ fakeEntry' # 0
    BY <1>1, <1>2, <1>4 DEF FindInjectedImage, Found, process, image
  <2>2. before'.entry /\ before'.under = under'
    BY <1>3, <2>1 DEF Now
  <2>3. under' # Nothing => before'.view = Faked(vars'[fakeEntry'])
    BY <1>3, <2>1 DEF Now, SteadyInv, ViewOf
  <2>4. Faked(vars'[fakeEntry']).vars = vars'[fakeEntry']
    BY DEF Faked
  <2>5. AgainInv'
    BY <1>3, <2>1, <2>2, <2>3, <2>4 DEF AgainInv
  <2>. QED
    BY <1>1, <1>2, <1>3, <2>1, <2>5 DEF PcInv
<1>5. CASE ~Found
  BY <1>3, <1>5 DEF FindInjectedImage, PcInv, FindInv
<1>. QED
  BY <1>4, <1>5

\* Nothing is left by an attachment that fails before the image is mapped.
LEMMA MmapFailsNext ==
  ASSUME IInv, ~Harmed, MmapSliceFails
  PROVE  PcInv'
<1>1. /\ SteadyInv /\ Now = before /\ before \in Image
      /\ (fakeEntry \in mem) = FALSE /\ under = Nothing /\ op = "attach"
  BY DEF IInv, PcInv, FindInv, MmapSliceFails, BaseInv, ControlInv
<1>2. UNCHANGED <<process, image, under, before, op, want>> /\ pc' = "detach" /\ err'
  BY DEF MmapSliceFails, Leave, history, past
<1>3. SteadyInv' /\ Now' = before' /\ before' \in Image
  BY <1>1, <1>2, Untouched
<1>4. Now = Fresh(ViewOf(Target(text)))
  BY <1>1 DEF Now, Fresh
<1>5. before \in AttachFailed(before, want)
  BY <1>1, <1>4, FreshFailed
<1>. QED
  BY <1>1, <1>2, <1>3, <1>5 DEF PcInv, DetachInv

\* Where the new image is, nothing was: nothing jumps to it yet.
LEMMA MmapNext ==
  ASSUME IInv, ~Harmed, NEW a \in Addr, MmapSlice(a)
  PROVE  PcInv'
<1> DEFINE t == Target(text)
<1>1. /\ SteadyInv /\ Now = before /\ before \in Image /\ TypeOK /\ text = began
      /\ (fakeEntry \in mem) = FALSE /\ under = Nothing
  BY DEF IInv, PcInv, FindInv, MmapSlice, BaseInv, ControlInv, RunInv, TextInv
<1>2. /\ a \notin mem /\ a # 0 /\ fakeEntry' = a /\ mem' = mem \cup {a}
      /\ vars' = [vars EXCEPT ![a] = Zero] /\ linked' = [linked EXCEPT ![a] = {}]
      /\ pc' = "locate"
      /\ UNCHANGED <<text, before, began>>
  BY AddrAssumption DEF MmapSlice, locals, history, past
<1>3. Goes(text, t) /\ Ready(t) /\ (t = 0 \/ (t \in Addr /\ t \in mem))
  BY <1>1 DEF SteadyInv, Fit, Ready, Runs, TypeOK
<1>4. t # a /\ (t # 0 => vars'[t] = vars[t] /\ linked'[t] = linked[t])
  BY <1>1, <1>2, <1>3 DEF TypeOK
<1>5. Ready(t)' /\ ViewOf(t)' = ViewOf(t)
  BY <1>2, <1>3, <1>4 DEF Ready, Runs, ViewOf, Target
<1>6. Fit(began)' /\ Target(began)' # fakeEntry'
  BY <1>1, <1>2, <1>3, <1>4, <1>5 DEF Fit, Target, Ready, Runs
<1>7. before = Fresh(ViewOf(t))
  BY <1>1 DEF Now, Fresh
<1>8. (before = Fresh(ViewOf(Target(began))))'
  BY <1>1, <1>2, <1>5, <1>7 DEF Fresh, Target, ViewOf
<1>9. vars'[fakeEntry'] = Zero
  BY <1>1, <1>2 DEF TypeOK
<1>10. NewInv'
  BY <1>6, <1>8, <1>9 DEF NewInv
<1>. QED
  BY <1>1, <1>2, <1>10 DEF PcInv

\* A new image that nothing jumps to does not change.
LEMMA NewStays ==
  ASSUME UNCHANGED <<mem, vars, linked, fakeEntry, began, before>>, NewInv
  PROVE  NewInv'
BY DEF NewInv, Fit, Target, Ready, Runs, ViewOf, Fresh

\* The image is left where nothing was written.
LEMMA NewLeft ==
  ASSUME UNCHANGED <<process, fakeEntry, began, before, op, want>>, BaseInv, NewInv, text = began,
         before \in Image, pc' = "detach", err', op = "attach", fakeEntry \in mem, under' = Nothing
  PROVE  PcInv'
<1>1. NewInv' /\ text' = began' /\ (fakeEntry \in mem)' = TRUE
  BY NewStays DEF process
<1>2. SteadyInv'
  BY <1>1 DEF NewInv, SteadyInv, Fit, Ready, Runs, Target
<1>3. Now' = Kept(ViewOf(Target(began))', Nothing)
  BY <1>1 DEF Now, Kept, ViewOf, Target
<1>4. Now' \in AttachFailed(before', want')
  BY <1>1, <1>3, FreshFailed DEF NewInv
<1>. QED
  BY <1>2, <1>4 DEF PcInv, DetachInv

\* The function has been read, or the new image is left behind.
LEMMA LocateNext ==
  ASSUME IInv, ~Harmed, Locate \/ LocateFails
  PROVE  PcInv'
<1>1. /\ NewInv /\ before \in Image /\ text = began /\ BaseInv
      /\ op = "attach" /\ fakeEntry \in mem /\ under = Nothing
  BY DEF IInv, PcInv, Locate, LocateFails, BaseInv, ControlInv, RunInv, TextInv
<1>2. UNCHANGED <<process, image, under, before, began, op, want>>
  BY DEF Locate, LocateFails, Leave, history, past
<1>3. CASE Locate
  <2>1. pc' = "jump" /\ funcBytes' = SliceOf(began')
    BY <1>1, <1>2, <1>3 DEF Locate
  <2>. QED
    BY <1>1, <1>2, <2>1, NewStays DEF PcInv, process, image
<1>4. CASE LocateFails
  <2>1. pc' = "detach" /\ err'
    BY <1>4 DEF LocateFails, Leave
  <2>. QED
    BY <1>1, <1>2, <2>1, NewLeft DEF image
<1>. QED
  BY <1>3, <1>4

\* The jump is being written, or nothing could be.
LEMMA JumpNext ==
  ASSUME IInv, ~Harmed, JumpToFakeFunc \/ JumpFails
  PROVE  PcInv'
<1>1. /\ NewInv /\ before \in Image /\ op = "attach" /\ ~injected
      /\ funcBytes = SliceOf(began)
  BY DEF IInv, PcInv, JumpToFakeFunc, JumpFails, BaseInv, ControlInv
<1>2. /\ UNCHANGED <<mem, vars, linked, fakeEntry, before, began, op, injected, funcBytes>>
      /\ pc' \in {"jump", "rewrite"}
  BY DEF JumpToFakeFunc, JumpFails, process, image, history, past
<1>. QED
  BY <1>1, <1>2, NewStays DEF PcInv

\* From here on Recover can bring back what the function was.
LEMMA InjectedNext ==
  ASSUME IInv, ~Harmed, Injected
  PROVE  PcInv'
<1>1. NewInv /\ before \in Image /\ BaseInv /\ funcBytes = SliceOf(began) /\ began \in Text
  BY DEF IInv, PcInv, Injected, BaseInv, TypeOK, Text
<1>2. /\ UNCHANGED <<process, fakeEntry, before, began, op, want>>
      /\ OriginFuncCode' = SliceOf(began) /\ injected'
      /\ under' = before.view /\ pc' = "setvar" /\ todo' = Var
  BY <1>1 DEF Injected, SavedCode
<1>3. Code(SliceOf(began), Target(began)) /\ Target(SliceOf(began)) = Target(began)
  BY <1>1, Saved, SliceType, Sizes DEF NewInv, Fit, Target
<1>4. before.view = ViewOf(Target(began)) /\ before = Fresh(before.view)
  BY <1>1 DEF NewInv, Fresh
<1>5. CodeInv'
  <2>1. Target(OriginFuncCode') = Target(began)
    BY <1>2, <1>3
  <2>2. Ready(Target(began))' /\ ViewOf(Target(began))' = ViewOf(Target(began))
    BY <1>1, <1>2 DEF NewInv, Fit, Ready, Runs, ViewOf, Target, process
  <2>. QED
    BY <1>1, <1>2, <1>3, <1>4, <2>1, <2>2 DEF CodeInv, NewInv, Target, Ready, Runs, ViewOf
<1>6. (\A v \in Var : vars[fakeEntry][v] = IF v \in todo THEN 0 ELSE want[v])'
  BY <1>1, <1>2 DEF NewInv, Zero, process
<1>7. InjectedInv'
  BY <1>2, <1>4, <1>5, <1>6 DEF InjectedInv, Fresh
<1>. QED
  BY <1>1, <1>2, <1>7 DEF PcInv

\* Setting a variable touches no image but that of this FakeImage.
LEMMA SetVarNext ==
  ASSUME IInv, ~Harmed, NEW v \in Var, SetVarUint64(v)
  PROVE  PcInv'
<1> DEFINE f == fakeEntry
<1>1. /\ TypeOK /\ f \in mem /\ f \in Addr /\ f # 0 /\ BaseInv /\ before \in Image
      /\ IF injected THEN InjectedInv ELSE AgainInv
  BY AddrAssumption DEF IInv, PcInv, SetVarUint64, BaseInv, ControlInv, TypeOK
<1>2. /\ UNCHANGED <<text, mem, image, under, before, began, op, want, injected>>
      /\ vars' = [vars EXCEPT ![f][v] = want[v]] /\ linked' = [linked EXCEPT ![f] = @ \cup {v}]
      /\ todo' = todo \ {v} /\ pc' = "setvar"
  BY DEF SetVarUint64, Stored, history, past
<1>3. \A a : a # f => (Ready(a) => Ready(a)') /\ ViewOf(a)' = ViewOf(a)
  BY <1>1, <1>2 DEF Ready, Runs, ViewOf, TypeOK
<1>4. Ready(f) => Ready(f)'
  <2>1. linked'[f] = linked[f] \cup {v}
    BY <1>1, <1>2 DEF TypeOK
  <2>2. linked[f] = Var => linked'[f] = Var
    BY <2>1
  <2>. QED
    BY <1>1, <1>2, <2>2 DEF Ready, Runs, image
<1>5. CodeInv => CodeInv'
  <2>1. SUFFICES ASSUME CodeInv PROVE CodeInv'
    OBVIOUS
  <2>2. Ready(Target(OriginFuncCode))' /\ ViewOf(Target(OriginFuncCode))' = ViewOf(Target(OriginFuncCode))
    BY <1>2, <1>3, <2>1 DEF CodeInv, image, Target, Ready, Runs, ViewOf
  <2>. QED
    BY <1>2, <2>1, <2>2 DEF CodeInv, image, Target, Ready, Runs, ViewOf
<1>6. vars'[f][v] = want[v] /\ (\A x \in Var \ {v} : vars'[f][x] = vars[f][x])
  BY <1>1, <1>2 DEF TypeOK
<1>7. ASSUME injected
      PROVE  InjectedInv'
  <2>1. (\A x \in Var : vars[fakeEntry][x] = IF x \in todo THEN 0 ELSE want[x])'
    BY <1>1, <1>2, <1>6, <1>7 DEF InjectedInv, image
  <2>. QED
    BY <1>1, <1>2, <1>5, <1>7, <2>1 DEF InjectedInv, Fresh
<1>8. ASSUME ~injected
      PROVE  AgainInv'
  <2>1. AgainInv /\ SteadyInv
    BY <1>1, <1>8 DEF AgainInv
  <2>2. Fit(text)'
    BY <1>2, <1>3, <1>4, <2>1 DEF SteadyInv, Fit, Target, Ready, Runs
  <2>3. SteadyInv'
    BY <1>1, <1>2, <1>5, <2>1, <2>2 DEF SteadyInv, Target, image
  <2>4. (under = Nothing => Now = before)'
    BY <1>1, <1>2, <1>3, <2>1 DEF AgainInv, SteadyInv, Now, ViewOf, Target, image
  <2>5. (under # Nothing =>
           /\ before.under = under /\ before.view = Faked(before.view.vars)
           /\ \A x \in Var :
                vars[fakeEntry][x] = IF x \in todo THEN before.view.vars[x] ELSE want[x])'
    BY <1>2, <1>6, <2>1 DEF AgainInv, image
  <2>. QED
    BY <1>2, <2>1, <2>3, <2>4, <2>5 DEF AgainInv
<1>. QED
  BY <1>1, <1>2, <1>7, <1>8 DEF PcInv

\* The view of a function some of whose variables have been set.
LEMMA HalfwayInv ==
  ASSUME BaseInv, fakeEntry \in mem, before \in Image
  PROVE  /\ InjectedInv => Faked(vars[fakeEntry]) \in Halfway(before, want)
         /\ AgainInv => /\ Now.view \in Halfway(before, want)
                        /\ before = Kept(before.view, under) /\ Now = Kept(Now.view, under)
<1>1. fakeEntry \in Addr /\ fakeEntry # 0 /\ (fakeEntry \in mem) = TRUE
  BY AddrAssumption DEF BaseInv, TypeOK
<1>2. vars[fakeEntry] \in Settings
  BY <1>1 DEF BaseInv, TypeOK, Settings
<1>3. Now = Kept(Now.view, under)
  BY <1>1 DEF Now, Kept
<1>4. ASSUME InjectedInv PROVE Faked(vars[fakeEntry]) \in Halfway(before, want)
  <2>1. Halfway(before, want) = Between(Zero, want)
    BY <1>4 DEF InjectedInv, Halfway, Fresh
  <2>2. \A v \in Var : vars[fakeEntry][v] = Zero[v] \/ vars[fakeEntry][v] = want[v]
    BY <1>4 DEF InjectedInv, Zero
  <2>. QED
    BY <1>2, <2>1, <2>2, Betweens
<1>5. ASSUME AgainInv PROVE Now.view \in Halfway(before, want) /\ before = Kept(before.view, under)
  <2>1. CASE under = Nothing
    <3>1. Now = before
      BY <1>5, <2>1 DEF AgainInv
    <3>2. Halfway(before, want) = {before.view}
      BY <1>3, <2>1, <3>1 DEF Halfway, Kept
    <3>. QED
      BY <1>3, <3>1, <3>2
  <2>2. CASE under # Nothing
    <3>1. before.entry = TRUE /\ before.under = under
      BY <1>5, <2>2 DEF AgainInv, Image
    <3>2. before = Kept(before.view, under)
      BY <3>1 DEF Kept, Image
    <3>3. Halfway(before, want) = Between(before.view.vars, want)
      BY <2>2, <3>1 DEF Halfway
    <3>4. \A v \in Var : vars[fakeEntry][v] = before.view.vars[v] \/ vars[fakeEntry][v] = want[v]
      BY <1>5, <2>2 DEF AgainInv
    <3>5. Now.view = Faked(vars[fakeEntry])
      BY <1>1, <1>5, <2>2 DEF AgainInv, SteadyInv, Now, ViewOf
    <3>. QED
      BY <1>2, <3>2, <3>3, <3>4, <3>5, Betweens
  <2>. QED
    BY <2>1, <2>2
<1>. QED
  BY <1>3, <1>4, <1>5

\* The last variable is set.
LEMMA AttachedNext ==
  ASSUME IInv, ~Harmed, Attached
  PROVE  PcInv'
<1>1. /\ BaseInv /\ TypeOK /\ fakeEntry \in mem /\ fakeEntry \in Addr /\ fakeEntry # 0
      /\ before \in Image /\ op = "attach" /\ todo = {} /\ TextInv /\ pc = "setvar"
      /\ IF injected THEN InjectedInv /\ under # Nothing ELSE AgainInv
      /\ (fakeEntry \in mem) = TRUE
  BY AddrAssumption DEF IInv, PcInv, Attached, BaseInv, ControlInv, TypeOK, RunInv
<1>2. UNCHANGED <<process, image, under, before, op, want>> /\ pc' = "detach" /\ ~err'
  BY DEF Attached, Leave, history, past
<1>3. ASSUME SteadyInv, Now = AttachDone(before, want) PROVE PcInv'
  BY <1>1, <1>2, <1>3, Untouched DEF PcInv, DetachInv
<1>4. CASE injected
  <2>1. vars[fakeEntry] = want
    BY <1>1, <1>4 DEF InjectedInv, TypeOK
  <2>2. linked[fakeEntry] = Var /\ JumpThere
    BY <1>1, <1>4 DEF TextInv, TypeOK
  <2>3. Goes(text, fakeEntry) /\ Ready(fakeEntry)
    BY <1>1, <2>2, JumpWritten DEF JumpThere, Ready, Runs
  <2>4. Target(text) = fakeEntry
    BY <1>1, <2>2, WordFacts DEF JumpThere, Target
  <2>5. SteadyInv
    BY <1>1, <1>4, <2>3, <2>4 DEF SteadyInv, Fit, InjectedInv
  <2>6. Now = Kept(Faked(want), under)
    BY <1>1, <2>1, <2>4 DEF Now, Kept, ViewOf
  <2>7. AttachDone(before, want) = Kept(Faked(want), under)
    BY <1>1, <1>4, Outcomes DEF InjectedInv
  <2>. QED
    BY <1>3, <2>5, <2>6, <2>7
<1>5. CASE ~injected
  <2>1. before = Kept(before.view, under) /\ Now = Kept(Now.view, under) /\ SteadyInv
    BY <1>1, <1>5, HalfwayInv DEF AgainInv
  <2>2. CASE under = Nothing
    <3>1. AttachDone(Kept(before.view, Nothing), want) = Kept(before.view, Nothing)
      BY Outcomes
    <3>. QED
      BY <1>1, <1>3, <1>5, <2>1, <2>2, <3>1 DEF AgainInv
  <2>3. CASE under # Nothing
    <3>1. vars[fakeEntry] = want
      BY <1>1, <1>5, <2>3 DEF AgainInv, TypeOK
    <3>2. Now.view = Faked(want)
      BY <1>1, <2>1, <2>3, <3>1 DEF SteadyInv, Now, ViewOf
    <3>3. AttachDone(Kept(before.view, under), want) = Kept(Faked(want), under)
      BY <2>3, Outcomes
    <3>. QED
      BY <1>3, <2>1, <3>2, <3>3
  <2>. QED
    BY <2>2, <2>3
<1>. QED
  BY <1>4, <1>5

\* A variable cannot be set.
LEMMA SetVarFailsNext ==
  ASSUME IInv, ~Harmed, SetVarFails
  PROVE  PcInv'
<1>1. /\ BaseInv /\ fakeEntry \in mem /\ before \in Image /\ op = "attach"
      /\ IF injected THEN InjectedInv ELSE AgainInv
  BY DEF IInv, PcInv, SetVarFails, BaseInv, ControlInv
<1>2. UNCHANGED <<process, image, under, before, op, want, todo, injected>> /\ err'
  BY DEF SetVarFails, history, past
<1>3. CASE injected
  <2>1. pc' = "rewrite"
    BY <1>3 DEF SetVarFails, OnSetVarError
  <2>2. CodeInv'
    BY <1>1, <1>2, <1>3, Untouched DEF InjectedInv
  <2>3. InjectedInv'
    BY <1>1, <1>2, <1>3, <2>2 DEF InjectedInv, Fresh, process, image
  <2>. QED
    BY <1>1, <1>2, <1>3, <2>1, <2>3 DEF PcInv
<1>4. CASE ~injected
  <2>1. pc' = "detach" /\ SteadyInv
    BY <1>1, <1>4 DEF SetVarFails, OnSetVarError, AgainInv
  <2>2. /\ before = Kept(before.view, under) /\ Now = Kept(Now.view, under)
        /\ Now.view \in Halfway(before, want)
    BY <1>1, <1>4, HalfwayInv
  <2>3. Kept(Now.view, under) \in AttachFailed(Kept(before.view, under), want)
    BY <2>2, KeptFailed
  <2>4. Now \in AttachFailed(before, want)
    BY <2>2, <2>3
  <2>. QED
    BY <1>1, <1>2, <2>1, <2>4, Untouched DEF PcInv, DetachInv
<1>. QED
  BY <1>3, <1>4

(***************************************************************************)
(* The steps of Recover and TryReWriteFakeImage                            *)
(***************************************************************************)

\* Where the image is still there, Recover has something to bring back.
LEMMA FindForRecoverNext ==
  ASSUME IInv, ~Harmed, FindForRecover
  PROVE  PcInv'
<1>1. /\ BaseInv /\ FindInv /\ SteadyInv /\ Now = before /\ before \in Image /\ op = "recover"
      /\ ~err /\ ~injected
      /\ fakeEntry \in mem => fakeEntry # 0
      /\ under # Nothing => fakeEntry \in mem
  BY AddrAssumption DEF IInv, PcInv, FindInv, FindForRecover, BaseInv, ControlInv, TypeOK
<1>2. UNCHANGED <<process, image, under, before, op, want, err, injected>>
  BY DEF FindForRecover, history, past
<1>3. SteadyInv' /\ Now' = before' /\ before' \in Image
  BY <1>1, <1>2, Untouched
<1>4. CASE Found
  <2>1. pc' = "rewrite" /\ word' = 0 /\ (fakeEntry \in mem) = TRUE
    BY <1>4 DEF FindForRecover, Found
  <2>2. under # Nothing => CodeInv /\ before = Kept(ViewOf(fakeEntry), under)
    BY <1>1, <2>1 DEF SteadyInv, Now, Kept
  <2>3. (under # Nothing => CodeInv /\ before = Kept(ViewOf(fakeEntry), under))'
    BY <1>2, <2>2, Untouched DEF image
  <2>4. RecoverInv'
    BY <1>3, <2>1, <2>3 DEF RecoverInv, FindInv
  <2>. QED
    BY <1>1, <1>2, <1>3, <2>1, <2>4 DEF PcInv
<1>5. CASE ~Found
  <2>1. pc' = "detach" /\ (fakeEntry \in mem) = FALSE /\ under = Nothing
    BY <1>1, <1>5 DEF FindForRecover, Found
  <2>2. before = Fresh(before.view)
    BY <1>1, <2>1 DEF Now, Fresh
  <2>3. RecoverDone(Fresh(before.view)) = Fresh(before.view)
    BY Outcomes
  <2>4. RecoverDone(before) = before
    BY <2>2, <2>3
  <2>. QED
    BY <1>1, <1>2, <1>3, <2>1, <2>4 DEF PcInv, DetachInv
<1>. QED
  BY <1>4, <1>5

\* A word is written that was read where it is written.
LEMMA ReWriteNext ==
  ASSUME IInv, ~Harmed, ReWrite, ~Harmed'
  PROVE  PcInv'
<1>1. /\ BaseInv /\ before \in Image /\ under # Nothing /\ word \in 0..Words /\ pc = "rewrite"
  BY DEF IInv, PcInv, ReWrite, StaleCode, BaseInv, TypeOK, Harmed
<1>2. /\ UNCHANGED <<base, mem, vars, linked, image, under, before, op, want, todo, injected>>
      /\ word' # 0 /\ pc' = "rewrite"
  BY <1>1 DEF ReWrite
<1>3. CodeInv' <=> CodeInv
  BY <1>2 DEF CodeInv, Ready, Runs, ViewOf, Target, image
<1>4. CASE injected
  <2>1. InjectedInv
    BY <1>1, <1>4 DEF IInv, PcInv
  <2>2. InjectedInv'
    BY <1>2, <1>3, <2>1 DEF InjectedInv, Fresh, image
  <2>. QED
    BY <1>1, <1>2, <1>4, <2>2 DEF PcInv
<1>5. CASE ~injected
  <2>1. op # "attach" /\ RecoverInv
    BY <1>1, <1>5 DEF IInv, PcInv, BaseInv, ControlInv
  <2>2. RecoverInv'
    BY <1>1, <1>2, <1>3, <2>1 DEF RecoverInv, ViewOf, image
  <2>. QED
    BY <1>1, <1>2, <1>5, <2>1, <2>2 DEF PcInv
<1>. QED
  BY <1>4, <1>5

\* All words are back: the function goes where the saved code goes.
LEMMA Back ==
  ASSUME BaseInv, RunInv, CodeInv, pc = "rewrite", word = AlignedWords, mishap = {}
  PROVE  Fit(text) /\ Target(text) = Target(OriginFuncCode) /\ ViewOf(Target(text)) = under
<1> DEFINE a == Target(OriginFuncCode)
<1>1. text \in Text /\ ControlInv /\ word > 0 /\ a \in Addr \cup {0}
  BY Sizes DEF BaseInv, TypeOK, Text, CodeInv, Code
<1>2. under \notin {Nothing, Broken} /\ (FuncSize < JumpSize => under = Kernel)
  BY <1>1 DEF RunInv, FitInv
<1>3. \A i \in Slot : text[i] = OriginFuncCode[i]
  BY <1>1, <1>2, Sizes DEF RunInv, TextInv, ControlInv, Slot
<1>4. a = 0 \/ FuncSize >= JumpSize
  BY <1>1, <1>2, ViewFacts, SizeAssumption DEF CodeInv, ViewOf, JumpSize
<1>5. Goes(text, a)
  BY <1>1, <1>3, <1>4, Restored DEF CodeInv
<1>6. a = Target(text)
  BY <1>1, <1>5, GoesTarget
<1>. QED
  BY <1>5, <1>6 DEF Fit, CodeInv

\* The function is what it was before this FakeImage came.
LEMMA ReWrittenNext ==
  ASSUME IInv, ~Harmed, ReWritten
  PROVE  PcInv'
<1>1. /\ BaseInv /\ RunInv /\ TextInv /\ FitInv /\ ControlInv /\ before \in Image /\ mishap = {}
      /\ pc = "rewrite" /\ op \in {"attach", "recover"} /\ (fakeEntry \in mem) = TRUE
      /\ op = "attach" <=> err
  BY DEF IInv, RunInv, PcInv, ReWritten, BaseInv, ControlInv, TypeOK, Harmed
<1>2. /\ UNCHANGED <<process, fakeEntry, before, began, op, want>> /\ err' = err
      /\ under' = Nothing /\ pc' = "detach"
      /\ OriginFuncCode = NoCode \/ word = AlignedWords
  BY DEF ReWritten, NoOrigin, Leave
<1>3. ASSUME CodeInv, word = AlignedWords
      PROVE  SteadyInv' /\ Now' = Kept(under, Nothing)
  <2>1. Fit(text) /\ Target(text) # fakeEntry /\ ViewOf(Target(text)) = under
    BY <1>1, <1>3, Back DEF CodeInv
  <2>2. (fakeEntry \in mem)' = TRUE
    BY <1>1, <1>2 DEF process
  <2>3. Now' = Kept(under, Nothing)
    BY <1>2, <2>1, <2>2 DEF Now, Kept, ViewOf, Target, process
  <2>4. SteadyInv'
    BY <1>2, <2>1 DEF SteadyInv, Fit, Ready, Runs, Target, process
  <2>. QED
    BY <2>3, <2>4
<1>4. CASE injected
  <2>1. InjectedInv /\ op = "attach" /\ word = AlignedWords
    BY <1>1, <1>2, <1>4 DEF IInv, PcInv, ControlInv
  <2>2. SteadyInv' /\ Now' = Kept(under, Nothing)
    BY <1>3, <2>1 DEF InjectedInv
  <2>3. Now' \in AttachFailed(before, want)
    BY <2>1, <2>2, FreshFailed DEF InjectedInv
  <2>. QED
    BY <1>1, <1>2, <2>1, <2>2, <2>3 DEF PcInv, DetachInv
<1>5. CASE ~injected /\ op = "attach"
  <2>1. NewInv /\ under = Nothing
    BY <1>1, <1>5 DEF IInv, PcInv, ControlInv
  <2>2. word = 0
    BY <1>1, <2>1 DEF FitInv, BaseInv, TypeOK
  <2>3. text = began
    BY <1>1, <1>5, <2>2 DEF TextInv
  <2>. QED
    BY <1>1, <1>2, <1>5, <2>1, <2>3, NewLeft
<1>6. CASE op = "recover"
  <2>1. /\ word = AlignedWords /\ word > 0 /\ RecoverInv
    BY <1>1, <1>2, <1>6, Sizes DEF ControlInv, IInv, PcInv
  <2>2. CodeInv /\ before = Kept(ViewOf(fakeEntry), under) /\ under # Nothing
    BY <1>1, <2>1 DEF FitInv, RecoverInv
  <2>3. SteadyInv' /\ Now' = Kept(under, Nothing)
    BY <1>3, <2>1, <2>2
  <2>4. RecoverDone(Kept(ViewOf(fakeEntry), under)) = Kept(under, Nothing)
    BY <2>2, Outcomes
  <2>5. Now' = RecoverDone(before')
    BY <1>2, <2>2, <2>3, <2>4
  <2>. QED
    BY <1>1, <1>2, <1>6, <2>3, <2>5 DEF PcInv, DetachInv
<1>. QED
  BY <1>1, <1>4, <1>5, <1>6

\* A write that fails before anything was written changes nothing.
LEMMA ReWriteFailsNext ==
  ASSUME IInv, ~Harmed, ReWriteFails, ~Harmed'
  PROVE  PcInv'
<1>1. /\ BaseInv /\ ControlInv /\ TextInv /\ before \in Image /\ mishap = {}
      /\ pc = "rewrite" /\ word = 0 /\ ~injected
  <2>1. BaseInv /\ ControlInv /\ TextInv /\ word \in 0..Words /\ pc = "rewrite" /\ PcInv
    BY DEF IInv, RunInv, ReWriteFails, BaseInv, TypeOK
  <2>2. mishap = {} /\ mishap' = {}
    BY DEF Harmed
  <2>3. ~(word > 0) /\ ~injected
    BY <2>2 DEF ReWriteFails, Met
  <2>. QED
    BY <2>1, <2>2, <2>3 DEF PcInv
<1>2. UNCHANGED <<process, image, under, before, began, op, want>> /\ pc' = "detach" /\ err'
  BY <1>1 DEF ReWriteFails, Leave, image
<1>3. CASE op = "attach"
  <2>1. NewInv /\ under = Nothing /\ text = began /\ fakeEntry \in mem
    BY <1>1, <1>3 DEF IInv, PcInv, ControlInv, TextInv
  <2>. QED
    BY <1>1, <1>2, <1>3, <2>1, NewLeft DEF image
<1>4. CASE op # "attach"
  <2>1. SteadyInv /\ Now = before
    BY <1>1, <1>4 DEF IInv, PcInv, RecoverInv, FindInv
  <2>. QED
    BY <1>1, <1>2, <1>4, <2>1, Untouched DEF PcInv, DetachInv
<1>. QED
  BY <1>3, <1>4

(***************************************************************************)
(* The ends of operations                                                  *)
(***************************************************************************)

\* An injector that dies outside the critical steps leaves a function that is the one
\* before, the one after, or one with some of the variables.
LEMMA DeathView ==
  ASSUME IInv, ~Harmed, pc # "idle", ~Critical
  PROVE  \/ ViewOf(Target(text)) = before.view
         \/ op = "attach" /\ ViewOf(Target(text)) \in Halfway(before, want)
         \/ op = "recover" /\ ViewOf(Target(text)) = RecoverDone(before).view
<1> DEFINE v == ViewOf(Target(text))
<1>1. /\ BaseInv /\ TypeOK /\ ControlInv /\ TextInv /\ PcInv /\ before \in Image
      /\ word \in 0..Words /\ mishap = {} /\ RunInv /\ op \in {"attach", "recover"}
      /\ Now.view = v
  BY DEF IInv, RunInv, PcInv, BaseInv, TypeOK, Harmed, Now
<1>2. CASE pc \in {"find", "mmap"}
  BY <1>1, <1>2 DEF PcInv, FindInv
<1>3. ASSUME NewInv, text = began PROVE v = before.view
  BY <1>3 DEF NewInv, Fresh
<1>4. ASSUME InjectedInv, JumpThere, fakeEntry \in mem PROVE v \in Halfway(before, want)
  <2>1. fakeEntry # 0 /\ Target(text) = fakeEntry
    BY <1>1, <1>4, WordFacts DEF JumpThere, Target, TypeOK
  <2>. QED
    BY <1>1, <1>4, <2>1, HalfwayInv DEF ViewOf
<1>5. CASE pc \in {"locate", "jump"}
  <2>1. NewInv
    BY <1>1, <1>5 DEF PcInv
  <2>2. CASE pc = "jump" /\ word # 0
    <3>1. word = 2
      BY <1>1, <2>2, Sizes DEF Critical, ControlInv
    <3>2. fakeEntry # 0 /\ Target(text) = fakeEntry /\ fakeEntry \in mem
      BY <1>1, <2>2, <3>1, WordFacts DEF TextInv, Target, TypeOK, ControlInv
    <3>3. v = Faked(Zero)
      BY <2>1, <3>2 DEF NewInv, ViewOf
    <3>4. Halfway(before, want) = Between(Zero, want)
      BY <2>1 DEF NewInv, Halfway, Fresh
    <3>5. Faked(Zero) \in Between(Zero, want)
      BY ViewFacts, Betweens
    <3>. QED
      BY <1>1, <2>2, <3>3, <3>4, <3>5 DEF ControlInv
  <2>3. CASE pc = "locate" \/ word = 0
    BY <1>1, <1>3, <1>5, <2>1, <2>3 DEF TextInv
  <2>. QED
    BY <1>5, <2>2, <2>3
<1>6. CASE pc = "setvar"
  <2>1. CASE injected
    BY <1>1, <1>4, <1>6, <2>1 DEF PcInv, TextInv, ControlInv
  <2>2. CASE ~injected
    BY <1>1, <1>6, <2>2, HalfwayInv DEF PcInv, ControlInv
  <2>. QED
    BY <2>1, <2>2
<1>7. CASE pc = "rewrite"
  <2>1. word = 0 \/ (word = AlignedWords /\ word > 0)
    BY <1>1, <1>7, Sizes DEF Critical, ControlInv
  <2>2. CASE word = 0 /\ injected
    BY <1>1, <1>4, <1>7, <2>2 DEF PcInv, TextInv, ControlInv
  <2>3. CASE word = 0 /\ ~injected /\ op = "attach"
    BY <1>1, <1>3, <1>7, <2>3 DEF PcInv, TextInv
  <2>4. CASE word = 0 /\ ~injected /\ op = "recover"
    BY <1>1, <1>7, <2>4 DEF PcInv, RecoverInv, FindInv
  <2>5. CASE word = AlignedWords /\ word > 0
    <3>1. under # Nothing
      BY <1>1, <1>7, <2>5 DEF RunInv, FitInv
    <3>2. CASE injected
      <4>1. InjectedInv
        BY <1>1, <1>7, <3>2 DEF PcInv
      <4>2. v = under
        BY <1>1, <1>7, <2>5, <4>1, Back DEF InjectedInv
      <4>. QED
        BY <4>1, <4>2 DEF InjectedInv, Fresh
    <3>3. CASE ~injected
      <4>1. op = "recover" /\ RecoverInv
        BY <1>1, <1>7, <3>1, <3>3 DEF PcInv, ControlInv
      <4>2. CodeInv /\ before = Kept(ViewOf(fakeEntry), under)
        BY <3>1, <4>1 DEF RecoverInv
      <4>3. v = under
        BY <1>1, <1>7, <2>5, <4>2, Back
      <4>4. RecoverDone(Kept(ViewOf(fakeEntry), under)) = Kept(under, Nothing)
        BY <3>1, Outcomes
      <4>. QED
        BY <4>1, <4>2, <4>3, <4>4 DEF Kept
    <3>. QED
      BY <3>2, <3>3
  <2>. QED
    BY <1>1, <2>1, <2>2, <2>3, <2>4, <2>5
<1>8. CASE pc = "detach"
  <2>1. DetachInv
    BY <1>1, <1>8 DEF PcInv
  <2>2. CASE op = "attach" /\ ~err
    BY <1>1, <2>1, <2>2, DoneView DEF DetachInv, TypeOK, Settings
  <2>3. CASE op = "attach" /\ err
    BY <1>1, <2>1, <2>3, FailedView DEF DetachInv
  <2>4. CASE op = "recover"
    BY <1>1, <2>1, <2>4 DEF DetachInv
  <2>. QED
    BY <1>1, <2>2, <2>3, <2>4
<1>. QED
  BY <1>1, <1>2, <1>5, <1>6, <1>7, <1>8 DEF TypeOK

\* The function that an operation found could run, and still could.
LEMMA FineNext == BaseInv /\ BaseInv' /\ RunInv /\ RunInv' /\ FineInv /\ [Next]_allVars => FineInv'
<1> SUFFICES ASSUME BaseInv, BaseInv', RunInv, RunInv', FineInv, [Next]_allVars, ~Harmed'
             PROVE  IF pc' = "idle" THEN CanRun(text)' ELSE CanRun(began)'
  BY DEF FineInv
<1>1. TypeOK /\ TypeOK' /\ began \in Text /\ EndInv' /\ mishap' = {}
  BY DEF BaseInv, TypeOK, Text, RunInv, Harmed
<1>2. CASE Exec
  <2>1. pc' = "idle" /\ text' = OrigText /\ Goes(OrigText, 0) /\ Ready(0)'
    BY <1>2, WordFacts DEF Exec, Goes, Ready
  <2>. QED
    BY <2>1, CanRunNext, WordFacts
<1>3. CASE ~Exec
  <2>1. ~Harmed
    BY <1>3, HarmStays
  <2>2. CASE Recover \/ \E w \in [Var -> Value] : AttachToProcess(w)
    <3>1. UNCHANGED process /\ began' = text /\ text' = text /\ pc = "idle" /\ pc' # "idle"
      BY <2>2 DEF Recover, AttachToProcess, Enter, process
    <3>2. CanRun(text)'
      BY <1>1, <2>1, <3>1, SameRuns DEF FineInv, process
    <3>. QED
      BY <1>1, <3>1, <3>2, FoundRuns
  <2>3. CASE NewFakeImage
    <3>1. UNCHANGED process /\ pc = "idle" /\ pc' = "idle"
      BY <2>3 DEF NewFakeImage
    <3>. QED
      BY <1>1, <2>1, <3>1, SameRuns DEF FineInv, process
  <2>4. CASE UNCHANGED allVars
    <3>1. UNCHANGED <<process, pc, began>>
      BY <2>4 DEF allVars, history, past
    <3>. QED
      BY <1>1, <2>1, <3>1, SameRuns DEF FineInv, process
  <2>5. ASSUME pc # "idle", began' = began
        PROVE  IF pc' = "idle" THEN CanRun(text)' ELSE CanRun(began)'
    <3>1. CanRun(began)
      BY <2>1, <2>5 DEF FineInv
    <3>2. PICK a \in Addr \cup {0} : Goes(began, a) /\ Ready(a)
      BY <1>1, <3>1, CanRunAll
    <3>3. Ready(a)'
      BY <1>3, <3>2, ReadyStays
    <3>4. CanRun(began)'
      BY <1>1, <2>5, <3>2, <3>3, CanRunNext
    <3>. QED
      BY <1>1, <3>4 DEF EndInv
  <2>6. CASE TraceFails \/ Detach \/ Crash
    BY <2>5, <2>6 DEF TraceFails, Detach, Crash, past
  <2>7. CASE FindForRecover \/ ReWrite \/ ReWritten \/ ReWriteFails
    BY <2>5, <2>7 DEF FindForRecover, ReWrite, ReWritten, ReWriteFails, history, past
  <2>8. CASE \/ FindInjectedImage \/ MmapSliceFails \/ \E a \in Addr : MmapSlice(a)
             \/ Locate \/ LocateFails \/ JumpToFakeFunc \/ Injected \/ JumpFails
             \/ SetVarFails \/ Attached \/ \E v \in Var : SetVarUint64(v)
    BY <2>5, <2>8
    DEF FindInjectedImage, MmapSliceFails, MmapSlice, Locate, LocateFails, JumpToFakeFunc, Injected,
        JumpFails, SetVarFails, Attached, SetVarUint64, history, past
  <2>. QED
    BY <1>3, <2>2, <2>3, <2>4, <2>6, <2>7, <2>8 DEF Next, Attach, Undo, Around
<1>. QED
  BY <1>2, <1>3

\* What happens between the operations, or ends one.
LEMMA AroundNext ==
  ASSUME IInv, BaseInv', TraceFails \/ Detach \/ Around, ~Harmed'
  PROVE  PcInv'
<1>1. BaseInv /\ TypeOK' /\ 0 \notin Addr /\ text \in Text
  BY WordFacts DEF IInv, BaseInv, TypeOK, Text
<1>2. ~Exec => ~Harmed /\ PcInv
  BY HarmStays DEF IInv, Next
<1>3. CASE TraceFails \/ Detach
  <2>1. UNCHANGED <<process, image, under>> /\ pc' = "idle" /\ SteadyInv
    BY <1>2, <1>3
    DEF TraceFails, Detach, Exec, PcInv, FindInv, DetachInv, locals, past
  <2>. QED
    BY <2>1, Untouched DEF PcInv
<1>4. CASE Exec
  <2>1. text' = OrigText /\ mem' = {} /\ under' = Nothing /\ pc' = "idle"
    BY <1>4 DEF Exec
  <2>2. Goes(OrigText, 0)
    BY WordFacts DEF Goes
  <2>3. Target(OrigText) = 0
    BY <2>2, WordFacts, GoesTarget
  <2>4. SteadyInv'
    BY <2>1, <2>2, <2>3 DEF SteadyInv, Fit, Ready, Target
  <2>. QED
    BY <2>1, <2>4 DEF PcInv
<1>5. CASE NewFakeImage \/ Crash
  <2>1. /\ UNCHANGED process /\ fakeEntry' = 0 /\ under' = Nothing /\ pc' = "idle"
    BY <1>5 DEF NewFakeImage, Crash, Forget, NoOrigin
  <2>2. ~Harmed /\ PcInv /\ RunInv /\ FineInv
    BY <1>2, <1>5 DEF IInv, NewFakeImage, Crash, Exec, Forget, image
  <2>3. Fit(text)
    <3>1. CASE NewFakeImage
      BY <2>2, <3>1 DEF NewFakeImage, PcInv, SteadyInv
    <3>2. CASE Crash
      <4>1. pc # "idle" /\ ~Critical /\ mishap = {}
        BY <3>2 DEF Crash, Met, Harmed
      <4>2. CanRun(began)
        BY <2>2, <4>1 DEF FineInv
      <4>. QED
        BY <1>1, <2>2, <4>1, <4>2, Survives, FitRuns
    <3>. QED
      BY <1>5, <3>1, <3>2
  <2>4. 0 \notin mem'
    BY <1>1 DEF TypeOK
  <2>5. SteadyInv'
    BY <2>1, <2>3, <2>4 DEF SteadyInv, Fit, Ready, Runs, Target, process
  <2>. QED
    BY <2>1, <2>5 DEF PcInv
<1>. QED
  BY <1>3, <1>4, <1>5 DEF Around

\* A step that changes nothing.
LEMMA StutterNext ==
  ASSUME PcInv, UNCHANGED allVars
  PROVE  PcInv'
<1>1. /\ UNCHANGED <<process, image, under, before, began, pc, op, want, todo, word, funcBytes,
                     err, injected>>
  BY DEF allVars, locals, history, past
<1>2. /\ SteadyInv' <=> SteadyInv
      /\ CodeInv' <=> CodeInv
      /\ Now' = Now
      /\ \A a : ViewOf(a)' = ViewOf(a)
  BY <1>1, Untouched
<1>3. NewInv => NewInv'
  BY <1>1, NewStays DEF process, image
<1>4. /\ InjectedInv => InjectedInv'
      /\ AgainInv => AgainInv'
      /\ RecoverInv => RecoverInv'
      /\ DetachInv => DetachInv'
      /\ FindInv => FindInv'
  BY <1>1, <1>2
  DEF InjectedInv, AgainInv, RecoverInv, DetachInv, FindInv, Fresh, process, image
<1>. QED
  BY <1>1, <1>2, <1>3, <1>4 DEF PcInv

\* The invariant holds at first, ...
LEMMA InitIInv == Init => IInv
<1> SUFFICES ASSUME Init PROVE IInv
  OBVIOUS
<1>1. pc = "idle" /\ under = Nothing /\ text = OrigText /\ mem = {} /\ BaseInv /\ RunInv
  BY InitBase, InitRun DEF Init
<1>2. Goes(OrigText, 0)
  BY WordFacts DEF Goes
<1>3. Target(OrigText) = 0
  BY <1>2, WordFacts, GoesTarget
<1>4. SteadyInv
  BY <1>1, <1>2, <1>3 DEF SteadyInv, Fit, Ready, Target
<1>5. CanRun(text)
  BY <1>1, <1>4, FitRuns, WordFacts DEF SteadyInv
<1>. QED
  BY <1>1, <1>4, <1>5 DEF IInv, PcInv, FineInv

\* ... and after every step.
LEMMA NextIInv == IInv /\ [Next]_allVars => IInv'
<1> SUFFICES ASSUME IInv, [Next]_allVars PROVE IInv'
  OBVIOUS
<1>1. BaseInv /\ RunInv /\ FineInv
  BY DEF IInv
<1>2. BaseInv'
  BY <1>1, TypeNext, ControlNext DEF BaseInv
<1>3. RunInv'
  BY <1>1, <1>2, FoundNext, OriginNext, TextNext, FitNext, EndNext DEF RunInv
<1>4. FineInv'
  BY <1>1, <1>2, <1>3, FineNext
<1>5. ASSUME ~Harmed' PROVE PcInv'
  <2>1. ~Exec => ~Harmed /\ PcInv
    BY <1>5, HarmStays DEF IInv
  <2>2. CASE TraceFails \/ Detach \/ Around
    BY <1>2, <1>5, <2>2, AroundNext
  <2>3. CASE UNCHANGED allVars
    <3>1. ~Harmed
      BY <1>5, <2>3 DEF Harmed, allVars, history, past, harms
    <3>. QED
      BY <2>3, <3>1, StutterNext DEF IInv
  <2>4. CASE Attach /\ ~Exec
    BY <2>1, <2>4, BeginNext, FindNext, MmapFailsNext, MmapNext, LocateNext, JumpNext, InjectedNext,
       SetVarNext, AttachedNext, SetVarFailsNext DEF Attach
  <2>5. CASE Undo /\ ~Exec
    BY <1>5, <2>1, <2>5, BeginNext, FindForRecoverNext, ReWriteNext, ReWrittenNext, ReWriteFailsNext
    DEF Undo
  <2>. QED
    BY <2>2, <2>3, <2>4, <2>5 DEF Next, Around
<1>. QED
  BY <1>1, <1>2, <1>3, <1>4, <1>5 DEF IInv

(***************************************************************************)
(* FakeImage implements ImageSwitch                                        *)
(***************************************************************************)

\* ImageSwitch speaks of the same outcomes.
LEMMA SameOutcomes ==
  /\ Switch!Kernel = Kernel /\ Switch!Settings = Settings /\ Switch!Views = Views
  /\ Switch!Wreck = Wreck
  /\ \A v : Switch!Fresh(v) = Fresh(v)
  /\ \A i, w : /\ Switch!AttachDone(i, w) = AttachDone(i, w)
               /\ Switch!Halfway(i, w) = Halfway(i, w)
               /\ Switch!AttachFailed(i, w) = AttachFailed(i, w)
  /\ \A i : Switch!RecoverDone(i) = RecoverDone(i)
<1>1. /\ Switch!Zero = Zero /\ Switch!Nothing = Nothing /\ Switch!Settings = Settings
      /\ \A w : Switch!Faked(w) = Faked(w)
  BY DEF Switch!Zero, Zero, Switch!Nothing, Nothing, Switch!Settings, Settings, Switch!Faked, Faked
<1>2. Switch!Kernel = Kernel /\ Switch!Views = Views /\ \A v : Switch!Fresh(v) = Fresh(v)
  BY <1>1 DEF Switch!Kernel, Kernel, Switch!Views, Views, Switch!Fresh, Fresh
<1>8. Switch!Wreck = Wreck
  BY <1>1, <1>2 DEF Switch!Wreck, Wreck
<1>3. \A o, n : Switch!Between(o, n) = Between(o, n)
  BY <1>1 DEF Switch!Between, Between
<1>4. \A i, w : Switch!AttachDone(i, w) = AttachDone(i, w)
  BY <1>1 DEF Switch!AttachDone, AttachDone
<1>5. \A i, w : Switch!Halfway(i, w) = Halfway(i, w)
  BY <1>1, <1>3 DEF Switch!Halfway, Halfway
<1>6. \A i, w : Switch!AttachFailed(i, w) = AttachFailed(i, w)
  BY <1>5 DEF Switch!AttachFailed, AttachFailed
<1>7. \A i : Switch!RecoverDone(i) = RecoverDone(i)
  BY <1>1 DEF Switch!RecoverDone, RecoverDone
<1>. QED
  BY <1>1, <1>2, <1>4, <1>5, <1>6, <1>7, <1>8

\* The function is the kernel's at first.
LEMMA InitSwitch == Init => Switch!Init
<1> SUFFICES ASSUME Init PROVE Switch!Init
  OBVIOUS
<1>1. /\ BaseInv /\ pc = "idle" /\ under = Nothing /\ (fakeEntry \in mem) = FALSE /\ ~Harmed
      /\ text = OrigText
  BY InitBase DEF Init, Harmed
<1>2. Goes(text, 0) /\ text \in Text /\ Ready(0) /\ ViewOf(0) = Kernel
  BY <1>1, WordFacts DEF Goes, Ready, ViewOf
<1>3. View(text) = Kernel
  BY <1>2, Viewed
<1>4. Present = Fresh(Kernel)
  BY <1>1, <1>3 DEF Present, Fresh
<1>5. want \in Settings /\ ret = "none"
  BY ViewFacts DEF Init
<1>. QED
  BY <1>1, <1>4, <1>5, SameOutcomes DEF Switch!Init, Shown

\* A step inside of an operation.
LEMMA InsideKept ==
  ASSUME pc # "idle", pc' # "idle", [Next]_allVars
  PROVE  UNCHANGED <<before, op, want, ret>>
<1>1. CASE \/ FindInjectedImage \/ MmapSliceFails \/ \E a \in Addr : MmapSlice(a)
           \/ Locate \/ LocateFails \/ JumpToFakeFunc \/ Injected \/ JumpFails
           \/ SetVarFails \/ Attached \/ \E v \in Var : SetVarUint64(v)
  BY <1>1
  DEF FindInjectedImage, MmapSliceFails, MmapSlice, Locate, LocateFails, JumpToFakeFunc, Injected,
      JumpFails, SetVarFails, Attached, SetVarUint64, Leave, locals, history, past
<1>2. CASE FindForRecover \/ ReWrite \/ ReWritten \/ ReWriteFails
  BY <1>2 DEF FindForRecover, ReWrite, ReWritten, ReWriteFails, Leave, history, past
<1>3. CASE UNCHANGED allVars
  BY <1>3 DEF allVars, locals, history, past
<1>4. CASE TraceFails \/ Detach \/ Around \/ Recover \/ \E w \in [Var -> Value] : AttachToProcess(w)
  BY <1>4
  DEF TraceFails, Detach, Around, Exec, NewFakeImage, Crash, Recover, AttachToProcess
<1>. QED
  BY <1>1, <1>2, <1>3, <1>4 DEF Next, Attach, Undo

\* What begins, ends or happens between operations.
LEMMA OutsideSteps ==
  ASSUME [Next]_allVars, pc = "idle" \/ pc' = "idle"
  PROVE  \/ UNCHANGED allVars \/ TraceFails \/ Detach \/ Exec \/ NewFakeImage \/ Crash \/ Recover
         \/ \E w \in [Var -> Value] : AttachToProcess(w)
BY DEF Next, Attach, Undo, Around, FindInjectedImage, MmapSliceFails, MmapSlice, Locate, LocateFails,
       JumpToFakeFunc, Injected, JumpFails, SetVarFails, OnSetVarError, Attached, SetVarUint64, Leave,
       FindForRecover, ReWrite, ReWritten, ReWriteFails

\* Of a wreck nothing is promised.
LEMMA WreckStep ==
  ASSUME IInv, IInv', [Next]_allVars, Harmed'
  PROVE  [Switch!Next]_(Switch!switchVars)
<1> DEFINE o == IF pc = "idle" THEN "none" ELSE op
<1>1. /\ Shown' = Switch!Wreck /\ op \in {"attach", "recover"} /\ ret' \in {"none", "ok", "error"}
      /\ op \in {"attach", "recover"} => op # "none"
  BY SameOutcomes DEF Shown, IInv, BaseInv, TypeOK
<1>2. CASE pc # "idle" /\ pc' # "idle"
  <2>1. UNCHANGED <<op, want, ret>>
    BY <1>2, InsideKept
  <2>2. Switch!Wrecks
    BY <1>1, <1>2, <2>1 DEF Switch!Wrecks
  <2>. QED
    BY <2>2 DEF Switch!Next
<1>3. CASE pc # "idle" /\ pc' = "idle"
  <2>1. UNCHANGED want
    BY <1>3, OutsideSteps
    DEF TraceFails, Detach, Exec, NewFakeImage, Crash, Recover, AttachToProcess, allVars, locals
  <2>2. Switch!Wrecks
    BY <1>1, <1>3, <2>1 DEF Switch!Wrecks
  <2>. QED
    BY <2>2 DEF Switch!Next
<1>4. CASE pc = "idle"
  <2>1. ~Exec /\ ~TraceFails /\ ~Detach /\ ~Crash
    BY <1>4 DEF Exec, Harmed, TraceFails, Detach, Crash
  <2>2. CASE NewFakeImage
    <3>1. Harmed /\ pc' = "idle" /\ ret' = "none" /\ UNCHANGED want
      BY <2>2 DEF NewFakeImage, Harmed, locals
    <3>2. Shown = Switch!Wreck
      BY <3>1, SameOutcomes DEF Shown
    <3>3. Switch!NewFakeImage
      BY <1>1, <1>4, <3>1, <3>2 DEF Switch!NewFakeImage
    <3>. QED
      BY <3>3 DEF Switch!Next
  <2>3. CASE Recover
    <3>1. Harmed /\ pc' # "idle" /\ op' = "recover" /\ ret' = "none" /\ UNCHANGED want
      BY <2>3 DEF Recover, Enter, Harmed
    <3>2. Shown = Switch!Wreck
      BY <3>1, SameOutcomes DEF Shown
    <3>3. Switch!Recover
      BY <1>1, <1>4, <3>1, <3>2 DEF Switch!Recover
    <3>. QED
      BY <3>3 DEF Switch!Next
  <2>4. ASSUME NEW w \in [Var -> Value], AttachToProcess(w) PROVE Switch!Next
    <3>1. Harmed /\ pc' # "idle" /\ op' = "attach" /\ ret' = "none" /\ want' = w
      BY <2>4 DEF AttachToProcess, Enter, Harmed
    <3>2. Shown = Switch!Wreck
      BY <3>1, SameOutcomes DEF Shown
    <3>3. Switch!AttachToProcess(w)
      BY <1>1, <1>4, <3>1, <3>2 DEF Switch!AttachToProcess
    <3>4. w \in Switch!Settings
      BY SameOutcomes DEF Settings
    <3>. QED
      BY <3>3, <3>4 DEF Switch!Next
  <2>5. CASE UNCHANGED allVars
    <3>1. UNCHANGED <<pc, op, want, ret>> /\ Harmed
      BY <2>5 DEF allVars, locals, history, past, harms, Harmed
    <3>2. Shown = Switch!Wreck
      BY <3>1, SameOutcomes DEF Shown
    <3>. QED
      BY <1>1, <3>1, <3>2 DEF Switch!switchVars
  <2>. QED
    BY <1>4, <2>1, <2>2, <2>3, <2>4, <2>5, OutsideSteps
<1>. QED
  BY <1>2, <1>3, <1>4

\* An operation that fails before it did anything.
LEMMA NothingFailed ==
  ASSUME BaseInv, FindInv, before \in Image
  PROVE  before \in AttachFailed(before, want)
<1>1. SteadyInv /\ Now = before /\ (under # Nothing => fakeEntry \in mem)
  BY DEF FindInv, BaseInv, ControlInv
<1>2. CASE fakeEntry \notin mem
  <2>1. (fakeEntry \in mem) = FALSE /\ under = Nothing
    BY <1>1, <1>2
  <2>2. before = Fresh(before.view)
    BY <1>1, <2>1 DEF Now, Fresh
  <2>. QED
    BY <2>2, FreshFailed
<1>3. CASE fakeEntry \in mem
  <2>1. (fakeEntry \in mem) = TRUE /\ fakeEntry \in Addr /\ fakeEntry # 0
    BY <1>3, WordFacts DEF BaseInv, TypeOK
  <2>2. before = Kept(before.view, under)
    BY <1>1, <2>1 DEF Now, Kept
  <2>3. before.view \in Halfway(before, want)
    <3>1. CASE under = Nothing
      BY <2>2, <3>1 DEF Halfway, Kept
    <3>2. CASE under # Nothing
      <4>1. before.view = Faked(vars[fakeEntry]) /\ vars[fakeEntry] \in Settings
        BY <1>1, <2>1, <3>2 DEF SteadyInv, Now, ViewOf, BaseInv, TypeOK, Settings
      <4>2. Halfway(before, want) = Between(vars[fakeEntry], want)
        BY <2>2, <3>2, <4>1, ViewFacts DEF Halfway, Kept
      <4>. QED
        BY <4>1, <4>2, Betweens
    <3>. QED
      BY <3>1, <3>2
  <2>. QED
    BY <2>2, <2>3, KeptFailed
<1>. QED
  BY <1>2, <1>3

\* Until the first mishap, every step ends an operation as ImageSwitch allows, or
\* shows nothing.
LEMMA SoundStep ==
  ASSUME IInv, IInv', [Next]_allVars, ~Harmed'
  PROVE  [Switch!Next]_(Switch!switchVars)
<1> DEFINE o == IF pc = "idle" THEN "none" ELSE op
<1>1. /\ BaseInv /\ BaseInv' /\ PcInv' /\ op \in {"attach", "recover"}
      /\ "none" \notin {"attach", "recover"}
  BY DEF IInv, BaseInv, TypeOK
<1>2. pc' = "idle" => /\ Present' = Now' /\ Now' \in Image /\ SteadyInv'
                      /\ Shown' = Present'
  <2>1. (BaseInv /\ SteadyInv => under \in Views \cup {Nothing})'
    BY UnderView, PTL
  <2>2. pc' = "idle" => SteadyInv' /\ Fit(text)'
    BY <1>1 DEF PcInv, SteadyInv
  <2>. QED
    BY <1>1, <2>1, <2>2, FitViewedNext DEF Shown
<1>3. ~Exec => ~Harmed /\ PcInv
  BY HarmStays DEF IInv
<1>4. ASSUME ~Harmed, pc = "idle"
      PROVE  Shown = Present /\ Present = Now /\ Now \in Image
  <2>1. SteadyInv
    BY <1>4 DEF IInv, PcInv
  <2>. QED
    BY <1>1, <1>4, <2>1, FitViewed, UnderView DEF Shown, SteadyInv
<1>5. ASSUME ~Harmed, pc # "idle"
      PROVE  Shown = before /\ before \in Image /\ before # Switch!Wreck /\ PcInv
  <2>1. PcInv /\ before \in Image
    BY <1>5 DEF IInv, PcInv
  <2>2. before.view # Nothing
    BY <2>1, ViewFacts DEF Image
  <2>3. before # Wreck
    BY <2>2 DEF Wreck, Fresh
  <2>. QED
    BY <1>5, <2>1, <2>3, SameOutcomes DEF Shown
<1>6. CASE pc # "idle" /\ pc' # "idle"
  <2>1. UNCHANGED <<before, op, want, ret>> /\ ~Harmed
    BY <1>3, <1>6, InsideKept DEF Exec
  <2>2. Shown = before /\ Shown' = before'
    BY <1>5, <1>6, <2>1 DEF Shown
  <2>. QED
    BY <1>6, <2>1, <2>2 DEF Switch!switchVars
<1>7. ASSUME NEW w \in [Var -> Value], AttachToProcess(w)
      PROVE  Switch!Next
  <2>1. /\ pc = "idle" /\ pc' # "idle" /\ op' = "attach" /\ want' = w /\ ret' = "none"
        /\ before' = Present /\ ~Harmed /\ Shown' = before'
    BY <1>3, <1>7 DEF AttachToProcess, Enter, Harmed, Shown
  <2>2. Switch!AttachToProcess(w)
    BY <1>4, <2>1 DEF Switch!AttachToProcess
  <2>3. w \in Switch!Settings
    BY SameOutcomes DEF Settings
  <2>. QED
    BY <2>2, <2>3 DEF Switch!Next
<1>8. CASE Recover
  <2>1. /\ pc = "idle" /\ pc' # "idle" /\ op' = "recover" /\ want' = want /\ ret' = "none"
        /\ before' = Present /\ ~Harmed /\ Shown' = before'
    BY <1>3, <1>8 DEF Recover, Enter, Harmed, Shown
  <2>2. Switch!Recover
    BY <1>4, <2>1 DEF Switch!Recover
  <2>. QED
    BY <2>2 DEF Switch!Next
<1>9. CASE TraceFails
  <2>1. /\ pc = "find" /\ pc' = "idle" /\ ret' = "error" /\ ~Harmed
        /\ UNCHANGED <<process, image, under, op, want>>
    BY <1>3, <1>9 DEF TraceFails, Exec, locals, past
  <2>2. FindInv /\ Shown = before /\ before \in Image /\ before # Switch!Wreck
    BY <1>5, <2>1 DEF PcInv
  <2>3. Shown' = before
    BY <1>2, <2>1, <2>2, Untouched DEF FindInv
  <2>4. before \in AttachFailed(before, want)
    BY <1>1, <2>2, NothingFailed
  <2>5. Switch!Failed
    BY <1>1, <2>1, <2>2, <2>3, <2>4, SameOutcomes DEF Switch!Failed
  <2>. QED
    BY <2>5 DEF Switch!Next
<1>10. CASE Detach
  <2>1. /\ pc = "detach" /\ pc' = "idle" /\ ret' = (IF err THEN "error" ELSE "ok") /\ ~Harmed
        /\ UNCHANGED <<process, image, under, op, want>>
    BY <1>3, <1>10 DEF Detach, Exec, locals, past
  <2>2. DetachInv /\ Shown = before /\ before # Switch!Wreck
    BY <1>5, <2>1 DEF PcInv
  <2>3. Shown' = Now
    BY <1>2, <2>1, Untouched
  <2>4. CASE err
    <3>1. Switch!Failed
      BY <1>1, <2>1, <2>2, <2>3, <2>4, SameOutcomes DEF Switch!Failed, DetachInv
    <3>. QED
      BY <3>1 DEF Switch!Next
  <2>5. CASE ~err
    <3>1. Switch!Done
      BY <1>1, <2>1, <2>2, <2>3, <2>5, SameOutcomes DEF Switch!Done, DetachInv
    <3>. QED
      BY <3>1 DEF Switch!Next
  <2>. QED
    BY <2>4, <2>5
<1>11. CASE Exec
  <2>1. /\ pc = "idle" /\ pc' = "idle" /\ ret' = "none" /\ text' = OrigText
        /\ under' = Nothing /\ UNCHANGED want /\ (fakeEntry' \in mem') = FALSE
    BY <1>11 DEF Exec, locals
  <2>2. Target(OrigText) = 0
    BY WordFacts, GoesTarget DEF Goes
  <2>3. ViewOf(Target(text))' = Kernel
    BY <2>1, <2>2 DEF ViewOf, Target
  <2>4. Shown' = Fresh(Kernel)
    BY <1>2, <2>1, <2>3 DEF Now, Fresh
  <2>5. Switch!Exec
    BY <2>1, <2>4, SameOutcomes DEF Switch!Exec
  <2>. QED
    BY <2>5 DEF Switch!Next
<1>12. ASSUME NewFakeImage \/ Crash
       PROVE  /\ pc' = "idle" /\ ret' = "none" /\ want' = want /\ ~Harmed
              /\ Shown' = Fresh(ViewOf(Target(text)))
  <2>1. /\ pc' = "idle" /\ ret' = "none" /\ UNCHANGED <<process, want>> /\ fakeEntry' = 0
        /\ under' = Nothing
    BY <1>12 DEF NewFakeImage, Crash, Forget, NoOrigin, locals
  <2>2. (fakeEntry' \in mem') = FALSE
    BY <1>1, <2>1, WordFacts DEF BaseInv, TypeOK
  <2>3. ~Exec
    BY <1>12 DEF NewFakeImage, Crash, Exec, Forget, image
  <2>. QED
    BY <1>2, <1>3, <2>1, <2>2, <2>3 DEF Now, Fresh, ViewOf, Target, process
<1>13. CASE NewFakeImage
  <2>1. pc = "idle" /\ Shown = Now /\ Now.view = ViewOf(Target(text)) /\ Now \in Image
    BY <1>4, <1>12, <1>13 DEF NewFakeImage, Now
  <2>2. Now # Switch!Wreck
    <3>1. Now.view # Nothing
      BY <2>1, ViewFacts DEF Image
    <3>. QED
      BY <3>1, SameOutcomes DEF Wreck, Fresh
  <2>3. Switch!NewFakeImage
    BY <1>12, <1>13, <2>1, <2>2, SameOutcomes DEF Switch!NewFakeImage
  <2>. QED
    BY <2>3 DEF Switch!Next
<1>14. CASE Crash
  <2> DEFINE v == ViewOf(Target(text))
  <2>1. pc # "idle" /\ ~Critical /\ ~Harmed /\ Shown = before /\ before # Switch!Wreck
    BY <1>5, <1>12, <1>14 DEF Crash, Met, Harmed
  <2>2. \/ v = before.view
        \/ op = "attach" /\ v \in Halfway(before, want)
        \/ op = "recover" /\ v = RecoverDone(before).view
    BY <2>1, DeathView
  <2>3. v \in Views
    <3>1. Shown'.view = v
      BY <1>12, <1>14 DEF Fresh
    <3>. QED
      BY <1>2, <1>12, <1>14, <3>1 DEF Image
  <2>4. \E x \in Switch!Views :
          /\ \/ o # "none" /\ x = Shown.view
             \/ o = "attach" /\ x \in Switch!Halfway(Shown, want)
             \/ o = "recover" /\ x = Switch!RecoverDone(Shown).view
          /\ Shown' = Switch!Fresh(x)
    <3>1. v \in Switch!Views /\ Shown' = Switch!Fresh(v)
      BY <1>12, <1>14, <2>3, SameOutcomes
    <3>2. \/ o # "none" /\ v = Shown.view
          \/ o = "attach" /\ v \in Switch!Halfway(Shown, want)
          \/ o = "recover" /\ v = Switch!RecoverDone(Shown).view
      BY <1>1, <2>1, <2>2, SameOutcomes
    <3>. QED
      BY <3>1, <3>2
  <2>5. Switch!Crash
    BY <1>12, <1>14, <2>1, <2>4 DEF Switch!Crash
  <2>. QED
    BY <2>5 DEF Switch!Next
<1>15. CASE UNCHANGED allVars
  <2>1. UNCHANGED <<pc, op, want, ret, before, mishap, harm, Present>>
    BY <1>15 DEF allVars, process, image, locals, history, past, harms, Present, View, Runs
  <2>. QED
    BY <2>1 DEF Switch!switchVars, Shown, Harmed
<1>. QED
  BY <1>6, <1>7, <1>8, <1>9, <1>10, <1>11, <1>13, <1>14, <1>15, OutsideSteps

(***************************************************************************)
(* Theorems                                                                *)
(***************************************************************************)

\* Every variable keeps its type.
THEOREM TypeCorrect == Spec => []TypeOK
<1>1. BaseInv => TypeOK
  BY DEF BaseInv
<1>. QED
  BY <1>1, Based, PTL

\* Code is written back where it was read, but for the code of an attachment before
\* exec that a failed one after it kept.
THEOREM Contained == Spec => []WritesStayInFunction
<1>1. Init => LostInv
  BY DEF Init, LostInv
<1>2. BaseInv /\ LostInv /\ [Next]_allVars => LostInv'
  BY LostNext
<1>3. BaseInv /\ LostInv => WritesStayInFunction
  BY DEF BaseInv, ControlInv, LostInv, WritesStayInFunction
<1>. QED
  BY <1>1, <1>2, <1>3, Based, PTL DEF Spec

\* An attachment that returns an error has left the bytes of the function as they
\* were, unless a write was cut off, or what was saved before exec was written.
THEOREM Undone == Spec => []FailedAttachUndone
<1>1. Init => UndoneInv
  BY DEF Init, UndoneInv
<1>2. BaseInv /\ UndoneInv /\ [Next]_allVars => UndoneInv'
  BY UndoneNext
<1>3. BaseInv /\ UndoneInv => FailedAttachUndone
  BY DEF BaseInv, ControlInv, UndoneInv, FailedAttachUndone
<1>. QED
  BY <1>1, <1>2, <1>3, Based, PTL DEF Spec

\* An operation that found a function that runs and met no mishap leaves one that
\* runs, whichever step failed and wherever the injector died.
THEOREM Runnable == Spec => []RunnableText
<1>1. RunInv => RunnableText
  BY DEF RunInv, EndInv, RunnableText
<1>. QED
  BY <1>1, Running, PTL

\* Until the first mishap the operations take effect as if in one step: FakeImage
\* implements ImageSwitch.
THEOREM Implements == Spec => SwitchesAtOnce
<1>1. Init => Switch!Init
  BY InitSwitch
<1>2. IInv /\ IInv' /\ [Next]_allVars => [Switch!Next]_(Switch!switchVars)
  BY WreckStep, SoundStep
<1>3. Init => IInv
  BY InitIInv
<1>4. IInv /\ [Next]_allVars => IInv'
  BY NextIInv
<1>. QED
  BY <1>1, <1>2, <1>3, <1>4, PTL DEF Spec, SwitchesAtOnce, Switch!Spec
=============================================================================
