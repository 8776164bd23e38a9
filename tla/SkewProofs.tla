------------------------------ MODULE SkewProofs ------------------------------
(***************************************************************************)
(* TypeOK, InjectMeansAll and RecoverTriesBoth hold of Skew for any number *)
(* of goroutines, any variables and values, and both architectures; and    *)
(* the goroutine with the lock comes nearer to Unlock with every step.     *)
(***************************************************************************)
EXTENDS Skew, FiniteSetTheorems, WellFoundedInduction, TLAPS

Critical == {"inject", "recover", "unlock"}

\* The images that are still to come.
Left(s) == {s[i] : i \in DOMAIN s}

TodoInv ==
  \A c \in Caller :
    pc[c] \in {"inject", "recover"} => Len(todo[c]) > 0 /\ op[c] = pc[c]

\* A call that is under way has forgotten the result of the one before.
ResultInv == lock # Nobody => last.op = "none"

\* What Recover brings back is the kernel's code, and it has it back already
\* where there is nothing to bring back.
KernelInv ==
  \A f \in Symbol :
    /\ image[f].under \in {Nothing, Kernel}
    /\ image[f].under = Nothing => image[f].view = Kernel
    /\ ~image[f].entry => image[f].under = Nothing

\* An Inject that nothing interfered with has given the images behind it the
\* configuration, and it has read the same for the next one.
InjectInv ==
  \A c \in Caller : calm =>
    /\ pc[c] = "inject" =>
         /\ Usable /\ ~err[c]
         /\ \A v \in Var \ unread[c] : want[c][v] = config[v]
         /\ \A f \in Symbol \ Left(todo[c]) : image[f].view = Faked(config)
    /\ pc[c] = "unlock" /\ op[c] = "inject" /\ ~err[c] =>
         \A f \in Symbol : image[f].view = Faked(config)

\* A Recover has the kernel's code back behind it, but for what has failed.
Recovered == {"clock_gettime", "gettimeofday"} \ failed
RecoverInv ==
  \A c \in Caller :
    /\ pc[c] = "recover" => \A f \in Recovered \ Left(todo[c]) : image[f].view = Kernel
    /\ pc[c] = "unlock" /\ op[c] = "recover" => \A f \in Recovered : image[f].view = Kernel

IInv ==
  /\ TypeOK /\ TodoInv /\ ResultInv /\ KernelInv /\ InjectInv /\ RecoverInv
  /\ InjectMeansAll /\ RecoverTriesBoth

\* Nothing is not a view, and the views are what they are named.
LEMMA Views0 ==
  /\ Zero \in Settings /\ Kernel \in Views /\ Nothing \notin Views
  /\ \A w \in Settings : Faked(w) \in Views /\ Faked(w) # Kernel
  BY SettingAssumption DEF Zero, Settings, Kernel, Views, Nothing, Faked

\* Between has views, which are images.
LEMMA BetweenViews == ASSUME NEW o, NEW w PROVE Between(o, w) \subseteq Views
  BY DEF Between, Views

\* What is left of a list after its head.
LEMMA LeftOfTail ==
  ASSUME NEW s \in Seq(Symbol), Len(s) > 0
  PROVE  /\ Head(s) \in Symbol /\ Tail(s) \in Seq(Symbol)
         /\ Left(s) = {Head(s)} \cup Left(Tail(s))
         /\ Len(s) = 1 => Left(Tail(s)) = {}
         /\ Len(s) # 1 => Len(Tail(s)) > 0
         /\ Len(Tail(s)) <= Len(s)
<1>1. Len(s) \in Nat \ {0} /\ DOMAIN s = 1..Len(s)
  OBVIOUS
<1>2. Tail(s) \in Seq(Symbol) /\ Len(Tail(s)) = Len(s) - 1
  OBVIOUS
<1>3. \A i \in 1..Len(Tail(s)) : Tail(s)[i] = s[i + 1]
  BY <1>1, <1>2
<1>4. Head(s) = s[1]
  OBVIOUS
<1>5. Left(s) = {Head(s)} \cup Left(Tail(s))
  <2>1. ASSUME NEW i \in DOMAIN s PROVE s[i] \in {Head(s)} \cup Left(Tail(s))
    <3>1. CASE i = 1
      BY <3>1, <1>4
    <3>2. CASE i # 1
      <4>1. i - 1 \in DOMAIN Tail(s) /\ Tail(s)[i - 1] = s[i]
        BY <3>2, <1>1, <1>2, <1>3
      <4>. QED
        BY <4>1 DEF Left
    <3>. QED
      BY <3>1, <3>2
  <2>2. ASSUME NEW i \in DOMAIN Tail(s) PROVE Tail(s)[i] \in Left(s)
    BY <1>1, <1>2, <1>3 DEF Left
  <2>3. Head(s) \in Left(s)
    BY <1>1, <1>4 DEF Left
  <2>4. Left(s) \subseteq {Head(s)} \cup Left(Tail(s))
    BY <2>1 DEF Left
  <2>5. Left(Tail(s)) \subseteq Left(s)
    BY <2>2 DEF Left
  <2>. QED
    BY <2>3, <2>4, <2>5
<1>6. Len(s) = 1 => Left(Tail(s)) = {}
  <2>1. DOMAIN Tail(s) = 1..Len(s) - 1
    BY <1>2
  <2>. QED
    BY <2>1 DEF Left
<1>7. Len(s) # 1 => Len(Tail(s)) > 0
  BY <1>1, <1>2
<1>8. Head(s) \in Symbol
  BY <1>1, <1>4
<1>. QED
  BY <1>1, <1>2, <1>5, <1>6, <1>7, <1>8

\* Both methods have the images that they are to go through before them.
LEMMA Orders ==
  /\ InjectOrder \in Seq(Symbol) /\ Len(InjectOrder) > 0 /\ Left(InjectOrder) = Symbol
  /\ RecoverOrder \in Seq(Symbol) /\ Len(RecoverOrder) > 0
  /\ Left(RecoverOrder) = {"clock_gettime", "gettimeofday"}
  /\ {"clock_gettime", "gettimeofday"} \subseteq Symbol
  /\ Len(RecoverOrder) <= Len(InjectOrder) /\ Len(InjectOrder) \in Nat
<1>1. CASE Arch = "arm64"
  BY <1>1 DEF InjectOrder, RecoverOrder, Symbol, Left
<1>2. CASE Arch # "arm64"
  BY <1>2 DEF InjectOrder, RecoverOrder, Symbol, Left
<1>. QED
  BY <1>1, <1>2

\* Every initial state satisfies the inductive invariant.
LEMMA InitIInv == Init => IInv
<1> SUFFICES ASSUME Init PROVE IInv
  OBVIOUS
<1> USE SkewAssumption, Views0, Orders DEF Init, NoCall
<1>1. Fresh(Kernel) \in Image
  BY DEF Fresh, Image
<1>2. TypeOK
  <2>1. todo \in [Caller -> Seq(Symbol)] /\ Len(<<>>) <= Len(InjectOrder)
    OBVIOUS
  <2>2. want \in [Caller -> Settings] /\ image \in [Symbol -> Image]
    BY <1>1
  <2>3. last \in [op : {"none", "inject", "recover"}, ok : BOOLEAN]
    OBVIOUS
  <2>. QED
    BY <2>1, <2>2, <2>3 DEF TypeOK
<1>3. TodoInv /\ ResultInv /\ InjectInv /\ RecoverInv /\ InjectMeansAll /\ RecoverTriesBoth
  BY DEF TodoInv, ResultInv, InjectInv, RecoverInv, InjectMeansAll, RecoverTriesBoth
<1>4. KernelInv
  BY DEF KernelInv, Fresh
<1>. QED
  BY <1>2, <1>3, <1>4 DEF IInv

\* The images stay images, also when a step of theirs fails.
LEMMA Outcomes ==
  ASSUME NEW i \in Image, NEW w \in Settings
  PROVE  /\ AttachDone(i, w) \in Image /\ RecoverDone(i) \in Image
         /\ AttachFailed(i, w) \subseteq Image
<1>1. i.view \in Views /\ i.under \in Views \cup {Nothing} /\ i.entry \in BOOLEAN
  BY DEF Image
<1>2. AttachDone(i, w) \in Image
  BY <1>1, Views0 DEF AttachDone, Image
<1>3. RecoverDone(i) \in Image
  BY <1>1, Views0 DEF RecoverDone, Image
<1>4. Halfway(i, w) \subseteq Views
  BY <1>1, BetweenViews DEF Halfway
<1>5. AttachFailed(i, w) \subseteq Image
  BY <1>1, <1>4 DEF AttachFailed, Image
<1>. QED
  BY <1>2, <1>3, <1>5

\* Of the outcomes, what the invariant needs.
LEMMA OutcomesKernel ==
  ASSUME NEW i \in Image, NEW w \in Settings,
         i.under \in {Nothing, Kernel}, i.under = Nothing => i.view = Kernel,
         ~i.entry => i.under = Nothing
  PROVE  /\ RecoverDone(i).view = Kernel /\ RecoverDone(i).under = Nothing
         /\ LET j == AttachDone(i, w) IN
              /\ j.under \in {Nothing, Kernel}
              /\ j.under = Nothing => j.view = Kernel
              /\ j.entry
              /\ (i.entry => i.under # Nothing) => j.view = Faked(w) /\ j.under # Nothing
         /\ \A j \in AttachFailed(i, w) :
              /\ j.under \in {Nothing, Kernel}
              /\ j.under = Nothing => j.view = Kernel
              /\ ~j.entry => j.under = Nothing
<1>1. Kernel # Nothing
  BY Views0
<1>2. i = [view |-> i.view, under |-> i.under, entry |-> i.entry] /\ i.entry \in BOOLEAN
  BY DEF Image
<1>3. RecoverDone(i).view = Kernel /\ RecoverDone(i).under = Nothing
  BY <1>1, <1>2 DEF RecoverDone
<1>4. LET j == AttachDone(i, w) IN
        /\ j.under \in {Nothing, Kernel}
        /\ j.under = Nothing => j.view = Kernel
        /\ j.entry
        /\ (i.entry => i.under # Nothing) => j.view = Faked(w) /\ j.under # Nothing
  BY <1>1, <1>2 DEF AttachDone
<1>5. ASSUME NEW j \in AttachFailed(i, w)
      PROVE  /\ j.under \in {Nothing, Kernel}
             /\ j.under = Nothing => j.view = Kernel
             /\ ~j.entry => j.under = Nothing
  <2>1. CASE i.entry /\ i.under # Nothing
    BY <1>1, <1>2, <1>5, <2>1 DEF AttachFailed
  <2>2. CASE i.entry /\ i.under = Nothing
    <3>1. Halfway(i, w) = {i.view}
      BY <2>2 DEF Halfway
    <3>. QED
      BY <1>1, <1>2, <1>5, <2>2, <3>1 DEF AttachFailed
  <2>3. CASE ~i.entry
    BY <1>1, <1>2, <1>5, <2>3 DEF AttachFailed
  <2>. QED
    BY <1>2, <2>1, <2>2, <2>3
<1>. QED
  BY <1>3, <1>4, <1>5

\* No step of a goroutine or of the process breaks it.
LEMMA NextIInv == IInv /\ [Next]_vars => IInv'
<1> SUFFICES ASSUME IInv, [Next]_vars PROVE IInv'
  OBVIOUS
<1> USE SkewAssumption DEF IInv, locals, history
<1>1. ASSUME NEW c \in Caller, NEW o \in {"inject", "recover"}, Call(c, o) PROVE IInv'
  <2>1. TypeOK'
    BY <1>1 DEF Call, Go, TypeOK
  <2>2. TodoInv'
    BY <1>1 DEF Call, Go, TypeOK, TodoInv
  <2>3. ResultInv'
    BY <1>1 DEF Call, Go, TypeOK, ResultInv
  <2>4. KernelInv'
    BY <1>1 DEF Call, Go, TypeOK, KernelInv
  <2>5. InjectInv'
    BY <1>1 DEF Call, Go, TypeOK, InjectInv, Usable
  <2>6. RecoverInv'
    BY <1>1 DEF Call, Go, TypeOK, RecoverInv, Recovered
  <2>7. InjectMeansAll'
    BY <1>1 DEF Call, Go, TypeOK, InjectMeansAll
  <2>8. RecoverTriesBoth'
    BY <1>1 DEF Call, Go, TypeOK, RecoverTriesBoth
  <2>. QED
    BY <2>1, <2>2, <2>3, <2>4, <2>5, <2>6, <2>7, <2>8
<1>2. ASSUME NEW c \in Caller, Lock(c) PROVE IInv'
  <2>1. TypeOK'
    <3>1. /\ todo' \in [Caller -> Seq(Symbol)]
          /\ \A d \in Caller : Len(todo'[d]) <= Len(InjectOrder)
      BY <1>2, Orders DEF Lock, TypeOK
    <3>2. pc' \in [Caller -> {"idle", "lock", "inject", "recover", "unlock", "merge"}]
      BY <1>2 DEF Lock, Go, TypeOK
    <3>3. \A d \in Caller : pc'[d] \in {"inject", "recover", "unlock"} => lock' = d
      BY <1>2 DEF Lock, LockFree, Go, TypeOK
    <3>4. last' \in [op : {"none", "inject", "recover"}, ok : BOOLEAN]
      BY <1>2 DEF Lock, NoCall
    <3>5. calm' \in BOOLEAN
      BY <1>2 DEF Lock, Usable
    <3>. QED
      BY <1>2, <3>1, <3>2, <3>3, <3>4, <3>5 DEF Lock, TypeOK
  <2>2. TodoInv'
    BY <1>2, Orders, Views0 DEF NoCall, Lock, LockFree, Go, TypeOK, TodoInv
  <2>3. ResultInv'
    BY <1>2, Orders, Views0 DEF NoCall, Lock, LockFree, Go, TypeOK, ResultInv
  <2>4. KernelInv'
    BY <1>2, Orders, Views0 DEF NoCall, Lock, LockFree, Go, TypeOK, KernelInv
  <2>5. InjectInv'
    BY <1>2, Orders, Views0 DEF NoCall, Lock, LockFree, Go, TypeOK, InjectInv, Usable
  <2>6. RecoverInv'
    BY <1>2, Orders, Views0 DEF NoCall, Lock, LockFree, Go, TypeOK, RecoverInv, Recovered
  <2>7. InjectMeansAll'
    BY <1>2, Orders, Views0 DEF NoCall, Lock, LockFree, Go, TypeOK, InjectMeansAll
  <2>8. RecoverTriesBoth'
    BY <1>2, Orders, Views0 DEF NoCall, Lock, LockFree, Go, TypeOK, RecoverTriesBoth
  <2>. QED
    BY <2>1, <2>2, <2>3, <2>4, <2>5, <2>6, <2>7, <2>8
<1>3. ASSUME NEW c \in Caller, Attach(c) PROVE IInv'
  <2> DEFINE f == Head(todo[c])
             j == AttachDone(image[f], want[c])
  <2>1. pc[c] = "inject" /\ lock = c /\ op[c] = "inject"
        /\ todo[c] \in Seq(Symbol) /\ Len(todo[c]) > 0
    BY <1>3 DEF Attach, TypeOK, TodoInv
  <2>2. /\ f \in Symbol /\ Tail(todo[c]) \in Seq(Symbol)
        /\ Left(todo[c]) = {f} \cup Left(Tail(todo[c]))
        /\ Len(todo[c]) = 1 => Left(Tail(todo[c])) = {}
        /\ Len(todo[c]) # 1 => Len(Tail(todo[c])) > 0
        /\ Len(Tail(todo[c])) <= Len(todo[c])
    BY <2>1, LeftOfTail
  <2>3. /\ image[f] \in Image /\ want[c] \in Settings
        /\ image[f].under \in {Nothing, Kernel}
        /\ image[f].under = Nothing => image[f].view = Kernel
        /\ ~image[f].entry => image[f].under = Nothing
    BY <2>2 DEF TypeOK, KernelInv
  <2>4. /\ j \in Image /\ j.under \in {Nothing, Kernel}
        /\ j.under = Nothing => j.view = Kernel
        /\ j.entry
        /\ (image[f].entry => image[f].under # Nothing) => j.view = Faked(want[c]) /\ j.under # Nothing
    BY <2>3, Outcomes, OutcomesKernel
  <2>5. /\ image' = [image EXCEPT ![f] = j] /\ todo' = [todo EXCEPT ![c] = Tail(todo[c])]
        /\ unread' = [unread EXCEPT ![c] = Var] /\ unread[c] = {}
        /\ pc' = [pc EXCEPT ![c] = IF Len(todo[c]) = 1 THEN "unlock" ELSE pc[c]]
        /\ UNCHANGED <<config, lock, op, want, err, last, failed, calm>>
    BY <1>3 DEF Attach, Advance, Go, TypeOK
  <2> HIDE DEF f, j
  <2>6. TypeOK'
    BY <2>1, <2>2, <2>4, <2>5 DEF TypeOK
  <2>7. TodoInv'
    BY <2>1, <2>2, <2>5 DEF TodoInv, TypeOK
  <2>8. ResultInv'
    BY <2>5 DEF ResultInv
  <2>9. KernelInv'
    BY <2>2, <2>4, <2>5 DEF KernelInv, TypeOK
  <2>10. InjectInv'
    <3>1. ASSUME calm PROVE Usable' /\ j.view = Faked(config)
      <4>1. Usable /\ \A v \in Var : want[c][v] = config[v]
        BY <2>1, <2>5, <3>1 DEF InjectInv
      <4>2. want[c] = config
        BY <2>3, <4>1 DEF Settings, TypeOK
      <4>. QED
        BY <2>2, <2>4, <2>5, <4>1, <4>2 DEF Usable, TypeOK
    <3>2. ASSUME NEW d \in Caller, d # c PROVE pc'[d] \notin Critical
      BY <2>1, <2>5, <3>2 DEF TypeOK, Critical
    <3>3. ASSUME calm
          PROVE  /\ ~err[c]
                 /\ \A g \in Symbol \ Left(Tail(todo[c])) : image'[g].view = Faked(config)
      BY <2>1, <2>2, <2>5, <3>1, <3>3 DEF InjectInv, TypeOK
    <3>4. pc'[c] = "unlock" => Left(Tail(todo[c])) = {}
      BY <2>1, <2>2, <2>5 DEF TypeOK
    <3>. QED
      BY <2>1, <2>5, <3>1, <3>2, <3>3, <3>4 DEF InjectInv, TypeOK, Critical
  <2>11. RecoverInv'
    BY <2>1, <2>5 DEF RecoverInv, TypeOK
  <2>12. InjectMeansAll' /\ RecoverTriesBoth'
    BY <2>1, <2>5, SkewAssumption DEF InjectMeansAll, RecoverTriesBoth, ResultInv
  <2>. QED
    BY <2>6, <2>7, <2>8, <2>9, <2>10, <2>11, <2>12
<1>4. ASSUME NEW c \in Caller, AttachFails(c) PROVE IInv'
  <2> DEFINE f == Head(todo[c])
  <2>1. pc[c] = "inject" /\ lock = c /\ op[c] = "inject"
        /\ todo[c] \in Seq(Symbol) /\ Len(todo[c]) > 0
    BY <1>4 DEF AttachFails, TypeOK, TodoInv
  <2>2. f \in Symbol
    BY <2>1, LeftOfTail
  <2>3. /\ image[f] \in Image /\ want[c] \in Settings
        /\ image[f].under \in {Nothing, Kernel}
        /\ image[f].under = Nothing => image[f].view = Kernel
        /\ ~image[f].entry => image[f].under = Nothing
    BY <2>2 DEF TypeOK, KernelInv
  <2>4. PICK j \in AttachFailed(image[f], want[c]) : image' = [image EXCEPT ![f] = j]
    BY <1>4 DEF AttachFails
  <2>5. /\ j \in Image /\ j.under \in {Nothing, Kernel}
        /\ j.under = Nothing => j.view = Kernel
        /\ ~j.entry => j.under = Nothing
    BY <2>3, <2>4, Outcomes, OutcomesKernel
  <2>6. /\ pc' = [pc EXCEPT ![c] = "unlock"] /\ err' = [err EXCEPT ![c] = TRUE]
        /\ failed' = failed \cup {f}
        /\ UNCHANGED <<config, lock, op, todo, want, unread, last, calm>>
    BY <1>4 DEF AttachFails, ReturnError, Go
  <2> HIDE DEF f
  <2>7. TypeOK'
    BY <2>1, <2>2, <2>4, <2>5, <2>6 DEF TypeOK
  <2>8. TodoInv' /\ ResultInv'
    BY <2>6 DEF TodoInv, ResultInv, TypeOK
  <2>9. KernelInv'
    BY <2>2, <2>4, <2>5, <2>6 DEF KernelInv, TypeOK
  <2>10. InjectInv' /\ RecoverInv'
    <3>1. ASSUME NEW d \in Caller, d # c PROVE pc'[d] \notin Critical
      BY <2>1, <2>6, <3>1 DEF TypeOK, Critical
    <3>. QED
      BY <2>1, <2>6, <3>1 DEF InjectInv, RecoverInv, TypeOK, Critical
  <2>11. InjectMeansAll' /\ RecoverTriesBoth'
    BY <2>1, <2>6, SkewAssumption DEF InjectMeansAll, RecoverTriesBoth, ResultInv
  <2>. QED
    BY <2>7, <2>8, <2>9, <2>10, <2>11
<1>5. ASSUME NEW c \in Caller, Recover(c) PROVE IInv'
  <2> DEFINE f == Head(todo[c])
             j == RecoverDone(image[f])
  <2>1. pc[c] = "recover" /\ lock = c /\ op[c] = "recover"
        /\ todo[c] \in Seq(Symbol) /\ Len(todo[c]) > 0
    BY <1>5 DEF Recover, TypeOK, TodoInv
  <2>2. /\ f \in Symbol /\ Tail(todo[c]) \in Seq(Symbol)
        /\ Left(todo[c]) = {f} \cup Left(Tail(todo[c]))
        /\ Len(todo[c]) = 1 => Left(Tail(todo[c])) = {}
        /\ Len(todo[c]) # 1 => Len(Tail(todo[c])) > 0
        /\ Len(Tail(todo[c])) <= Len(todo[c])
    BY <2>1, LeftOfTail
  <2>3. /\ image[f] \in Image /\ want[c] \in Settings
        /\ image[f].under \in {Nothing, Kernel}
        /\ image[f].under = Nothing => image[f].view = Kernel
        /\ ~image[f].entry => image[f].under = Nothing
    BY <2>2 DEF TypeOK, KernelInv
  <2>4. j \in Image /\ j.view = Kernel /\ j.under = Nothing
    BY <2>3, Outcomes, OutcomesKernel
  <2>5. /\ image' = [image EXCEPT ![f] = j] /\ todo' = [todo EXCEPT ![c] = Tail(todo[c])]
        /\ pc' = [pc EXCEPT ![c] = IF Len(todo[c]) = 1 THEN "unlock" ELSE pc[c]]
        /\ UNCHANGED <<config, lock, op, want, unread, err, last, failed, calm>>
    BY <1>5 DEF Recover, Advance, Go, TypeOK, history
  <2> HIDE DEF f, j
  <2>6. TypeOK'
    BY <2>1, <2>2, <2>4, <2>5 DEF TypeOK
  <2>7. TodoInv' /\ ResultInv'
    BY <2>1, <2>2, <2>5 DEF TodoInv, ResultInv, TypeOK
  <2>8. KernelInv'
    BY <2>2, <2>4, <2>5 DEF KernelInv, TypeOK
  <2>9. ASSUME NEW d \in Caller, d # c PROVE pc'[d] \notin Critical
    BY <2>1, <2>5, <2>9 DEF TypeOK, Critical
  <2>10. InjectInv'
    BY <2>1, <2>5, <2>9 DEF InjectInv, TypeOK, Critical
  <2>11. RecoverInv'
    <3>1. \A g \in Recovered \ Left(Tail(todo[c])) : image'[g].view = Kernel
      BY <2>1, <2>2, <2>4, <2>5, Orders DEF RecoverInv, Recovered, TypeOK
    <3>2. pc'[c] = "unlock" => Left(Tail(todo[c])) = {}
      BY <2>1, <2>2, <2>5 DEF TypeOK
    <3>. QED
      BY <2>1, <2>5, <2>9, <3>1, <3>2 DEF RecoverInv, Recovered, TypeOK, Critical
  <2>12. InjectMeansAll' /\ RecoverTriesBoth'
    BY <2>1, <2>5, SkewAssumption DEF InjectMeansAll, RecoverTriesBoth, ResultInv
  <2>. QED
    BY <2>6, <2>7, <2>8, <2>10, <2>11, <2>12
<1>6. ASSUME NEW c \in Caller, RecoverFails(c) PROVE IInv'
  <2> DEFINE f == Head(todo[c])
  <2>1. pc[c] = "recover" /\ lock = c /\ op[c] = "recover"
        /\ todo[c] \in Seq(Symbol) /\ Len(todo[c]) > 0
    BY <1>6 DEF RecoverFails, TypeOK, TodoInv
  <2>2. /\ f \in Symbol /\ Tail(todo[c]) \in Seq(Symbol)
        /\ Left(todo[c]) = {f} \cup Left(Tail(todo[c]))
        /\ Len(todo[c]) = 1 => Left(Tail(todo[c])) = {}
        /\ Len(todo[c]) # 1 => Len(Tail(todo[c])) > 0
        /\ Len(Tail(todo[c])) <= Len(todo[c])
    BY <2>1, LeftOfTail
  <2>3. /\ err' = [err EXCEPT ![c] = TRUE] /\ failed' = failed \cup {f}
        /\ todo' = [todo EXCEPT ![c] = Tail(todo[c])]
        /\ pc' = [pc EXCEPT ![c] = IF Len(todo[c]) = 1 THEN "unlock" ELSE pc[c]]
        /\ UNCHANGED <<image, config, lock, op, want, unread, last, calm>>
    BY <1>6 DEF RecoverFails, AfterRecoverError, Advance, Go, TypeOK
  <2> HIDE DEF f
  <2>4. TypeOK'
    BY <2>1, <2>2, <2>3 DEF TypeOK
  <2>5. TodoInv' /\ ResultInv' /\ KernelInv'
    BY <2>1, <2>2, <2>3 DEF TodoInv, ResultInv, KernelInv, TypeOK
  <2>6. ASSUME NEW d \in Caller, d # c PROVE pc'[d] \notin Critical
    BY <2>1, <2>3, <2>6 DEF TypeOK, Critical
  <2>7. InjectInv'
    BY <2>1, <2>3, <2>6 DEF InjectInv, TypeOK, Critical
  <2>8. RecoverInv'
    <3>1. pc'[c] = "unlock" => Left(Tail(todo[c])) = {}
      BY <2>1, <2>2, <2>3 DEF TypeOK
    <3>. QED
      BY <2>1, <2>2, <2>3, <2>6, <3>1 DEF RecoverInv, Recovered, TypeOK, Critical
  <2>9. InjectMeansAll' /\ RecoverTriesBoth'
    BY <2>1, <2>3, SkewAssumption DEF InjectMeansAll, RecoverTriesBoth, ResultInv
  <2>. QED
    BY <2>4, <2>5, <2>7, <2>8, <2>9
<1>7. ASSUME NEW c \in Caller, Unlock(c) PROVE IInv'
  <2>1. TypeOK'
    BY <1>7, Views0 DEF Unlock, Go, TypeOK
  <2>2. TodoInv'
    BY <1>7, Views0 DEF Unlock, Go, TypeOK, TodoInv
  <2>3. ResultInv'
    BY <1>7, Views0 DEF Unlock, Go, TypeOK, ResultInv
  <2>4. KernelInv'
    BY <1>7, Views0 DEF Unlock, Go, TypeOK, KernelInv
  <2>5. InjectInv'
    BY <1>7, Views0 DEF Unlock, Go, TypeOK, InjectInv, Usable
  <2>6. RecoverInv'
    BY <1>7, Views0 DEF Unlock, Go, TypeOK, RecoverInv, Recovered
  <2>7. InjectMeansAll'
    BY <1>7 DEF Unlock, Go, TypeOK, InjectInv, InjectMeansAll
  <2>8. RecoverTriesBoth'
    BY <1>7 DEF Unlock, Go, TypeOK, RecoverInv, Recovered, RecoverTriesBoth
  <2>. QED
    BY <2>1, <2>2, <2>3, <2>4, <2>5, <2>6, <2>7, <2>8
<1>8. ASSUME NEW c \in Caller, NEW v \in Var, ReadField(c, v) PROVE IInv'
  <2>1. TypeOK'
    BY <1>8, Views0 DEF Settings, ReadField, TypeOK
  <2>2. TodoInv'
    BY <1>8, Views0 DEF Settings, ReadField, TypeOK, TodoInv
  <2>3. ResultInv'
    BY <1>8, Views0 DEF Settings, ReadField, TypeOK, ResultInv
  <2>4. KernelInv'
    BY <1>8, Views0 DEF Settings, ReadField, TypeOK, KernelInv
  <2>5. InjectInv'
    BY <1>8, Views0 DEF Settings, ReadField, TypeOK, InjectInv, Usable
  <2>6. RecoverInv'
    BY <1>8, Views0 DEF Settings, ReadField, TypeOK, RecoverInv, Recovered
  <2>7. InjectMeansAll'
    BY <1>8, Views0 DEF Settings, ReadField, TypeOK, InjectMeansAll
  <2>8. RecoverTriesBoth'
    BY <1>8, Views0 DEF Settings, ReadField, TypeOK, RecoverTriesBoth
  <2>. QED
    BY <2>1, <2>2, <2>3, <2>4, <2>5, <2>6, <2>7, <2>8
<1>9. ASSUME NEW c \in Caller, Merge(c) PROVE IInv'
  <2>1. TypeOK'
    BY <1>9 DEF Merge, Go, TypeOK
  <2>2. TodoInv'
    BY <1>9 DEF Merge, Go, TypeOK, TodoInv
  <2>3. ResultInv'
    BY <1>9 DEF Merge, Go, TypeOK, ResultInv
  <2>4. KernelInv'
    BY <1>9 DEF Merge, Go, TypeOK, KernelInv
  <2>5. InjectInv'
    BY <1>9 DEF Merge, Go, TypeOK, InjectInv, Usable
  <2>6. RecoverInv'
    BY <1>9 DEF Merge, Go, TypeOK, RecoverInv, Recovered
  <2>7. InjectMeansAll'
    BY <1>9 DEF Merge, Go, TypeOK, InjectMeansAll
  <2>8. RecoverTriesBoth'
    BY <1>9 DEF Merge, Go, TypeOK, RecoverTriesBoth
  <2>. QED
    BY <2>1, <2>2, <2>3, <2>4, <2>5, <2>6, <2>7, <2>8
<1>10. ASSUME NEW c \in Caller, NEW v \in Var, MergeField(c, v) PROVE IInv'
  <2>1. TypeOK'
    BY <1>10, Views0 DEF Settings, MergeField, TypeOK
  <2>2. TodoInv'
    BY <1>10, Views0 DEF Settings, MergeField, TypeOK, TodoInv
  <2>3. ResultInv'
    BY <1>10, Views0 DEF Settings, MergeField, TypeOK, ResultInv
  <2>4. KernelInv'
    BY <1>10, Views0 DEF Settings, MergeField, TypeOK, KernelInv
  <2>5. InjectInv'
    BY <1>10, Views0 DEF Settings, MergeField, TypeOK, InjectInv, Usable
  <2>6. RecoverInv'
    BY <1>10, Views0 DEF Settings, MergeField, TypeOK, RecoverInv, Recovered
  <2>7. InjectMeansAll'
    BY <1>10, Views0 DEF Settings, MergeField, TypeOK, InjectMeansAll
  <2>8. RecoverTriesBoth'
    BY <1>10, Views0 DEF Settings, MergeField, TypeOK, RecoverTriesBoth
  <2>. QED
    BY <2>1, <2>2, <2>3, <2>4, <2>5, <2>6, <2>7, <2>8
<1>11. ASSUME NEW c \in Caller, Merged(c) PROVE IInv'
  <2>1. TypeOK'
    BY <1>11 DEF Merged, Go, TypeOK
  <2>2. TodoInv'
    BY <1>11 DEF Merged, Go, TypeOK, TodoInv
  <2>3. ResultInv'
    BY <1>11 DEF Merged, Go, TypeOK, ResultInv
  <2>4. KernelInv'
    BY <1>11 DEF Merged, Go, TypeOK, KernelInv
  <2>5. InjectInv'
    BY <1>11 DEF Merged, Go, TypeOK, InjectInv, Usable
  <2>6. RecoverInv'
    BY <1>11 DEF Merged, Go, TypeOK, RecoverInv, Recovered
  <2>7. InjectMeansAll'
    BY <1>11 DEF Merged, Go, TypeOK, InjectMeansAll
  <2>8. RecoverTriesBoth'
    BY <1>11 DEF Merged, Go, TypeOK, RecoverTriesBoth
  <2>. QED
    BY <2>1, <2>2, <2>3, <2>4, <2>5, <2>6, <2>7, <2>8
<1>12. CASE Exec
  <2>1. TypeOK'
    BY <1>12, Views0, Orders DEF Fresh, Image, Exec, TypeOK
  <2>2. TodoInv'
    BY <1>12, Views0, Orders DEF Fresh, Image, Exec, TypeOK, TodoInv
  <2>3. ResultInv'
    BY <1>12, Views0, Orders DEF Fresh, Image, Exec, TypeOK, ResultInv
  <2>4. KernelInv'
    BY <1>12, Views0, Orders DEF Fresh, Image, Exec, TypeOK, KernelInv
  <2>5. InjectInv'
    BY <1>12, Views0, Orders DEF Fresh, Image, Exec, TypeOK, InjectInv, Usable
  <2>6. RecoverInv'
    BY <1>12, Views0, Orders DEF Fresh, Image, Exec, TypeOK, RecoverInv, Recovered
  <2>7. InjectMeansAll'
    BY <1>12, Views0, Orders DEF Fresh, Image, Exec, TypeOK, InjectMeansAll
  <2>8. RecoverTriesBoth'
    BY <1>12, Views0, Orders DEF Fresh, Image, Exec, TypeOK, RecoverTriesBoth
  <2>. QED
    BY <2>1, <2>2, <2>3, <2>4, <2>5, <2>6, <2>7, <2>8
<1>13. CASE UNCHANGED vars
  <2>1. TypeOK'
    BY <1>13 DEF vars, TypeOK
  <2>2. TodoInv'
    BY <1>13 DEF vars, TypeOK, TodoInv
  <2>3. ResultInv'
    BY <1>13 DEF vars, TypeOK, ResultInv
  <2>4. KernelInv'
    BY <1>13 DEF vars, TypeOK, KernelInv
  <2>5. InjectInv'
    BY <1>13 DEF vars, TypeOK, InjectInv, Usable
  <2>6. RecoverInv'
    BY <1>13 DEF vars, TypeOK, RecoverInv, Recovered
  <2>7. InjectMeansAll'
    BY <1>13 DEF vars, TypeOK, InjectMeansAll
  <2>8. RecoverTriesBoth'
    BY <1>13 DEF vars, TypeOK, RecoverTriesBoth
  <2>. QED
    BY <2>1, <2>2, <2>3, <2>4, <2>5, <2>6, <2>7, <2>8
<1>. QED
  BY <1>1, <1>2, <1>3, <1>4, <1>5, <1>6, <1>7, <1>8, <1>9, <1>10, <1>11, <1>12, <1>13 DEF Next, Method

\* The inductive invariant holds of every reachable state.
THEOREM Invariance == Spec => []IInv
  BY InitIInv, NextIInv, PTL DEF Spec

\* Every variable keeps its type, and no two goroutines are inside Inject or Recover at
\* once, however many there are.
THEOREM TypeCorrect == Spec => []TypeOK
  BY Invariance, PTL DEF IInv

\* An Inject that returns nil has set all clocks, for any number of goroutines that
\* inject, recover and merge around it.
THEOREM AllClocks == Spec => []InjectMeansAll
  BY Invariance, PTL DEF IInv

\* A Recover that returns has the kernel's code back wherever it did not fail, whatever
\* state the Injects before have left behind.
THEOREM KernelBack == Spec => []RecoverTriesBoth
  BY Invariance, PTL DEF IInv

(***************************************************************************)
(* The way to Unlock                                                       *)
(***************************************************************************)

\* What a goroutine with the lock has left: Unlock, images, fields to read.
Stage(c) ==
  CASE pc[c] \in {"inject", "recover"} -> 2 [] pc[c] = "unlock" -> 1 [] OTHER -> 0
ToDo(c) == <<Stage(c), Len(todo[c]), Cardinality(unread[c])>>

\* Three numbers in lexicographic order.
Shorter == LexProductOrdering(OpToRel(<, Nat), Nat, 3)

Holding(c) == pc[c] \in Critical

\* Every step of a goroutine with the lock, a failure included, leaves it less to do, and
\* no other goroutine gives it more.
HolderDescends(c) ==
  [][Holding(c) => <<ToDo(c)', ToDo(c)>> \in Shorter]_<<pc[c], todo[c], unread[c]>>

\* There is no endless descent in this order.
THEOREM ShorterIsWellFounded == IsWellFoundedOn(Shorter, [1..3 -> Nat])
  BY NatLessThanWellFounded, WFLexProductOrdering DEF Shorter

\* The first number that differs decides.
LEMMA FirstDecides ==
  ASSUME NEW new \in [1..3 -> Nat], NEW old \in [1..3 -> Nat], NEW j \in 1..3,
         new[j] < old[j], \A k \in 1..(j - 1) : new[k] = old[k]
  PROVE  <<new, old>> \in Shorter
<1> DEFINE Less == OpToRel(<, Nat)
<1>1. <<new[j], old[j]>> \in Less
  BY DEF OpToRel
<1> HIDE DEF Less
<1>. QED
  BY <1>1 DEF Shorter, LexProductOrdering, Less

\* What is left is counted by three numbers.
Counted(c) == ToDo(c) \in [1..3 -> Nat] /\ IsFiniteSet(unread[c])

\* That is so for a finite number of variables.
LEMMA ToDoCounted ==
  ASSUME IsFiniteSet(Var), TypeOK, NEW c \in Caller
  PROVE  Counted(c)
<1>1. IsFiniteSet(unread[c]) /\ Cardinality(unread[c]) \in Nat
  <2>1. unread[c] \in SUBSET Var
    BY DEF TypeOK
  <2>2. IsFiniteSet(unread[c])
    BY <2>1, FS_Subset
  <2>. QED
    BY <2>2, FS_CardinalityType
<1>2. Len(todo[c]) \in Nat
  <2>1. todo[c] \in Seq(Symbol)
    BY DEF TypeOK
  <2>. QED
    BY <2>1
<1>3. Stage(c) \in Nat
  BY DEF Stage
<1> DEFINE l == Len(todo[c])
           u == Cardinality(unread[c])
<1>4. ToDo(c) = <<Stage(c), l, u>> /\ l \in Nat /\ u \in Nat
  BY <1>1, <1>2 DEF ToDo
<1> HIDE DEF l, u
<1>5. ToDo(c) \in [1..3 -> Nat]
  BY <1>3, <1>4
<1>. QED
  BY <1>1, <1>5 DEF Counted

\* What a step leaves less of decides.
LEMMA LessToDo ==
  ASSUME NEW c \in Caller, Counted(c), Counted(c)'
  PROVE  /\ Stage(c)' < Stage(c) => <<ToDo(c)', ToDo(c)>> \in Shorter
         /\ Stage(c)' = Stage(c) =>
              /\ Len(todo'[c]) < Len(todo[c]) => <<ToDo(c)', ToDo(c)>> \in Shorter
              /\ \A v \in unread[c] :
                   todo'[c] = todo[c] /\ unread'[c] = unread[c] \ {v}
                     => <<ToDo(c)', ToDo(c)>> \in Shorter
<1> DEFINE new == ToDo(c)'
           old == ToDo(c)
<1>1. new \in [1..3 -> Nat] /\ old \in [1..3 -> Nat]
  BY DEF Counted
<1>2. /\ new[1] = Stage(c)' /\ old[1] = Stage(c)
      /\ new[2] = Len(todo'[c]) /\ old[2] = Len(todo[c])
      /\ new[3] = Cardinality(unread'[c]) /\ old[3] = Cardinality(unread[c])
  BY DEF ToDo
<1> HIDE DEF new, old
<1>3. ASSUME NEW j \in 1..3, new[j] < old[j], \A k \in 1..(j - 1) : new[k] = old[k]
      PROVE  <<new, old>> \in Shorter
  BY <1>1, <1>3, FirstDecides
<1>4. ASSUME Stage(c)' < Stage(c) PROVE <<new, old>> \in Shorter
  <2>1. new[1] < old[1] /\ \A k \in 1..(1 - 1) : new[k] = old[k]
    BY <1>2, <1>4
  <2>. QED
    BY <1>3, <2>1
<1>5. ASSUME Stage(c)' = Stage(c), Len(todo'[c]) < Len(todo[c]) PROVE <<new, old>> \in Shorter
  <2>1. new[2] < old[2] /\ \A k \in 1..(2 - 1) : new[k] = old[k]
    BY <1>2, <1>5
  <2>. QED
    BY <1>3, <2>1
<1>6. ASSUME Stage(c)' = Stage(c), todo'[c] = todo[c],
             NEW v \in unread[c], unread'[c] = unread[c] \ {v}
      PROVE  <<new, old>> \in Shorter
  <2>1. new[1] = old[1] /\ new[2] = old[2]
    BY <1>2, <1>6
  <2>2. Cardinality(unread'[c]) = Cardinality(unread[c]) - 1 /\ Cardinality(unread[c]) \in Nat
    BY <1>6, FS_RemoveElement, FS_CardinalityType DEF Counted
  <2>3. new[3] < old[3]
    BY <1>2, <2>2
  <2>4. \A k \in 1..(3 - 1) : new[k] = old[k]
    BY <2>1
  <2>. QED
    BY <1>3, <2>3, <2>4
<1>. QED
  BY <1>4, <1>5, <1>6 DEF new, old

\* On to the next image, or to Unlock.
LEMMA AdvanceDescends ==
  ASSUME TypeOK, TodoInv, NEW c \in Caller, Counted(c), Counted(c)',
         pc[c] \in {"inject", "recover"}, Advance(c)
  PROVE  <<ToDo(c)', ToDo(c)>> \in Shorter
<1>1. todo[c] \in Seq(Symbol) /\ Len(todo[c]) > 0 /\ todo' = [todo EXCEPT ![c] = Tail(@)]
  BY DEF TypeOK, TodoInv, Advance
<1>2. todo'[c] = Tail(todo[c])
  BY <1>1 DEF TypeOK
<1>3. Len(todo'[c]) < Len(todo[c])
  <2> DEFINE s == todo[c]
  <2>1. s \in Seq(Symbol) /\ Len(s) > 0
    BY <1>1
  <2> HIDE DEF s
  <2>2. Len(Tail(s)) = Len(s) - 1 /\ Len(s) \in Nat
    BY <2>1
  <2>3. Len(Tail(s)) < Len(s)
    BY <2>2
  <2>. QED
    BY <1>2, <2>3 DEF s
<1>4. Stage(c)' < Stage(c) \/ Stage(c)' = Stage(c)
  <2>1. pc' = [pc EXCEPT ![c] = "unlock"] \/ pc' = pc
    BY DEF Advance, Go
  <2>2. pc'[c] = "unlock" \/ pc'[c] = pc[c]
    BY <2>1 DEF TypeOK
  <2>. QED
    BY <2>2 DEF Stage
<1>. QED
  BY <1>3, <1>4, LessToDo

\* Every step of the goroutine with the lock goes down.
LEMMA HolderStep ==
  ASSUME TypeOK, TodoInv, NEW c \in Caller, Counted(c), Counted(c)', [Next]_vars,
         Holding(c), ~UNCHANGED <<pc[c], todo[c], unread[c]>>
  PROVE  <<ToDo(c)', ToDo(c)>> \in Shorter
<1> USE DEF Holding, Critical
<1>1. ASSUME NEW d \in Caller, d # c
      PROVE  /\ ~(Call(d, "inject") \/ Call(d, "recover") \/ Lock(d) \/ Method(d))
             /\ ~(Merge(d) \/ Merged(d) \/ \E v \in Var : MergeField(d, v))
  BY <1>1 DEF TypeOK, Call, Lock, Method, Attach, AttachFails, Recover, RecoverFails, Unlock,
     ReadField, Merge, Merged, MergeField, Advance, ReturnError, AfterRecoverError, Go
<1>2. /\ ~(Call(c, "inject") \/ Call(c, "recover") \/ Lock(c))
      /\ ~(Merge(c) \/ Merged(c) \/ \E v \in Var : MergeField(c, v))
  BY DEF Call, Lock, Merge, Merged, MergeField
<1>3. ~Exec /\ ~UNCHANGED vars
  BY DEF Exec, vars, locals
<1>4. Method(c)
  BY <1>1, <1>2, <1>3 DEF Next
<1>5. CASE Attach(c) \/ Recover(c) \/ RecoverFails(c)
  <2>1. pc[c] \in {"inject", "recover"} /\ Advance(c)
    BY <1>5 DEF Attach, Recover, RecoverFails, AfterRecoverError
  <2>. QED
    BY <2>1, AdvanceDescends
<1>6. CASE AttachFails(c) \/ Unlock(c)
  <2>1. \/ pc[c] = "inject" /\ pc' = [pc EXCEPT ![c] = "unlock"]
        \/ pc[c] = "unlock" /\ pc' = [pc EXCEPT ![c] = "idle"]
    BY <1>6 DEF AttachFails, ReturnError, Unlock, Go
  <2>2. \/ pc[c] = "inject" /\ pc'[c] = "unlock"
        \/ pc[c] = "unlock" /\ pc'[c] = "idle"
    BY <2>1 DEF TypeOK
  <2>3. Stage(c)' < Stage(c)
    BY <2>2 DEF Stage
  <2>. QED
    BY <2>3, LessToDo
<1>7. ASSUME NEW v \in Var, ReadField(c, v) PROVE <<ToDo(c)', ToDo(c)>> \in Shorter
  <2>1. /\ v \in unread[c] /\ UNCHANGED <<pc, todo>>
        /\ unread' = [unread EXCEPT ![c] = @ \ {v}]
    BY <1>7 DEF ReadField
  <2>2. unread'[c] = unread[c] \ {v}
    BY <2>1 DEF TypeOK
  <2>3. Stage(c)' = Stage(c)
    BY <2>1 DEF Stage
  <2>. QED
    BY <2>1, <2>2, <2>3, LessToDo
<1>. QED
  BY <1>4, <1>5, <1>6, <1>7 DEF Method

\* For any number of goroutines and whatever fails, each step of the one with the lock goes
\* down in a well-founded order: Inject and Recover cannot keep the lock for ever by going
\* on.
THEOREM HolderAdvances ==
  ASSUME IsFiniteSet(Var), NEW c \in Caller
  PROVE  Spec => HolderDescends(c)
<1>1. IInv => TypeOK /\ TodoInv /\ Counted(c)
  BY ToDoCounted DEF IInv
<1>2. TypeOK /\ TodoInv /\ Counted(c) /\ Counted(c)' /\ [Next]_vars
      => [Holding(c) => <<ToDo(c)', ToDo(c)>> \in Shorter]_<<pc[c], todo[c], unread[c]>>
  BY HolderStep
<1>. QED
  BY <1>1, <1>2, Invariance, PTL DEF Spec, HolderDescends
=============================================================================
