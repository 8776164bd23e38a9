-------------------------- MODULE ThreadTraceProofs --------------------------
(***************************************************************************)
(* TypeOK, StopTheWorld and NoThreadLeftBehind hold of ThreadTrace for     *)
(* every set of threads, finite or not; and a session goes on for ever     *)
(* only if the target spawns for ever.                                     *)
(***************************************************************************)
EXTENDS ThreadTrace, FiniteSetTheorems, WellFoundedInduction, TLAPS

Attaching == pc \in {"readdir", "visit", "interrupt", "wait", "maps"}

\* A thread that is known is stopped or dead, and a thread that is stopped is
\* known to the cleanup, from the first round to the end of the session.
KnownNeverRuns ==
  /\ Attaching \/ pc = "held" => \A t \in tidMap : thread[t] \notin {"none", "run"}
  /\ Attaching => \A t \in Tid : thread[t] = "stop" => t \in attached

\* Only the thread being attached may run while it is traced.
OneAtATime ==
  /\ \A t \in seized : thread[t] # "none"
  /\ \A t \in asked : thread[t] = "run"
  /\ \A t \in seized : thread[t] = "run" => pc \in {"interrupt", "wait"} /\ t = tid
  /\ pc = "interrupt" => tid \in seized \ asked
  /\ pc = "wait" => tid \in attached
  /\ pc \in {"interrupt", "wait"} => ~subset

\* In a round that met only known threads, a thread that runs is an unknown
\* entry of the rest of the listing, and no stopped thread has been missed.
RoundInv ==
  pc = "visit" /\ subset =>
    /\ (\E t \in Tid : thread[t] = "run") => listing \ tidMap # {}
    /\ \A t \in Tid : thread[t] = "stop" => t \in tids \cup listing

\* From the last round on nothing runs and tidMap holds every stopped thread.
FrozenInv ==
  pc \in {"maps", "held"} =>
    \A t \in Tid : thread[t] # "run" /\ (thread[t] = "stop" => t \in tidMap)

\* What is still stopped is what is still to be released.
ReleaseInv ==
  /\ pc = "release" => \A t \in Tid : thread[t] = "stop" => t \in release
  /\ pc = "idle" => \A t \in Tid : thread[t] # "stop"

IInv ==
  /\ TypeOK /\ KnownNeverRuns /\ OneAtATime
  /\ RoundInv /\ FrozenInv /\ ReleaseInv

\* Every type-correct initial state satisfies the inductive invariant.
LEMMA InitIInv == Init => IInv
  BY LeaderAssumption DEF Init, IInv, TypeOK, Attaching, KnownNeverRuns, OneAtATime,
     RoundInv, FrozenInv, ReleaseInv, ThreadState, Control

\* No step of the tracer, of the kernel or of the target breaks it.
LEMMA NextIInv == IInv /\ [Next]_vars => IInv'
<1> SUFFICES ASSUME IInv, [Next]_vars PROVE IInv'
  OBVIOUS
<1> USE LeaderAssumption DEF IInv, TypeOK, Attaching, KnownNeverRuns, OneAtATime,
     RoundInv, FrozenInv, ReleaseInv, ThreadState, Control, kernel, round
<1>1. CASE Begin
  BY <1>1 DEF Begin
<1>2. CASE ReadDir
  BY <1>2 DEF ReadDir, FreshRound, Listed
<1>3. CASE ReadDirFails
  BY <1>3 DEF ReadDirFails, Abort, ReleaseOnError
<1>4. ASSUME NEW t \in Tid, VisitKnown(t) PROVE IInv'
  BY <1>4 DEF VisitKnown
<1>5. ASSUME NEW t \in Tid, Seize(t) PROVE IInv'
  BY <1>5 DEF Seize
<1>6. ASSUME NEW t \in Tid, SeizeFails(t) PROVE IInv'
  BY <1>6 DEF SeizeFails, Abort, ReleaseOnError
<1>7. CASE Interrupt
  BY <1>7 DEF Interrupt
<1>8. CASE InterruptFails
  BY <1>8 DEF InterruptFails, Abort, ReleaseOnError, Live
<1>9. CASE WaitStop
  BY <1>9 DEF WaitStop, Known
<1>10. CASE WaitDeath
  BY <1>10 DEF WaitDeath, Known, Reapable
<1>11. CASE LastRound
  BY <1>11 DEF LastRound, RoundIsFinal
<1>12. CASE NextRound
  BY <1>12 DEF NextRound, RoundIsFinal
<1>13. CASE ReadMaps
  BY <1>13 DEF ReadMaps
<1>14. CASE ReadMapsFails
  BY <1>14 DEF ReadMapsFails, Abort, ReleaseOnError
<1>15. CASE Detach
  BY <1>15 DEF Detach
<1>16. ASSUME NEW t \in Tid, Release(t) PROVE IInv'
  BY <1>16 DEF Release
<1>17. CASE Released
  BY <1>17 DEF Released
<1>18. ASSUME NEW t \in Tid, NEW u \in Tid, Spawn(t, u) PROVE IInv'
  BY <1>18 DEF Spawn, tracer
<1>19. ASSUME NEW t \in Tid, Exit(t) PROVE IInv'
  BY <1>19 DEF Exit, DeadState, tracer
<1>20. ASSUME NEW t \in Tid, Stop(t) PROVE IInv'
  BY <1>20 DEF Stop, tracer
<1>21. CASE KillGroup
  BY <1>21 DEF KillGroup, DeadState, Live, tracer
<1>22. CASE ReapLeader
  BY <1>22 DEF ReapLeader, Reapable, tracer
<1>23. CASE UNCHANGED vars
  BY <1>23 DEF vars
<1>. QED
  BY <1>1, <1>2, <1>3, <1>4, <1>5, <1>6, <1>7, <1>8, <1>9, <1>10, <1>11, <1>12, <1>13, <1>14, <1>15, <1>16, <1>17, <1>18, <1>19, <1>20, <1>21, <1>22, <1>23 DEF Next, Trace, Cleanup, Target

\* The inductive invariant holds of every reachable state.
THEOREM Invariance == Spec => []IInv
  BY InitIInv, NextIInv, PTL DEF Spec

\* Every variable of the tracer and of the kernel keeps its type.
THEOREM TypeCorrect == Spec => []TypeOK
  BY Invariance, PTL DEF IInv

\* A program that Trace returned is frozen, for any number of threads and any
\* order in which they were spawned, attached, killed and listed.
THEOREM Frozen == Spec => []StopTheWorld
<1>1. IInv => StopTheWorld
  BY DEF IInv, FrozenInv, StopTheWorld
<1>. QED
  BY <1>1, Invariance, PTL

\* Whatever way a session ends, it leaves no thread stopped or traced.
THEOREM Thawed == Spec => []NoThreadLeftBehind
<1>1. IInv => NoThreadLeftBehind
  BY DEF IInv, OneAtATime, ReleaseInv, NoThreadLeftBehind, Live, TypeOK
<1>. QED
  BY <1>1, Invariance, PTL

(***************************************************************************)
(* The descent                                                             *)
(***************************************************************************)

\* How much of a session is left: the loop over the rounds, the maps, the caller's part,
\* the release.
Phase ==
  CASE pc \in {"readdir", "visit", "interrupt", "wait"} -> 4 [] pc = "maps" -> 3
    [] pc = "held" -> 2 [] pc = "release" -> 1 [] OTHER -> 0

\* The threads that may still be attached.
Unknown == Tid \ (tidMap \cup (IF pc \in {"interrupt", "wait"} THEN {tid} ELSE {}))

\* A round that met an unknown thread is followed by another one.
InRound ==
  CASE pc = "interrupt" -> 4 [] pc = "wait" -> 3 [] pc = "visit" /\ ~subset -> 2
    [] pc = "readdir" -> 1 [] OTHER -> 0

\* The threads that the running loop goes over.
ToVisit == IF pc = "release" THEN release ELSE listing

Left == <<Phase, Cardinality(Unknown), InRound, Cardinality(ToVisit)>>

\* Four numbers in lexicographic order.
Shorter == LexProductOrdering(OpToRel(<, Nat), Nat, 4)

\* After its beginning every step of a session leaves it less to do; no step of the
\* target gives it more.
SessionDescends == [][~Begin => <<Left', Left>> \in Shorter]_tracer

\* There is no endless descent in this order.
THEOREM ShorterIsWellFounded == IsWellFoundedOn(Shorter, [1..4 -> Nat])
  BY NatLessThanWellFounded, WFLexProductOrdering DEF Shorter

\* The first number that differs decides.
LEMMA FirstDecides ==
  ASSUME NEW new \in [1..4 -> Nat], NEW old \in [1..4 -> Nat], NEW j \in 1..4,
         new[j] < old[j], \A k \in 1..(j - 1) : new[k] = old[k]
  PROVE  <<new, old>> \in Shorter
<1> DEFINE Less == OpToRel(<, Nat)
<1>1. <<new[j], old[j]>> \in Less
  BY DEF OpToRel
<1> HIDE DEF Less
<1>. QED
  BY <1>1 DEF Shorter, LexProductOrdering, Less

\* What is left is counted by four numbers.
Counted ==
  /\ Left \in [1..4 -> Nat]
  /\ IsFiniteSet(Unknown) /\ IsFiniteSet(ToVisit)

\* That is so for a finite set of threads.
LEMMA LeftCounted ==
  ASSUME IsFiniteSet(Tid), TypeOK
  PROVE  Counted
<1>1. IsFiniteSet(Unknown) /\ Cardinality(Unknown) \in Nat
  <2>1. IsFiniteSet(Unknown)
    BY FS_Subset DEF Unknown
  <2>. QED
    BY <2>1, FS_CardinalityType
<1>2. IsFiniteSet(ToVisit) /\ Cardinality(ToVisit) \in Nat
  <2>1. ToVisit \in SUBSET Tid
    BY DEF ToVisit, TypeOK
  <2>2. IsFiniteSet(ToVisit)
    BY <2>1, FS_Subset
  <2>. QED
    BY <2>2, FS_CardinalityType
<1>3. Phase \in Nat /\ InRound \in Nat
  BY DEF Phase, InRound
<1> DEFINE u == Cardinality(Unknown)
           v == Cardinality(ToVisit)
<1>4. Left = <<Phase, u, InRound, v>> /\ u \in Nat /\ v \in Nat
  BY <1>1, <1>2 DEF Left
<1> HIDE DEF u, v
<1>5. Left \in [1..4 -> Nat]
  BY <1>3, <1>4
<1>. QED
  BY <1>1, <1>2, <1>5 DEF Counted

\* What a step leaves less of decides.
LEMMA LessLeft ==
  ASSUME Counted, Counted'
  PROVE  /\ Phase' < Phase => <<Left', Left>> \in Shorter
         /\ Phase' = Phase =>
              /\ \A t \in Unknown : Unknown' = Unknown \ {t} => <<Left', Left>> \in Shorter
              /\ Unknown' = Unknown =>
                   /\ InRound' < InRound => <<Left', Left>> \in Shorter
                   /\ InRound' = InRound =>
                        \A t \in ToVisit :
                          ToVisit' = ToVisit \ {t} => <<Left', Left>> \in Shorter
<1> DEFINE new == Left'
           old == Left
<1>1. new \in [1..4 -> Nat] /\ old \in [1..4 -> Nat]
  BY DEF Counted
<1>2. /\ new[1] = Phase' /\ old[1] = Phase
      /\ new[2] = Cardinality(Unknown') /\ old[2] = Cardinality(Unknown)
      /\ new[3] = InRound' /\ old[3] = InRound
      /\ new[4] = Cardinality(ToVisit') /\ old[4] = Cardinality(ToVisit)
  BY DEF Left
<1> HIDE DEF new, old
<1>3. ASSUME NEW j \in 1..4, new[j] < old[j], \A k \in 1..(j - 1) : new[k] = old[k]
      PROVE  <<new, old>> \in Shorter
  BY <1>1, <1>3, FirstDecides
<1>4. ASSUME NEW S, IsFiniteSet(S), NEW t \in S
      PROVE  Cardinality(S \ {t}) < Cardinality(S)
  <2>1. Cardinality(S \ {t}) = Cardinality(S) - 1 /\ Cardinality(S) \in Nat
    BY <1>4, FS_RemoveElement, FS_CardinalityType
  <2>. QED
    BY <2>1
<1>5. ASSUME Phase' < Phase PROVE <<new, old>> \in Shorter
  <2>1. new[1] < old[1] /\ \A k \in 1..(1 - 1) : new[k] = old[k]
    BY <1>2, <1>5
  <2>. QED
    BY <1>3, <2>1
<1>6. ASSUME Phase' = Phase, NEW t \in Unknown, Unknown' = Unknown \ {t}
      PROVE  <<new, old>> \in Shorter
  <2>1. new[2] < old[2]
    BY <1>2, <1>4, <1>6 DEF Counted
  <2>2. \A k \in 1..(2 - 1) : new[k] = old[k]
    BY <1>2, <1>6
  <2>. QED
    BY <1>3, <2>1, <2>2
<1>7. ASSUME Phase' = Phase, Unknown' = Unknown, InRound' < InRound
      PROVE  <<new, old>> \in Shorter
  <2>1. new[1] = old[1] /\ new[2] = old[2]
    BY <1>2, <1>7
  <2>2. new[3] < old[3] /\ \A k \in 1..(3 - 1) : new[k] = old[k]
    BY <1>2, <1>7, <2>1
  <2>. QED
    BY <1>3, <2>2
<1>8. ASSUME Phase' = Phase, Unknown' = Unknown, InRound' = InRound,
             NEW t \in ToVisit, ToVisit' = ToVisit \ {t}
      PROVE  <<new, old>> \in Shorter
  <2>1. new[1] = old[1] /\ new[2] = old[2] /\ new[3] = old[3]
    BY <1>2, <1>8
  <2>2. new[4] < old[4]
    BY <1>2, <1>4, <1>8 DEF Counted
  <2>3. \A k \in 1..(4 - 1) : new[k] = old[k]
    BY <2>1
  <2>. QED
    BY <1>3, <2>2, <2>3
<1>. QED
  BY <1>5, <1>6, <1>7, <1>8 DEF new, old

\* Every step of a session goes down.
LEMMA SessionStep ==
  ASSUME IInv, Counted, Counted', [Next]_vars, ~UNCHANGED tracer, ~Begin
  PROVE  <<Left', Left>> \in Shorter
<1> USE DEF kernel, round, Phase, Unknown, InRound, ToVisit
<1>1. CASE Target
  BY <1>1 DEF Target, Spawn, Exit, Stop, KillGroup, ReapLeader
<1>2. CASE ReadDirFails \/ InterruptFails \/ ReadMapsFails \/ \E t \in Tid : SeizeFails(t)
  <2>1. Phase' < Phase
    BY <1>2 DEF ReadDirFails, InterruptFails, ReadMapsFails, SeizeFails, Abort
  <2>. QED
    BY <2>1, LessLeft
<1>3. CASE LastRound \/ ReadMaps \/ Detach \/ Released
  <2>1. Phase' < Phase
    BY <1>3 DEF LastRound, ReadMaps, Detach, Released
  <2>. QED
    BY <2>1, LessLeft
<1>4. CASE ReadDir
  <2>1. Phase' = Phase /\ Unknown' = Unknown /\ InRound' < InRound
    BY <1>4 DEF ReadDir, FreshRound
  <2>. QED
    BY <2>1, LessLeft
<1>5. ASSUME NEW t \in Tid, VisitKnown(t) PROVE <<Left', Left>> \in Shorter
  <2>1. /\ Phase' = Phase /\ Unknown' = Unknown /\ InRound' = InRound
        /\ t \in ToVisit /\ ToVisit' = ToVisit \ {t}
    BY <1>5 DEF VisitKnown
  <2>. QED
    BY <2>1, LessLeft
<1>6. ASSUME NEW t \in Tid, Seize(t) PROVE <<Left', Left>> \in Shorter
  <2>1. Phase' = Phase /\ t \in Unknown /\ Unknown' = Unknown \ {t}
    BY <1>6 DEF Seize
  <2>. QED
    BY <2>1, LessLeft
<1>7. CASE Interrupt
  <2>1. Phase' = Phase /\ Unknown' = Unknown /\ InRound' < InRound
    BY <1>7 DEF Interrupt
  <2>. QED
    BY <2>1, LessLeft
<1>8. CASE WaitStop \/ WaitDeath
  <2>1. pc = "wait" /\ pc' = "visit" /\ tidMap' = tidMap \cup {tid} /\ UNCHANGED <<tid, subset>>
    BY <1>8 DEF WaitStop, WaitDeath, Known
  <2>2. ~subset
    BY <2>1 DEF IInv, OneAtATime
  <2>3. Phase' = Phase /\ Unknown' = Unknown /\ InRound' < InRound
    BY <2>1, <2>2
  <2>. QED
    BY <2>3, LessLeft
<1>9. CASE NextRound
  <2>1. Phase' = Phase /\ Unknown' = Unknown /\ InRound' < InRound
    BY <1>9 DEF NextRound, RoundIsFinal
  <2>. QED
    BY <2>1, LessLeft
<1>10. ASSUME NEW t \in Tid, Release(t) PROVE <<Left', Left>> \in Shorter
  <2>1. /\ Phase' = Phase /\ Unknown' = Unknown /\ InRound' = InRound
        /\ t \in ToVisit /\ ToVisit' = ToVisit \ {t}
    BY <1>10 DEF Release
  <2>. QED
    BY <2>1, LessLeft
<1>11. ~UNCHANGED vars
  BY DEF vars, tracer
<1>. QED
  BY <1>1, <1>2, <1>3, <1>4, <1>5, <1>6, <1>7, <1>8, <1>9, <1>10, <1>11
  DEF Next, Trace, Cleanup

\* For any finite number of threads, and whatever the target does with them, Trace and
\* Detach go through their rounds and loops in a well-founded order: only a target that
\* spawns for ever keeps them busy for ever.
THEOREM SessionAdvances ==
  ASSUME IsFiniteSet(Tid)
  PROVE  Spec => SessionDescends
<1>1. IInv => Counted
  BY LeftCounted DEF IInv
<1>2. IInv /\ Counted /\ Counted' /\ [Next]_vars => [~Begin => <<Left', Left>> \in Shorter]_tracer
  BY SessionStep
<1>. QED
  BY <1>1, <1>2, Invariance, PTL DEF Spec, SessionDescends
=============================================================================
