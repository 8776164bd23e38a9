------------------------------ MODULE FakeClock ------------------------------
(***************************************************************************)
(* fakeclock/*.c: the three functions that run inside the target in place  *)
(* of the vDSO ones, while the clock ticks and the injector changes the    *)
(* variables of the image between any two of their steps.  One of them is  *)
(* loaded from its object file, with the steps of ImageLayout, and its     *)
(* loads go through the words that these have computed.                    *)
(*                                                                         *)
(* Times are in nanoseconds of a second of Kilo * Micro of them.  The      *)
(* 64-bit sums are taken not to overflow.                                  *)
(***************************************************************************)
EXTENDS ImageLayout, FiniteSets

CONSTANTS
  Kilo,       \* nanoseconds in a microsecond (1000)
  Micro,      \* microseconds in a second (1000000)
  Deltas,     \* what the injector sets: pairs of TV_SEC_DELTA, TV_NSEC_DELTA
  ClockIds,   \* the names given to EncodeClkIds
  StartAddress,  \* of the image in the target
  Clks,       \* clk_ids that the target asks for
  MaxReal     \* bound on the real clock

billion == Kilo * Micro

ASSUME UnitAssumption == Kilo \in Nat \ {0} /\ Micro \in Nat \ {0}
ASSUME DeltaAssumption == Deltas \subseteq Int \X Int
ASSUME ClkAssumption == Clks \subseteq Int /\ Clks # {}
ASSUME RealAssumption == MaxReal \in Nat
ASSUME StartAssumption == StartAddress \in Nat
ASSUME EvenAssumption == billion % 2 = 0

VARIABLES
  real,       \* the real time
  memory,     \* the image in the target
  pc,         \* control of the thread that asks for the time
  clk_id,     \* its clock
  tv,         \* seconds, and nanoseconds or microseconds, of the struct
  atCall,     \* the real time that the system call returned
  read,       \* loads that the function has made
  sec_delta,  \* its locals
  nsec_delta,
  clock_ids_mask,
  loaded,     \* the shift that its loads amount to
  seen,       \* the last result that was shifted, and its shift
  setting,    \* what the last AttachToProcess was to set
  during      \* the settings in force since the call under way began, until
              \* it has loaded the variables

call  == <<clk_id, tv, atCall>>
local == <<read, sec_delta, nsec_delta, clock_ids_mask, loaded>>
past  == <<seen, setting, during>>
vars  == <<real, memory, pc, call, local, past, imageVars>>

AnyClk == CHOOSE c \in Clks : TRUE
NoTime == [sec |-> 0, frac |-> 0]

\* The function that the image stands for, and what Inject sets in it.
fn == object.fn
VariablesOf(f) ==
  {"TV_SEC_DELTA", "TV_NSEC_DELTA"}
    \cup (IF f = "clock_gettime" THEN {"CLOCK_IDS_MASK"} ELSE {})
Variables == VariablesOf(fn)

\* A function loads all of them.
ASSUME ExternAssumption ==
  \A o \in Objects :
    /\ o.fn \in {"clock_gettime", "gettimeofday", "time"}
    /\ VariablesOf(o.fn) \subseteq {o.relocs[k].sym : k \in DOMAIN o.relocs}

\* The nanoseconds of one unit of the fraction that the struct holds.
Unit == IF fn = "gettimeofday" THEN Kilo ELSE 1

TimeOf(t) == t.sec * billion + t.frac * Unit

(***************************************************************************)
(* The mask of clocks                                                      *)
(***************************************************************************)

\* The clocks of include/uapi/linux/time.h, in the order of their ids.
KernelClocks == <<"CLOCK_REALTIME", "CLOCK_MONOTONIC", "CLOCK_PROCESS_CPUTIME_ID",
  "CLOCK_THREAD_CPUTIME_ID", "CLOCK_MONOTONIC_RAW", "CLOCK_REALTIME_COARSE",
  "CLOCK_MONOTONIC_COARSE", "CLOCK_BOOTTIME", "CLOCK_REALTIME_ALARM",
  "CLOCK_BOOTTIME_ALARM">>
ASSUME ClockIdAssumption == ClockIds \subseteq {KernelClocks[i] : i \in 1..10}
Names(c) == c \in 0..9 /\ KernelClocks[c + 1] \in ClockIds

\* EncodeClkIds: mask |= 1 << ClkBit(id).
ClkBit(id) ==
  CASE id = "CLOCK_REALTIME" -> 0
    [] id = "CLOCK_MONOTONIC" -> 1
    [] id = "CLOCK_PROCESS_CPUTIME_ID" -> 2
    [] id = "CLOCK_THREAD_CPUTIME_ID" -> 3
    [] id = "CLOCK_MONOTONIC_RAW" -> 4
    [] id = "CLOCK_REALTIME_COARSE" -> 5
    [] id = "CLOCK_MONOTONIC_COARSE" -> 6
    [] id = "CLOCK_BOOTTIME" -> 7
    [] id = "CLOCK_REALTIME_ALARM" -> 8
    [] id = "CLOCK_BOOTTIME_ALARM" -> 9

EncodeClkIds(ids) ==
  LET bit(b) == IF \E id \in ids : ClkBit(id) = b THEN 2 ^ b ELSE 0
  IN  bit(0) + bit(1) + bit(2) + bit(3) + bit(4) + bit(5) + bit(6) + bit(7) + bit(8) + bit(9)

\* Mutant of ShiftCount: tests the first bit, whatever the clock.
FirstBit(c) == 0

\* 1 << clk_id is a 32-bit shift: the processor uses 5 bits of the count.
ShiftCount(c) == c % 32

Masked(c) == (clock_ids_mask \div 2 ^ ShiftCount(c)) % 2 = 1

(***************************************************************************)
(* Division of C                                                           *)
(***************************************************************************)

CQuot(n, d) == IF n >= 0 THEN n \div d ELSE -((-n) \div d)
CRem(n, d) == n - d * CQuot(n, d)

\* Mutant of div_round_nearest: rounds away from zero.
DivAwayFromZero(n, d) ==
  IF n >= 0 THEN (n + d - 1) \div d ELSE -(((-n) + d - 1) \div d)

div_round_nearest(n, d) ==
  IF n >= 0 THEN (n + d \div 2) \div d ELSE -(((-n) + d \div 2) \div d)

\* Mutant of RoundSeconds: without the correction for a negative remainder.
RoundTowardsZero(n) ==
  CQuot(n, billion) + (IF CRem(n, billion) >= billion \div 2 THEN 1 ELSE 0)

\* fake_time: the nearest second, from the quotient and the remainder.
RoundSeconds(n) ==
  LET neg == CRem(n, billion) < 0
      extra_sec == CQuot(n, billion) - (IF neg THEN 1 ELSE 0)
      remaining_nsec == CRem(n, billion) + (IF neg THEN billion ELSE 0)
  IN  extra_sec + (IF remaining_nsec >= billion \div 2 THEN 1 ELSE 0)

(***************************************************************************)
(* The functions                                                           *)
(***************************************************************************)

Init ==
  /\ ImageInit
  /\ real = 0 /\ memory = <<>> /\ pc = "unattached"
  /\ clk_id = AnyClk /\ tv = NoTime /\ atCall = 0
  /\ read = {} /\ sec_delta = 0 /\ nsec_delta = 0 /\ clock_ids_mask = 0 /\ loaded = 0
  /\ seen = [time |-> 0, shift |-> 0] /\ setting = <<0, 0>> /\ during = {}

\* Mutant of Fraction: the nanoseconds of clock_gettime in the struct timeval.
FractionInNanoseconds(f) == IF f = "time" THEN 0 ELSE real % billion

\* The fraction of a second that the system call of a function returns.
Fraction(f) ==
  CASE f = "clock_gettime" -> real % billion
    [] f = "gettimeofday"  -> (real % billion) \div Kilo
    [] f = "time"          -> 0

Call(c) ==
  /\ pc = "ready"
  /\ clk_id' = c /\ atCall' = real
  /\ tv' = [sec |-> real \div billion, frac |-> Fraction(fn)]
  /\ pc' = "load"
  /\ during' = {setting}
  /\ UNCHANGED <<real, memory, local, seen, setting, imageVars>>

\* The compiler and the processor load the variables in any order.
LoadVariable(k) ==
  LET rela == object.relocs[k]
      loadOf(sym, old) == IF rela.sym = sym THEN Loaded(memory, StartAddress, rela) ELSE old
  IN /\ pc = "load" /\ k \notin read
     /\ sec_delta' = loadOf("TV_SEC_DELTA", sec_delta)
     /\ nsec_delta' = loadOf("TV_NSEC_DELTA", nsec_delta)
     /\ clock_ids_mask' = loadOf("CLOCK_IDS_MASK", clock_ids_mask)
     /\ read' = read \cup {k}
     /\ UNCHANGED <<real, memory, pc, call, loaded, past, imageVars>>

Branch ==
  /\ pc = "load" /\ read = DOMAIN object.relocs
  /\ loaded' = sec_delta * billion + nsec_delta
  /\ pc' = CASE fn = "clock_gettime" -> IF Masked(clk_id) THEN "carry" ELSE "real"
             [] fn = "gettimeofday"  -> "carry"
             [] fn = "time"          -> "round"
  /\ during' = {}
  /\ UNCHANGED <<real, memory, call, read, sec_delta, nsec_delta, clock_ids_mask, seen,
                 setting, imageVars>>

TooLarge == nsec_delta + tv.frac * Unit > billion
TooSmall == nsec_delta + tv.frac * Unit < 0

\* Mutant of Carried: a semicolon ends the loop before its body.
CarriedByNobody == UNCHANGED <<sec_delta, nsec_delta>>

Carried == sec_delta' = sec_delta + 1 /\ nsec_delta' = nsec_delta - billion

Carry ==
  /\ pc = "carry" /\ TooLarge
  /\ Carried
  /\ UNCHANGED <<real, memory, pc, call, read, clock_ids_mask, loaded, past, imageVars>>

CarryDone ==
  /\ pc = "carry" /\ ~TooLarge
  /\ pc' = "borrow"
  /\ UNCHANGED <<real, memory, call, local, past, imageVars>>

\* Mutant of Borrowed: the second is not taken back.
BorrowedFromNobody == sec_delta

Borrowed == sec_delta - 1

Borrow ==
  /\ pc = "borrow" /\ TooSmall
  /\ sec_delta' = Borrowed /\ nsec_delta' = nsec_delta + billion
  /\ UNCHANGED <<real, memory, pc, call, read, clock_ids_mask, loaded, past, imageVars>>

\* The struct as the function returns it.
Result ==
  CASE pc = "real" -> tv
    [] pc = "round" -> [tv EXCEPT !.sec = @ + sec_delta + RoundSeconds(nsec_delta)]
    [] pc = "borrow" -> [sec  |-> tv.sec + sec_delta,
                         frac |-> tv.frac + div_round_nearest(nsec_delta, Unit)]

Return ==
  /\ pc \in {"real", "round"} \/ (pc = "borrow" /\ ~TooSmall)
  /\ tv' = Result
  /\ pc' = "returned"
  /\ UNCHANGED <<real, memory, clk_id, atCall, local, past, imageVars>>

\* Is the result to be shifted at all?
Shifted == fn = "clock_gettime" => Names(clk_id)

\* The caller has the result and the locals are gone.
Seen ==
  /\ pc = "returned"
  /\ seen' = IF Shifted THEN [time |-> TimeOf(tv), shift |-> loaded] ELSE seen
  /\ pc' = "ready"
  /\ clk_id' = AnyClk /\ tv' = NoTime /\ atCall' = 0
  /\ read' = {} /\ sec_delta' = 0 /\ nsec_delta' = 0 /\ clock_ids_mask' = 0 /\ loaded' = 0
  /\ UNCHANGED <<real, memory, setting, during, imageVars>>

(***************************************************************************)
(* The world around them                                                   *)
(***************************************************************************)

\* The real clock is read by the system call alone: it need not move within a
\* call.
Tick ==
  /\ pc = "ready" /\ real < MaxReal
  /\ real' = real + 1
  /\ UNCHANGED <<memory, pc, call, local, past, imageVars>>

\* NewConfig and Inject pass the two numbers on as they are.
Written(d) == d

\* Mutant of Config: of an image that is there only the nanoseconds are set.
ConfigOfNsec(d) ==
  [v \in {"TV_NSEC_DELTA"} \cup (IF memory = <<>> THEN Variables ELSE {}) |->
     CASE v = "TV_SEC_DELTA"   -> d[1]
       [] v = "TV_NSEC_DELTA"  -> d[2]
       [] v = "CLOCK_IDS_MASK" -> EncodeClkIds(ClockIds)]

Config(d) ==
  [v \in Variables |->
     CASE v = "TV_SEC_DELTA"   -> Written(d)[1]
       [] v = "TV_NSEC_DELTA"  -> Written(d)[2]
       [] v = "CLOCK_IDS_MASK" -> EncodeClkIds(ClockIds)]

\* Mutant of NumbersMatch: is not asked.
AnyNumber == TRUE

NumbersMatch == Cardinality(Variables) = Cardinality(DOMAIN offset)

\* AttachToProcess copies the image, unless it is there, and sets the variables while
\* the threads are stopped, wherever they are.
AttachToProcess(d) ==
  LET found == memory # <<>> /\ FindInjectedImage(memory, StartAddress, Cardinality(Variables))
  IN /\ loading = "done" /\ pc # "refused" /\ NumbersMatch
     /\ memory' = SetVars(IF found THEN memory ELSE Mapped(StartAddress),
                          StartAddress, Config(d))
     /\ pc' = IF pc = "unattached" THEN "ready" ELSE pc
     /\ setting' = d
     /\ during' = IF pc = "load" THEN during \cup {d} ELSE during
     /\ UNCHANGED <<real, call, local, seen, imageVars>>

AttachRefused ==
  /\ loading = "done" /\ pc \in {"unattached", "refused"} /\ ~NumbersMatch
  /\ pc' = "refused"
  /\ UNCHANGED <<real, memory, call, local, past, imageVars>>

Load == LoadFakeImageFromEmbedFs /\ UNCHANGED <<real, memory, pc, call, local, past>>

Function ==
  \/ \E k \in DOMAIN object.relocs : LoadVariable(k)
  \/ Branch \/ Carry \/ CarryDone \/ Borrow \/ Return

Next ==
  \/ Load \/ Function \/ Seen \/ Tick \/ AttachRefused
  \/ \E c \in Clks : Call(c)
  \/ \E d \in Deltas : AttachToProcess(d)

Spec == Init /\ [][Next]_vars

\* A thread that runs finishes the loops it is in.
FairSpec == Spec /\ WF_vars(Function)

(***************************************************************************)
(* Properties                                                              *)
(***************************************************************************)

\* Every variable keeps its type, and until the function returns the struct
\* holds a fraction of less than a second.
TypeOK ==
  /\ ImageTypeOK
  /\ real \in 0..MaxReal /\ atCall \in 0..MaxReal
  /\ pc \in {"unattached", "refused", "ready", "load", "carry", "borrow", "real", "round",
             "returned"}
  /\ clk_id \in Clks
  /\ tv \in [sec : Int, frac : Int]
  /\ pc # "returned" => tv.frac * Unit \in 0..billion - 1
  /\ read \subseteq DOMAIN object.relocs
  /\ {sec_delta, nsec_delta, clock_ids_mask, loaded} \subseteq Int
  /\ seen \in [time : Int, shift : Int] /\ setting \in Int \X Int
  /\ during \subseteq Deltas

Returned(f) == pc = "returned" /\ fn = f

\* A clock that was named to EncodeClkIds shows the real time plus the two variables,
\* to the nanosecond, through all carries and borrows; any other clock shows the real
\* time.
ClockExact ==
  Returned("clock_gettime") =>
    TimeOf(tv) = atCall + (IF Names(clk_id) THEN loaded ELSE 0)

\* fake_gettimeofday is off by less than a microsecond of truncation and half a
\* microsecond of rounding.
TimeOfDayNear ==
  Returned("gettimeofday") =>
    LET off == TimeOf(tv) - (atCall + loaded)
    IN  2 * off <= Kilo /\ -3 * Kilo < 2 * off

\* fake_time is off by less than a second of truncation and half a second of
\* rounding.
TimeNear ==
  Returned("time") =>
    LET off == TimeOf(tv) - (atCall + loaded)
    IN  2 * off <= billion /\ -3 * billion < 2 * off

\* Two results of one function with the same shift never go back in time,
\* although the rounding depends on the sign that the loops gave nsec_delta.
NeverBack ==
  pc = "returned" /\ Shifted /\ seen.shift = loaded
    => TimeOf(tv) >= seen.time

\* A call will shift by seconds and nanoseconds that were each in force at some time
\* of the call, though it loads them one by one through words that AssetLD computed
\* while the injector sets them.  They are of one setting unless both numbers
\* change under the call, which the command, with its 0 seconds, never does.
DeltaInForce ==
  pc = "load" /\ read = DOMAIN object.relocs =>
    \E d, e \in during : sec_delta = d[1] /\ nsec_delta = e[2]

\* AttachToProcess finds its own image again, whatever it has set in it: it is not
\* injected a second time.
OwnImageFound ==
  memory # <<>> => FindInjectedImage(memory, StartAddress, Cardinality(Variables))

\* An image that refers to anything but its variables, such as a function that was not
\* inlined, is not attached: no call runs into a variable.
OnlyVariablesReferred ==
  memory # <<>> => \A k \in DOMAIN object.relocs :
                      object.relocs[k].sym \in Variables \cup {NoSymbol}

\* Every call returns, however far the target is shifted.
CallReturns == pc = "load" ~> pc = "returned"
=============================================================================
