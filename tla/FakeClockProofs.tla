---------------------------- MODULE FakeClockProofs ----------------------------
(***************************************************************************)
(* The functions of fakeclock/*.c, loaded from any object files, at any    *)
(* address, with any length of a second and any shifts: their variables    *)
(* are found and set, their fractions are in range, their rounding is      *)
(* bounded, and no shifted clock goes back between two calls.              *)
(***************************************************************************)
EXTENDS FakeClock, ImageLayoutProofs

(***************************************************************************)
(* Division                                                                *)
(***************************************************************************)

\* A second has nanoseconds, and microseconds that have nanoseconds.
LEMMA Second == billion \in Nat \ {0} /\ Unit \in Nat \ {0}
  BY UnitAssumption DEF billion, Unit

\* The quotient and the remainder of a natural number.
LEMMA Quotient ==
  ASSUME NEW d \in Nat \ {0}, NEW n \in Nat
  PROVE  /\ n \div d \in Nat /\ n % d \in Nat
         /\ n = d * (n \div d) + (n % d) /\ n % d < d
<1> DEFINE q == n \div d
           r == n % d
<1>1. q \in Int /\ r \in 0..d - 1 /\ n = d * q + r
  OBVIOUS
<1> HIDE DEF q, r
<1>2. q >= 0
  <2>1. d * q > -d
    BY <1>1
  <2>. QED
    BY <1>1, <2>1
<1>3. q \in Nat /\ r \in Nat /\ n = d * q + r /\ r < d
  BY <1>1, <1>2
<1>. QED
  BY <1>3 DEF q, r

\* The same of any number.
LEMMA Floor ==
  ASSUME NEW d \in Nat \ {0}, NEW n \in Int
  PROVE  n \div d \in Int /\ d * (n \div d) <= n /\ n < d * (n \div d) + d
  OBVIOUS

\* div_round_nearest is off by half a divisor at most.
LEMMA RoundNearest ==
  ASSUME NEW d \in Nat \ {0}, NEW n \in Int
  PROVE  /\ div_round_nearest(n, d) \in Int
         /\ 2 * (d * div_round_nearest(n, d) - n) <= d
         /\ -d <= 2 * (d * div_round_nearest(n, d) - n)
<1> DEFINE h == d \div 2
<1>1. h \in Nat /\ 2 * h <= d /\ d <= 2 * h + 1
  OBVIOUS
<1> HIDE DEF h
<1>2. CASE n >= 0
  <2> DEFINE q == (n + h) \div d
  <2>1. q \in Int /\ d * q <= n + h /\ n + h < d * q + d
    BY <1>1, Floor
  <2>2. div_round_nearest(n, d) = q
    BY <1>2 DEF div_round_nearest, h
  <2> HIDE DEF q
  <2>3. d * q \in Int
    BY <2>1
  <2>. QED
    BY <1>1, <2>1, <2>2, <2>3
<1>3. CASE n < 0
  <2> DEFINE q == (-n + h) \div d
  <2>1. q \in Int /\ d * q <= -n + h /\ -n + h < d * q + d
    BY <1>1, Floor
  <2>2. div_round_nearest(n, d) = -q
    BY <1>3 DEF div_round_nearest, h
  <2> HIDE DEF q
  <2>3. d * q \in Int /\ d * (-q) = -(d * q)
    BY <2>1
  <2>. QED
    BY <1>1, <2>1, <2>2, <2>3
<1>. QED
  BY <1>2, <1>3

\* The quotient towards zero, with a remainder of the sign of the number.
LEMMA Truncated ==
  ASSUME NEW d \in Nat \ {0}, NEW n \in Int
  PROVE  /\ CQuot(n, d) \in Int /\ CRem(n, d) \in Int
         /\ n = d * CQuot(n, d) + CRem(n, d)
         /\ -d < CRem(n, d) /\ CRem(n, d) < d
<1>1. CASE n >= 0
  <2>1. CQuot(n, d) = n \div d
    BY <1>1 DEF CQuot
  <2>. QED
    BY <1>1, <2>1, Floor DEF CRem
<1>2. CASE n < 0
  <2> DEFINE q == (-n) \div d
  <2>1. q \in Int /\ d * q <= -n /\ -n < d * q + d
    BY Floor
  <2>2. CQuot(n, d) = -q
    BY <1>2 DEF CQuot
  <2> HIDE DEF q
  <2>3. d * q \in Int /\ d * (-q) = -(d * q)
    BY <2>1
  <2>. QED
    BY <2>1, <2>2, <2>3 DEF CRem
<1>. QED
  BY <1>1, <1>2

\* fake_time rounds to the nearest second, a half upwards.
LEMMA NearestSecond ==
  ASSUME NEW n \in Int
  PROVE  /\ RoundSeconds(n) \in Int
         /\ 2 * (billion * RoundSeconds(n) - n) <= billion
         /\ -billion < 2 * (billion * RoundSeconds(n) - n)
<1> DEFINE q == CQuot(n, billion)
           r == CRem(n, billion)
           h == billion \div 2
<1>1. /\ q \in Int /\ r \in Int /\ n = billion * q + r
      /\ -billion < r /\ r < billion
  BY Second, Truncated
<1>2. h \in Nat /\ 2 * h = billion
  BY Second, EvenAssumption
<1> DEFINE floor == q - (IF r < 0 THEN 1 ELSE 0)
           rest == r + (IF r < 0 THEN billion ELSE 0)
<1>3. RoundSeconds(n) = floor + (IF rest >= h THEN 1 ELSE 0)
  BY DEF RoundSeconds
<1> HIDE DEF q, r, h
<1>4. floor \in Int /\ rest \in Int /\ n = billion * floor + rest /\ 0 <= rest /\ rest < billion
  BY <1>1, Second
<1> HIDE DEF floor, rest
<1>5. billion * floor \in Int /\ billion * (floor + 1) = billion * floor + billion
  BY <1>4, Second
<1>. QED
  BY <1>2, <1>3, <1>4, <1>5, Second

(***************************************************************************)
(* The image and its variables                                             *)
(***************************************************************************)

AnyDelta(i) == {d[i] : d \in during}

\* Once it is attached, the memory holds the image with the last setting.
MemoryInv ==
  /\ pc \notin {"unattached", "refused"} => memory # <<>>
  /\ memory # <<>> =>
       /\ loading = "done" /\ Variables = DOMAIN offset
       /\ setting \in Deltas /\ ImageAt(memory, StartAddress, Config(setting))

\* What has been loaded was in force at some time of the call.
LoadInv ==
  /\ during \subseteq Deltas
  /\ pc = "load" => setting \in during
  /\ read \subseteq DOMAIN object.relocs
  /\ pc \in {"unattached", "refused", "ready"} => read = {}
  /\ pc = "load" => \A k \in read :
       /\ object.relocs[k].sym = "TV_SEC_DELTA" => sec_delta \in AnyDelta(1)
       /\ object.relocs[k].sym = "TV_NSEC_DELTA" => nsec_delta \in AnyDelta(2)
       /\ object.relocs[k].sym = "CLOCK_IDS_MASK" => clock_ids_mask = EncodeClkIds(ClockIds)

Types ==
  /\ real \in 0..MaxReal /\ atCall \in 0..MaxReal
  /\ pc \in {"unattached", "refused", "ready", "load", "carry", "borrow", "real", "round",
              "returned"}
  /\ clk_id \in Clks /\ tv \in [sec : Int, frac : Int]
  /\ sec_delta \in Int /\ nsec_delta \in Int /\ clock_ids_mask \in Int /\ loaded \in Int
  /\ seen \in [time : Int, shift : Int] /\ setting \in Int \X Int

ImageInv == LayoutInv /\ Types /\ MemoryInv /\ LoadInv

\* The variables of any of the three functions are two or three, and its code loads all of them.
LEMMA VariableNames ==
  ASSUME object \in Objects
  PROVE  /\ fn \in {"clock_gettime", "gettimeofday", "time"}
         /\ {"TV_SEC_DELTA", "TV_NSEC_DELTA"} \subseteq Variables
         /\ Variables \subseteq {"TV_SEC_DELTA", "TV_NSEC_DELTA", "CLOCK_IDS_MASK"}
         /\ IsFiniteSet(Variables) /\ NoSymbol \notin Variables
         /\ \A v \in Variables : \E k \in DOMAIN object.relocs : object.relocs[k].sym = v
<1>1. /\ {"TV_SEC_DELTA", "TV_NSEC_DELTA"} \subseteq Variables
      /\ Variables \subseteq {"TV_SEC_DELTA", "TV_NSEC_DELTA", "CLOCK_IDS_MASK"}
  BY DEF Variables, VariablesOf
<1>2. IsFiniteSet({"TV_SEC_DELTA", "TV_NSEC_DELTA", "CLOCK_IDS_MASK"})
  <2>1. IsFiniteSet({"TV_SEC_DELTA"})
    BY FS_Singleton
  <2>2. IsFiniteSet({"TV_SEC_DELTA"} \cup {"TV_NSEC_DELTA"})
    BY <2>1, FS_AddElement
  <2>3. IsFiniteSet({"TV_SEC_DELTA"} \cup {"TV_NSEC_DELTA"} \cup {"CLOCK_IDS_MASK"})
    BY <2>2, FS_AddElement
  <2>4. {"TV_SEC_DELTA"} \cup {"TV_NSEC_DELTA"} \cup {"CLOCK_IDS_MASK"}
          = {"TV_SEC_DELTA", "TV_NSEC_DELTA", "CLOCK_IDS_MASK"}
    OBVIOUS
  <2>. QED
    BY <2>3, <2>4
<1>3. IsFiniteSet(Variables)
  BY <1>1, <1>2, FS_Subset
<1>4. fn \in {"clock_gettime", "gettimeofday", "time"}
      /\ \A v \in Variables : \E k \in DOMAIN object.relocs : object.relocs[k].sym = v
  BY ExternAssumption DEF Variables, fn
<1>. QED
  BY <1>1, <1>3, <1>4 DEF NoSymbol

\* Where the numbers match, the image refers to what is set and to nothing else.
LEMMA ReferredAreSet ==
  ASSUME LayoutInv, loading = "done", NumbersMatch
  PROVE  Variables = DOMAIN offset
<1>1. /\ object \in Objects /\ Len(object.relocs) \in Nat
      /\ DOMAIN object.relocs = 1..Len(object.relocs)
      /\ RoomInv /\ entry = Len(object.relocs)
  BY ObjectAssumption DEF LayoutInv
<1>2. Variables \subseteq DOMAIN offset
  BY <1>1, VariableNames DEF RoomInv, Referred
<1>. QED
  BY <1>1, <1>2, FS_Subset DEF NumbersMatch, RoomInv

\* The bit of a clock is set just where the clock is named.
LEMMA MaskBits ==
  LET m == EncodeClkIds(ClockIds)
  IN  /\ m \in 0..1023
      /\ \A s \in 0..9 : (m \div 2 ^ s) % 2 = 1 <=> KernelClocks[s + 1] \in ClockIds
      /\ \A s \in 10..31 : (m \div 2 ^ s) % 2 = 0
<1> DEFINE N(b) == \E id \in ClockIds : ClkBit(id) = b
           bit(b) == IF N(b) THEN 2 ^ b ELSE 0
           m == bit(0) + bit(1) + bit(2) + bit(3) + bit(4) + bit(5) + bit(6) + bit(7) + bit(8) + bit(9)
           P(s) == 2 ^ s
<1>1. \A s \in 0..9 : ClkBit(KernelClocks[s + 1]) = s
  BY DEF ClkBit, KernelClocks
<1>2. \A s \in 0..9 : N(s) <=> KernelClocks[s + 1] \in ClockIds
  <2>1. ASSUME NEW s \in 0..9, NEW id \in ClockIds, ClkBit(id) = s PROVE id = KernelClocks[s + 1]
    <3>1. PICK i \in 1..10 : id = KernelClocks[i]
      BY ClockIdAssumption
    <3>2. i - 1 \in 0..9 /\ KernelClocks[(i - 1) + 1] = id
      BY <3>1
    <3>3. ClkBit(id) = i - 1
      BY <1>1, <3>2
    <3>. QED
      BY <2>1, <3>1, <3>3
  <2>. QED
    BY <1>1, <2>1
<1>3. /\ bit(0) \in {0, 1} /\ bit(1) \in {0, 2} /\ bit(2) \in {0, 4} /\ bit(3) \in {0, 8}
      /\ bit(4) \in {0, 16} /\ bit(5) \in {0, 32} /\ bit(6) \in {0, 64} /\ bit(7) \in {0, 128}
      /\ bit(8) \in {0, 256} /\ bit(9) \in {0, 512}
  OBVIOUS
<1>4. /\ bit(0) = 1 <=> N(0)
      /\ bit(1) = 2 <=> N(1)
      /\ bit(2) = 4 <=> N(2)
      /\ bit(3) = 8 <=> N(3)
      /\ bit(4) = 16 <=> N(4)
      /\ bit(5) = 32 <=> N(5)
      /\ bit(6) = 64 <=> N(6)
      /\ bit(7) = 128 <=> N(7)
      /\ bit(8) = 256 <=> N(8)
      /\ bit(9) = 512 <=> N(9)
  OBVIOUS
<1>5. EncodeClkIds(ClockIds) = m
  BY DEF EncodeClkIds
<1>6. /\ P(0) = 1 /\ P(1) = 2 /\ P(2) = 4 /\ P(3) = 8 /\ P(4) = 16 /\ P(5) = 32 /\ P(6) = 64
      /\ P(7) = 128 /\ P(8) = 256 /\ P(9) = 512
  OBVIOUS
<1>7. /\ P(10) = 1024 /\ P(11) = 2048 /\ P(12) = 4096 /\ P(13) = 8192 /\ P(14) = 16384
      /\ P(15) = 32768 /\ P(16) = 65536 /\ P(17) = 131072 /\ P(18) = 262144 /\ P(19) = 524288
      /\ P(20) = 1048576 /\ P(21) = 2097152 /\ P(22) = 4194304 /\ P(23) = 8388608
      /\ P(24) = 16777216 /\ P(25) = 33554432 /\ P(26) = 67108864 /\ P(27) = 134217728
      /\ P(28) = 268435456 /\ P(29) = 536870912 /\ P(30) = 1073741824 /\ P(31) = 2147483648
  OBVIOUS
<1> HIDE DEF bit, N, P
<1>8. m \in 0..1023
  BY <1>3
<1>9. /\ (m \div 1) % 2 = 1 <=> bit(0) = 1
      /\ (m \div 2) % 2 = 1 <=> bit(1) = 2
      /\ (m \div 4) % 2 = 1 <=> bit(2) = 4
      /\ (m \div 8) % 2 = 1 <=> bit(3) = 8
      /\ (m \div 16) % 2 = 1 <=> bit(4) = 16
      /\ (m \div 32) % 2 = 1 <=> bit(5) = 32
      /\ (m \div 64) % 2 = 1 <=> bit(6) = 64
      /\ (m \div 128) % 2 = 1 <=> bit(7) = 128
      /\ (m \div 256) % 2 = 1 <=> bit(8) = 256
      /\ (m \div 512) % 2 = 1 <=> bit(9) = 512
  BY <1>3
<1> HIDE DEF m
<1>10. ASSUME NEW s \in 0..9 PROVE (m \div P(s)) % 2 = 1 <=> N(s)
  BY <1>4, <1>6, <1>9
<1>11. ASSUME NEW s \in 10..31 PROVE (m \div P(s)) % 2 = 0
  <2>1. P(s) \in Nat /\ P(s) > m
    BY <1>7, <1>8
  <2>2. m \div P(s) = 0
    BY <1>8, <2>1
  <2>. QED
    BY <2>2
<1>. QED
  BY <1>2, <1>5, <1>8, <1>10, <1>11 DEF P

\* A configuration has a value for every variable of the function.
LEMMA Settable ==
  ASSUME NEW d \in Deltas
  PROVE  /\ DOMAIN Config(d) = Variables
         /\ \A v \in Variables : v \in {"TV_SEC_DELTA", "TV_NSEC_DELTA", "CLOCK_IDS_MASK"} =>
              /\ Config(d)[v] \in Int
              /\ v = "TV_SEC_DELTA" => Config(d)[v] = d[1]
              /\ v = "TV_NSEC_DELTA" => Config(d)[v] = d[2]
              /\ v = "CLOCK_IDS_MASK" => Config(d)[v] = EncodeClkIds(ClockIds)
<1>1. d[1] \in Int /\ d[2] \in Int
  BY DeltaAssumption
<1>. QED
  BY <1>1, MaskBits DEF Config, Written

\* Before anything is loaded, set or called, the invariant of the image holds.
LEMMA InitImageInv == Init => ImageInv
<1> SUFFICES ASSUME Init PROVE ImageInv
  OBVIOUS
<1>1. LayoutInv
  BY LayoutInit DEF Init
<1>2. AnyClk \in Clks
  BY ClkAssumption DEF AnyClk
<1>3. Types
  BY <1>2, RealAssumption DEF Init, Types, NoTime
<1>4. MemoryInv /\ LoadInv
  BY DEF Init, MemoryInv, LoadInv
<1>. QED
  BY <1>1, <1>3, <1>4 DEF ImageInv

\* Nothing but an attachment changes the image once it is loaded.
LEMMA KeepImage ==
  ASSUME ImageInv, UNCHANGED <<imageVars, memory, setting>>,
         pc' \in {"unattached", "refused"} \/ pc \notin {"unattached", "refused"}
  PROVE  LayoutInv' /\ MemoryInv'
<1>1. LayoutInv'
  BY LayoutUnchanged DEF ImageInv
<1>2. MemoryInv'
  <2>1. /\ object' = object /\ content' = content /\ offset' = offset /\ loading' = loading
        /\ memory' = memory /\ setting' = setting
    BY DEF imageVars
  <2>2. varLength' = varLength /\ Variables' = Variables
    BY <2>1 DEF varLength, Variables, fn
  <2>3. ImageAt(memory, StartAddress, Config(setting))'
          <=> ImageAt(memory, StartAddress, Config(setting))
    BY <2>1, <2>2 DEF ImageAt, TextAt, Place, Pointer, Config
  <2>. QED
    BY <2>1, <2>2, <2>3 DEF ImageInv, MemoryInv
<1>. QED
  BY <1>1, <1>2

\* No step of the function, of the command or of the clock breaks it.
LEMMA NextImageInv == ImageInv /\ [Next]_vars => ImageInv'
<1> SUFFICES ASSUME ImageInv, [Next]_vars PROVE ImageInv'
  OBVIOUS
<1> USE DEF ImageInv
<1>1. object \in Objects /\ AnyClk \in Clks
  BY ClkAssumption DEF LayoutInv, AnyClk
<1>2. CASE Load
  <2>1. LayoutInv' /\ object' = object /\ loading # "done"
    BY <1>2, LayoutNext DEF Load, LoadFakeImageFromEmbedFs, ReadText, AssetLD, SkipEntry, LoadDone
  <2>2. memory = <<>> /\ memory' = memory
    BY <1>2, <2>1 DEF Load, MemoryInv
  <2>3. MemoryInv' /\ Types' /\ LoadInv'
    BY <1>2, <2>1, <2>2 DEF Load, MemoryInv, Types, LoadInv, call, local, past
  <2>. QED
    BY <2>1, <2>3
<1>3. ASSUME NEW k \in DOMAIN object.relocs, LoadVariable(k) PROVE ImageInv'
  <2> DEFINE rela == object.relocs[k]
  <2>1. PICK d \in Deltas :
          d = setting /\ d \in during /\ ImageAt(memory, StartAddress, Config(d))
    <3>1. pc = "load"
      BY <1>3 DEF LoadVariable
    <3>2. setting \in during
      BY <3>1 DEF LoadInv
    <3>3. setting \in Deltas /\ ImageAt(memory, StartAddress, Config(setting))
      BY <3>1 DEF MemoryInv
    <3>. QED
      BY <3>2, <3>3
  <2>2. loading = "done" /\ Variables = DOMAIN offset
    BY <1>3 DEF LoadVariable, MemoryInv
  <2>3. rela.sym # NoSymbol =>
          rela.sym \in Variables /\ Loaded(memory, StartAddress, rela) = Config(d)[rela.sym]
    BY <2>1, <2>2, LoadsReach, StartAssumption
  <2>4. /\ rela.sym \in {"TV_SEC_DELTA", "TV_NSEC_DELTA", "CLOCK_IDS_MASK"} =>
             Loaded(memory, StartAddress, rela) \in Int
        /\ rela.sym = "TV_SEC_DELTA" => Loaded(memory, StartAddress, rela) = d[1]
        /\ rela.sym = "TV_NSEC_DELTA" => Loaded(memory, StartAddress, rela) = d[2]
        /\ rela.sym = "CLOCK_IDS_MASK" =>
             Loaded(memory, StartAddress, rela) = EncodeClkIds(ClockIds)
    BY <2>3, Settable DEF NoSymbol
  <2> HIDE DEF rela
  <2>5. /\ sec_delta' = IF rela.sym = "TV_SEC_DELTA" THEN d[1] ELSE sec_delta
        /\ nsec_delta' = IF rela.sym = "TV_NSEC_DELTA" THEN d[2] ELSE nsec_delta
        /\ clock_ids_mask' = IF rela.sym = "CLOCK_IDS_MASK"
                               THEN Loaded(memory, StartAddress, rela) ELSE clock_ids_mask
        /\ pc = "load" /\ read' = read \cup {k}
        /\ UNCHANGED <<real, memory, pc, call, loaded, seen, setting, during, imageVars>>
    BY <1>3, <2>4 DEF LoadVariable, rela, past
  <2>6. LayoutInv' /\ MemoryInv'
    BY <2>5, KeepImage
  <2>7. Types'
    BY <2>1, <2>4, <2>5, DeltaAssumption DEF Types, call
  <2>8. LoadInv'
    BY <2>1, <2>4, <2>5 DEF LoadInv, imageVars, AnyDelta, rela
  <2>. QED
    BY <2>6, <2>7, <2>8
<1>4. CASE Branch
  <2>1. LayoutInv' /\ MemoryInv'
    BY <1>4, KeepImage DEF Branch
  <2>2. Types'
    BY <1>1, <1>4, Second, VariableNames DEF Branch, Types, call
  <2>3. LoadInv'
    BY <1>1, <1>4, VariableNames DEF Branch, LoadInv, imageVars
  <2>. QED
    BY <2>1, <2>2, <2>3
<1>5. CASE Carry \/ Borrow
  <2>1. LayoutInv' /\ MemoryInv'
    BY <1>5, KeepImage DEF Carry, Borrow, past
  <2>2. Types' /\ LoadInv'
    BY <1>5, Second DEF Carry, Carried, Borrow, Borrowed, Types, LoadInv, imageVars, call, past
  <2>. QED
    BY <2>1, <2>2
<1>6. CASE CarryDone
  <2>1. LayoutInv' /\ MemoryInv'
    BY <1>6, KeepImage DEF CarryDone, past
  <2>2. Types' /\ LoadInv'
    BY <1>6 DEF CarryDone, Types, LoadInv, imageVars, call, local, past
  <2>. QED
    BY <2>1, <2>2
<1>7. CASE Return
  <2>1. LayoutInv' /\ MemoryInv'
    BY <1>7, KeepImage DEF Return, past
  <2>2. Result \in [sec : Int, frac : Int]
    <3>1. RoundSeconds(nsec_delta) \in Int /\ div_round_nearest(nsec_delta, Unit) \in Int
      BY NearestSecond, RoundNearest, Second DEF Types
    <3>2. tv.sec \in Int /\ tv.frac \in Int /\ sec_delta \in Int
      BY DEF Types
    <3>3. CASE pc = "real"
      BY <3>3 DEF Result, Types
    <3>4. CASE pc = "round"
      <4>1. Result = [tv EXCEPT !.sec = @ + sec_delta + RoundSeconds(nsec_delta)]
        BY <3>4 DEF Result
      <4>. QED
        BY <3>1, <3>2, <4>1 DEF Types
    <3>5. CASE pc = "borrow"
      BY <3>1, <3>2, <3>5 DEF Result
    <3>. QED
      BY <1>7, <3>3, <3>4, <3>5 DEF Return
  <2>3. Types' /\ LoadInv'
    BY <1>7, <2>2 DEF Return, Types, LoadInv, imageVars, local, past
  <2>. QED
    BY <2>1, <2>3
<1>8. CASE Seen
  <2>1. LayoutInv' /\ MemoryInv'
    BY <1>8, KeepImage DEF Seen, past
  <2>2. TimeOf(tv) \in Int
    BY Second DEF TimeOf, Types
  <2>3. Types' /\ LoadInv'
    BY <1>1, <1>8, <2>2, RealAssumption DEF Seen, Types, LoadInv, imageVars, NoTime
  <2>. QED
    BY <2>1, <2>3
<1>9. CASE Tick
  <2>1. LayoutInv' /\ MemoryInv'
    BY <1>9, KeepImage DEF Tick, past
  <2>2. Types' /\ LoadInv'
    BY <1>9, RealAssumption DEF Tick, Types, LoadInv, imageVars, call, local, past
  <2>. QED
    BY <2>1, <2>2
<1>10. CASE AttachRefused
  <2>1. LayoutInv' /\ MemoryInv'
    BY <1>10, KeepImage DEF AttachRefused, past
  <2>2. Types' /\ LoadInv'
    BY <1>10 DEF AttachRefused, Types, LoadInv, imageVars, call, local, past
  <2>. QED
    BY <2>1, <2>2
<1>11. ASSUME NEW c \in Clks, Call(c) PROVE ImageInv'
  <2>1. LayoutInv' /\ MemoryInv'
    BY <1>11, KeepImage DEF Call
  <2>2. Fraction(fn) \in Int /\ real \div billion \in Int
    <3>1. real \in Nat
      BY RealAssumption DEF Types
    <3>2. real % billion \in Nat /\ real \div billion \in Nat
      BY <3>1, Second, Quotient
    <3>3. (real % billion) \div Kilo \in Nat
      BY <3>2, UnitAssumption, Quotient
    <3>. QED
      BY <1>1, <3>2, <3>3, VariableNames DEF Fraction
  <2>3. Types'
    BY <1>11, <2>2 DEF Call, Types, local
  <2>4. LoadInv'
    BY <1>11 DEF Call, LoadInv, MemoryInv, imageVars, local
  <2>. QED
    BY <2>1, <2>3, <2>4
<1>12. ASSUME NEW d \in Deltas, AttachToProcess(d) PROVE ImageInv'
  <2> DEFINE found == memory # <<>>
                        /\ FindInjectedImage(memory, StartAddress, Cardinality(Variables))
             before == IF found THEN memory ELSE Mapped(StartAddress)
  <2>1. /\ loading = "done" /\ NumbersMatch /\ pc # "refused"
        /\ memory' = SetVars(before, StartAddress, Config(d))
        /\ pc' = IF pc = "unattached" THEN "ready" ELSE pc
        /\ setting' = d /\ during' = IF pc = "load" THEN during \cup {d} ELSE during
        /\ UNCHANGED <<real, call, local, seen, imageVars>>
    BY <1>12 DEF AttachToProcess
  <2>2. Variables = DOMAIN offset /\ DOMAIN Config(d) = DOMAIN offset
    BY <2>1, ReferredAreSet, Settable
  <2>3. TextAt(before, StartAddress)
    BY MappedText, StartAssumption DEF MemoryInv, ImageAt
  <2>4. ImageAt(memory', StartAddress, Config(d))
    <3> HIDE DEF before
    <3>. QED
      BY <2>1, <2>2, <2>3, SetVarsSets, StartAssumption
  <2>5. LayoutInv'
    BY <2>1, LayoutUnchanged
  <2>6. memory' # <<>>
    <3>1. "TV_SEC_DELTA" \in DOMAIN offset
      BY <1>1, <2>2, VariableNames
    <3>2. offset["TV_SEC_DELTA"] \in DOMAIN content.word
      BY <2>1, <3>1 DEF LayoutInv, RoomInv
    <3>3. DOMAIN memory' # {}
      BY <2>4, <3>2 DEF ImageAt, TextAt
    <3>. QED
      BY <3>3
  <2>7. MemoryInv'
    <3>1. ImageAt(memory, StartAddress, Config(setting))'
      <4>1. object' = object /\ content' = content /\ offset' = offset
        BY <2>1 DEF imageVars
      <4>2. varLength' = varLength /\ Variables' = Variables
        BY <4>1 DEF varLength, Variables, fn
      <4>3. Config(setting)' = Config(d)
        BY <2>1, <4>2 DEF Config
      <4>. QED
        BY <2>4, <4>1, <4>2, <4>3 DEF ImageAt, TextAt, Place, Pointer
    <3>2. Variables' = DOMAIN offset' /\ loading' = "done"
      BY <2>1, <2>2 DEF imageVars, Variables, VariablesOf, fn
    <3>. QED
      BY <2>1, <2>6, <3>1, <3>2 DEF MemoryInv
  <2>8. Types' /\ LoadInv'
    BY <2>1, DeltaAssumption DEF Types, LoadInv, AnyDelta, imageVars, call, local
  <2>. QED
    BY <2>5, <2>7, <2>8
<1>13. CASE UNCHANGED vars
  <2>1. LayoutInv' /\ MemoryInv'
    BY <1>13, KeepImage DEF vars, past
  <2>. QED
    BY <1>13, <2>1 DEF vars, call, local, past, Types, LoadInv, AnyDelta, imageVars
<1>. QED
  BY <1>2, <1>3, <1>4, <1>5, <1>6, <1>7, <1>8, <1>9, <1>10, <1>11, <1>12, <1>13 DEF Next, Function

\* In every reachable state the image is laid out with room for every variable, the memory of the
\* target holds it with the last setting, and what a call has loaded so far was in force during
\* the call.
THEOREM ImageInvariance == Spec => []ImageInv
  BY InitImageInv, NextImageInv, PTL DEF Spec

\* Every object file whose image gets attached is found again in the target.
THEOREM Found == Spec => []OwnImageFound
<1>1. ImageInv => OwnImageFound
  BY FoundAgain, StartAssumption DEF ImageInv, MemoryInv, OwnImageFound, ImageAt
<1>. QED
  BY <1>1, ImageInvariance, PTL

\* No image that refers to a foreign symbol is attached.
THEOREM Referring == Spec => []OnlyVariablesReferred
<1>1. ImageInv => OnlyVariablesReferred
  BY LoadsReach, StartAssumption DEF ImageInv, MemoryInv, OnlyVariablesReferred
<1>. QED
  BY <1>1, ImageInvariance, PTL

(***************************************************************************)
(* The time that is returned                                               *)
(***************************************************************************)

\* What the struct of a system call leaves out.
Gap == CASE fn = "clock_gettime" -> 1
         [] fn = "gettimeofday"  -> Kilo
         [] fn = "time"          -> billion

Inside == {"load", "carry", "borrow", "real", "round"}

\* Until the function returns, the struct holds what the system call returned.
StructInv ==
  /\ pc \in {"unattached", "refused", "ready"} => tv = NoTime
  /\ pc \in Inside =>
       /\ tv.frac \in Nat /\ tv.frac * Unit < billion
       /\ TimeOf(tv) <= atCall /\ atCall < TimeOf(tv) + Gap

\* The carries and borrows do not change the shift, and the first loop bounds what it
\* leaves for the second.
ShiftInv ==
  /\ pc = "real" => fn = "clock_gettime"
  /\ pc \in {"carry", "borrow"} => fn \in {"clock_gettime", "gettimeofday"}
  /\ pc = "round" => fn = "time"
  /\ pc \in {"carry", "borrow", "round"} => sec_delta * billion + nsec_delta = loaded
  /\ pc = "borrow" => nsec_delta + tv.frac * Unit <= billion

\* The loops end with a fraction that a caller can use, one second included: the first loop
\* compares with > and leaves exactly one billion in place.
FractionInRange ==
  pc = "returned" => 0 <= tv.frac /\ tv.frac * Unit <= billion

TimeInv == StructInv /\ ShiftInv /\ FractionInRange /\ TimeOfDayNear /\ TimeNear

\* Adding seconds and multiplying by their length may be swapped.
LEMMA Distribute ==
  ASSUME NEW a \in Int, NEW b \in Int, NEW c \in Int
  PROVE  (a + b) * c = a * c + b * c /\ a * c \in Int
  OBVIOUS

\* A multiple of k that is between 0 and m * k, but for less than k, is between them.
LEMMA WholeUnits ==
  ASSUME NEW k \in Nat \ {0}, NEW m \in Nat, NEW a \in Int,
         -k <= 2 * (a * k), 2 * (a * k) <= 2 * (m * k) + k
  PROVE  0 <= a /\ a <= m
<1>1. ASSUME a < 0 PROVE FALSE
  <2>1. a <= -1 /\ a * k <= (-1) * k
    BY <1>1
  <2>. QED
    BY <2>1
<1>2. ASSUME a > m PROVE FALSE
  <2>1. a >= m + 1 /\ a * k >= (m + 1) * k
    BY <1>2
  <2>2. (m + 1) * k = m * k + k
    BY Distribute
  <2>. QED
    BY <2>1, <2>2
<1>. QED
  BY <1>1, <1>2

\* The struct that a system call fills in.
LEMMA SystemCall ==
  ASSUME object \in Objects, NEW now \in Nat, real = now
  PROVE  LET t == [sec |-> now \div billion, frac |-> Fraction(fn)]
         IN /\ t.frac \in Nat /\ t.frac * Unit < billion
            /\ TimeOf(t) <= now /\ now < TimeOf(t) + Gap
<1> DEFINE s == now \div billion
           r == now % billion
           f == Fraction(fn)
<1>1. /\ s \in Nat /\ r \in Nat /\ now = billion * s + r /\ r < billion
  BY Second, Quotient
<1> HIDE DEF s
<1>2. f \in Nat /\ f * Unit <= r /\ r < f * Unit + Gap
  <2>1. CASE fn = "clock_gettime"
    BY <1>1, <2>1 DEF Fraction, Unit, Gap
  <2>2. CASE fn = "gettimeofday"
    <3> HIDE DEF r
    <3> DEFINE q == r \div Kilo
    <3>1. q \in Nat /\ Kilo * q <= r /\ r < Kilo * q + Kilo
      BY <1>1, UnitAssumption, Quotient
    <3>2. f = q
      BY <2>2 DEF Fraction, r
    <3> HIDE DEF q
    <3>. QED
      BY <2>2, <3>1, <3>2, UnitAssumption DEF Unit, Gap
  <2>3. CASE fn = "time"
    BY <1>1, <2>3, Second DEF Fraction, Unit, Gap
  <2>. QED
    BY <2>1, <2>2, <2>3, VariableNames
<1> HIDE DEF r, f
<1>3. f * Unit \in Int /\ s * billion = billion * s /\ s * billion \in Int
  BY <1>1, <1>2, Second
<1>4. Gap \in Nat
  BY Second, UnitAssumption, VariableNames DEF Gap
<1>5. s * billion + f * Unit <= now /\ now < s * billion + f * Unit + Gap
  BY <1>1, <1>2, <1>3, <1>4
<1>6. f \in Nat /\ f * Unit < billion
  BY <1>1, <1>2, <1>3, Second
<1>7. TimeOf([sec |-> s, frac |-> f]) = s * billion + f * Unit
  BY DEF TimeOf
<1>. QED
  BY <1>5, <1>6, <1>7 DEF s, f

\* What the functions with two loops return.
LEMMA Summed ==
  ASSUME ImageInv, TimeInv, pc = "borrow", ~TooSmall
  PROVE  LET t == [sec  |-> tv.sec + sec_delta,
                   frac |-> tv.frac + div_round_nearest(nsec_delta, Unit)]
             off == TimeOf(t) - (atCall + loaded)
         IN /\ 0 <= t.frac /\ t.frac * Unit <= billion
            /\ fn = "gettimeofday" => 2 * off <= Kilo /\ -3 * Kilo < 2 * off
<1> DEFINE q == div_round_nearest(nsec_delta, Unit)
           a == tv.sec * billion
           b == sec_delta * billion
           f == tv.frac * Unit
           g == q * Unit
<1>1. /\ tv.sec \in Int /\ tv.frac \in Nat /\ sec_delta \in Int /\ nsec_delta \in Int
      /\ atCall \in Int /\ loaded \in Int /\ billion \in Nat /\ Unit \in Nat \ {0}
      /\ fn \in {"clock_gettime", "gettimeofday"}
  BY Second, RealAssumption DEF ImageInv, Types, TimeInv, StructInv, ShiftInv, Inside
<1>2. /\ q \in Int /\ 2 * (Unit * q - nsec_delta) <= Unit
      /\ -Unit <= 2 * (Unit * q - nsec_delta)
  BY <1>1, RoundNearest
<1>3. a \in Int /\ b \in Int /\ f \in Nat
  BY <1>1
<1>4. /\ b + nsec_delta = loaded /\ nsec_delta + f <= billion /\ nsec_delta + f >= 0
      /\ a + f <= atCall /\ atCall < a + f + Gap
  BY <1>1, <1>3 DEF TimeInv, StructInv, ShiftInv, Inside, TooSmall, TimeOf
<1> HIDE DEF q
<1>5. /\ g = Unit * q /\ g \in Int /\ (tv.frac + q) * Unit = f + g
      /\ (tv.sec + sec_delta) * billion = a + b
  BY <1>1, <1>2, Distribute
<1> HIDE DEF a, b, f, g
<1>6. 0 <= tv.frac + q /\ (tv.frac + q) * Unit <= billion
  <2> DEFINE m == IF fn = "gettimeofday" THEN Micro ELSE billion
  <2>1. m \in Nat /\ m * Unit = billion
    BY <1>1, UnitAssumption DEF Unit, billion
  <2> HIDE DEF m
  <2>2. tv.frac + q \in Int
    BY <1>1, <1>2
  <2>3. -Unit <= 2 * (f + g) /\ 2 * (f + g) <= 2 * billion + Unit
    BY <1>1, <1>2, <1>3, <1>4, <1>5
  <2>4. 0 <= tv.frac + q /\ tv.frac + q <= m
    BY <1>1, <1>5, <2>1, <2>2, <2>3, WholeUnits
  <2>5. (tv.frac + q) * Unit <= m * Unit
    BY <1>1, <2>1, <2>2, <2>4
  <2>. QED
    BY <2>1, <2>4, <2>5
<1>7. ASSUME fn = "gettimeofday"
      PROVE  LET off == (a + b + (f + g)) - (atCall + loaded)
             IN  2 * off <= Kilo /\ -3 * Kilo < 2 * off
  <2>1. Unit = Kilo /\ Gap = Kilo /\ Kilo \in Nat
    BY <1>7, UnitAssumption DEF Unit, Gap
  <2>. QED
    BY <1>1, <1>2, <1>3, <1>4, <1>5, <2>1
<1>. QED
  BY <1>5, <1>6, <1>7 DEF TimeOf, q

\* What fake_time returns.
LEMMA Rounded ==
  ASSUME ImageInv, TimeInv, pc = "round"
  PROVE  LET t == [tv EXCEPT !.sec = @ + sec_delta + RoundSeconds(nsec_delta)]
             off == TimeOf(t) - (atCall + loaded)
         IN /\ 0 <= t.frac /\ t.frac * Unit <= billion
            /\ 2 * off <= billion /\ -3 * billion < 2 * off
<1> DEFINE q == RoundSeconds(nsec_delta)
           a == tv.sec * billion
           b == sec_delta * billion
           g == q * billion
           f == tv.frac * Unit
<1>1. /\ tv \in [sec : Int, frac : Int]
      /\ tv.sec \in Int /\ tv.frac \in Nat /\ sec_delta \in Int /\ nsec_delta \in Int
      /\ atCall \in Int /\ loaded \in Int /\ billion \in Nat /\ Unit \in Nat
      /\ fn = "time" /\ Gap = billion
  BY Second, RealAssumption DEF ImageInv, Types, TimeInv, StructInv, ShiftInv, Inside, Gap
<1>2. /\ q \in Int /\ 2 * (billion * q - nsec_delta) <= billion
      /\ -billion < 2 * (billion * q - nsec_delta)
  BY <1>1, NearestSecond
<1>3. a \in Int /\ b \in Int /\ f \in Nat
  BY <1>1
<1>4. /\ b + nsec_delta = loaded /\ f < billion
      /\ a + f <= atCall /\ atCall < a + f + billion
  BY <1>1, <1>3 DEF TimeInv, StructInv, ShiftInv, Inside, TimeOf
<1> HIDE DEF q
<1>5. /\ g = billion * q /\ g \in Int /\ (tv.sec + sec_delta) * billion = a + b
      /\ (tv.sec + sec_delta + q) * billion = a + b + g
  BY <1>1, <1>2, Distribute
<1> DEFINE t == [tv EXCEPT !.sec = @ + sec_delta + q]
<1>6. t.sec = tv.sec + sec_delta + q /\ t.frac = tv.frac
  BY <1>1
<1>7. TimeOf(t) = a + b + g + f
  BY <1>5, <1>6 DEF TimeOf
<1> HIDE DEF a, b, f, g, t
<1>8. LET off == (a + b + g + f) - (atCall + loaded)
      IN  2 * off <= billion /\ -3 * billion < 2 * off
  BY <1>1, <1>2, <1>3, <1>4, <1>5
<1>. QED
  BY <1>1, <1>4, <1>6, <1>7, <1>8 DEF t, q, f

\* Before the first call the invariant of the times holds.
LEMMA InitTimeInv == Init => TimeInv
  BY DEF Init, TimeInv, StructInv, ShiftInv, Inside, FractionInRange, TimeOfDayNear, TimeNear,
         Returned

\* No step of the function breaks it; the others do not touch its locals.
LEMMA NextTimeInv == ImageInv /\ TimeInv /\ [Next]_vars => TimeInv'
<1> SUFFICES ASSUME ImageInv, TimeInv, [Next]_vars PROVE TimeInv'
  OBVIOUS
<1> USE DEF Inside
<1>1. /\ object \in Objects /\ billion \in Nat \ {0} /\ Unit \in Nat \ {0}
      /\ fn \in {"clock_gettime", "gettimeofday", "time"}
      /\ tv \in [sec : Int, frac : Int] /\ sec_delta \in Int /\ nsec_delta \in Int
      /\ real \in Nat /\ atCall \in Nat
  BY Second, VariableNames, RealAssumption DEF ImageInv, LayoutInv, Types
<1>2. ASSUME pc' # "returned" PROVE FractionInRange' /\ TimeOfDayNear' /\ TimeNear'
  BY <1>2 DEF FractionInRange, TimeOfDayNear, TimeNear, Returned
<1>3. ASSUME object' = object
      PROVE  fn' = fn /\ Unit' = Unit /\ Gap' = Gap /\ \A t : TimeOf(t)' = TimeOf(t')
  BY <1>3 DEF fn, Unit, Gap, TimeOf
<1>4. ASSUME UNCHANGED <<pc, call, local>>, object' = object PROVE TimeInv'
  BY <1>4, <1>3 DEF call, local, TimeInv, StructInv, ShiftInv, FractionInRange, TimeOfDayNear,
         TimeNear, Returned, TimeOf, fn, Unit, Gap
<1>5. CASE Load
  <2>1. object' = object
    BY <1>5 DEF Load, LoadFakeImageFromEmbedFs, ReadText, AssetLD, SkipEntry, LoadDone
  <2>. QED
    BY <1>4, <1>5, <2>1 DEF Load
<1>6. ASSUME NEW k \in DOMAIN object.relocs, LoadVariable(k) PROVE TimeInv'
  BY <1>2, <1>6 DEF LoadVariable, TimeInv, StructInv, ShiftInv, call, imageVars, TimeOf, fn, Unit, Gap
<1>7. CASE Branch
  BY <1>1, <1>2, <1>7 DEF Branch, TimeInv, StructInv, ShiftInv, call, imageVars, TimeOf, fn, Unit, Gap
<1>8. CASE Carry \/ Borrow
  <2>1. /\ (sec_delta + 1) * billion + (nsec_delta - billion) = sec_delta * billion + nsec_delta
        /\ (sec_delta - 1) * billion + (nsec_delta + billion) = sec_delta * billion + nsec_delta
    BY <1>1, Distribute
  <2>2. sec_delta' * billion + nsec_delta' = sec_delta * billion + nsec_delta
    BY <1>8, <2>1 DEF Carry, Carried, Borrow, Borrowed
  <2>3. /\ pc \in {"carry", "borrow"} /\ UNCHANGED <<pc, call, loaded, imageVars>>
    BY <1>8 DEF Carry, Borrow
  <2>4. StructInv'
    BY <2>3 DEF TimeInv, StructInv, call, imageVars, TimeOf, fn, Unit, Gap
  <2>5. pc' = "borrow" => (nsec_delta + tv.frac * Unit <= billion)'
    <3>1. tv.frac * Unit \in Int
      BY <1>1
    <3>2. pc = "borrow" => nsec_delta + tv.frac * Unit < 0 /\ nsec_delta' = nsec_delta + billion
      BY <1>8 DEF Carry, Borrow, TooSmall
    <3>. QED
      BY <1>1, <2>3, <3>1, <3>2 DEF call, imageVars, Unit, fn
  <2>. QED
    BY <1>2, <2>2, <2>3, <2>4, <2>5 DEF TimeInv, ShiftInv, imageVars, fn
<1>9. CASE CarryDone
  <2>1. tv.frac * Unit \in Int
    BY <1>1
  <2>2. nsec_delta + tv.frac * Unit <= billion
    BY <1>1, <1>9, <2>1 DEF CarryDone, TooLarge
  <2>. QED
    BY <1>2, <1>9, <2>2 DEF CarryDone, TimeInv, StructInv, ShiftInv, call, local, imageVars, TimeOf, fn,
         Unit, Gap
<1>10. CASE Return
  <2>1. /\ pc' = "returned" /\ tv' = Result
        /\ UNCHANGED <<clk_id, atCall, local, imageVars>>
    BY <1>10 DEF Return
  <2>2. /\ fn' = fn /\ Unit' = Unit /\ atCall' = atCall /\ loaded' = loaded
        /\ TimeOf(tv)' = TimeOf(Result)
    BY <2>1 DEF imageVars, fn, Unit, local, TimeOf
  <2>3. /\ 0 <= Result.frac /\ Result.frac * Unit <= billion
        /\ fn = "gettimeofday" =>
             LET off == TimeOf(Result) - (atCall + loaded) IN 2 * off <= Kilo /\ -3 * Kilo < 2 * off
        /\ fn = "time" =>
             LET off == TimeOf(Result) - (atCall + loaded)
             IN 2 * off <= billion /\ -3 * billion < 2 * off
    <3>1. CASE pc = "real"
      <4>1. Result = tv /\ fn = "clock_gettime"
        BY <3>1 DEF Result, TimeInv, ShiftInv
      <4>2. tv.frac \in Nat /\ tv.frac * Unit < billion /\ tv.frac * Unit \in Int
        BY <1>1, <3>1 DEF TimeInv, StructInv
      <4>. QED
        BY <1>1, <4>1, <4>2
    <3>2. CASE pc = "round"
      <4>1. Result = [tv EXCEPT !.sec = @ + sec_delta + RoundSeconds(nsec_delta)] /\ fn = "time"
        BY <3>2 DEF Result, TimeInv, ShiftInv
      <4>. QED
        BY <3>2, <4>1, Rounded
    <3>3. CASE pc = "borrow" /\ ~TooSmall
      <4>1. /\ Result = [sec  |-> tv.sec + sec_delta,
                         frac |-> tv.frac + div_round_nearest(nsec_delta, Unit)]
            /\ fn # "time"
        BY <3>3 DEF Result, TimeInv, ShiftInv
      <4>. QED
        BY <3>3, <4>1, Summed
    <3>. QED
      BY <1>10, <3>1, <3>2, <3>3 DEF Return
  <2>4. StructInv' /\ ShiftInv'
    BY <2>1 DEF StructInv, ShiftInv
  <2>5. FractionInRange' /\ TimeOfDayNear' /\ TimeNear'
    BY <2>1, <2>2, <2>3 DEF FractionInRange, TimeOfDayNear, TimeNear, Returned
  <2>. QED
    BY <2>4, <2>5 DEF TimeInv
<1>11. CASE Seen
  BY <1>2, <1>11 DEF Seen, TimeInv, StructInv, ShiftInv
<1>12. CASE Tick
  BY <1>4, <1>12 DEF Tick, imageVars
<1>13. CASE AttachRefused
  BY <1>2, <1>13 DEF AttachRefused, TimeInv, StructInv, ShiftInv, call
<1>14. ASSUME NEW c \in Clks, Call(c) PROVE TimeInv'
  <2>1. /\ pc' = "load" /\ object' = object /\ atCall' = real
        /\ tv' = [sec |-> real \div billion, frac |-> Fraction(fn)]
    BY <1>14 DEF Call, imageVars
  <2>2. /\ tv'.frac \in Nat /\ tv'.frac * Unit < billion
        /\ TimeOf(tv') <= real /\ real < TimeOf(tv') + Gap
    BY <1>1, <2>1, SystemCall
  <2>3. StructInv'
    BY <2>1, <2>2 DEF StructInv, TimeOf, Gap, Unit, fn
  <2>. QED
    BY <1>2, <2>1, <2>3 DEF TimeInv, ShiftInv
<1>15. ASSUME NEW d \in Deltas, AttachToProcess(d) PROVE TimeInv'
  <2>1. /\ pc' = (IF pc = "unattached" THEN "ready" ELSE pc)
        /\ UNCHANGED <<call, local>> /\ object' = object
    BY <1>15 DEF AttachToProcess, imageVars
  <2>2. CASE pc = "unattached"
    BY <1>2, <2>1, <2>2 DEF TimeInv, StructInv, ShiftInv, call
  <2>. QED
    BY <1>4, <2>1, <2>2
<1>16. CASE UNCHANGED vars
  BY <1>4, <1>16 DEF vars, imageVars
<1>. QED
  BY <1>5, <1>6, <1>7, <1>8, <1>9, <1>10, <1>11, <1>12, <1>13, <1>14, <1>15, <1>16 DEF Next, Function

\* Both invariants hold of every reachable state.
LEMMA TimeInvariance == Spec => [](ImageInv /\ TimeInv)
  BY InitImageInv, NextImageInv, InitTimeInv, NextTimeInv, PTL DEF Spec

\* Every variable keeps its type, and every fraction that a system call returned is less
\* than a second.
THEOREM TypeCorrect == Spec => []TypeOK
<1>1. ASSUME ImageInv PROVE ImageTypeOK
  <2>1. /\ LayoutInv /\ object.size \in Nat /\ object.relocs \in Seq([off : Nat, sym : STRING, addend : Int])
    BY <1>1, ObjectAssumption DEF ImageInv, LayoutInv
  <2>2. \A v \in DOMAIN offset : offset[v] \in object.size..content.len - varLength
    BY <2>1 DEF LayoutInv, RoomInv
  <2>. QED
    BY <2>1, <2>2 DEF LayoutInv, ImageTypeOK
<1>2. ASSUME ImageInv, TimeInv, pc # "returned" PROVE tv.frac * Unit \in 0..billion - 1
  <2>1. billion \in Nat \ {0} /\ Unit \in Nat \ {0} /\ pc \in Inside \cup {"unattached", "refused", "ready"}
    BY <1>2, Second DEF ImageInv, Types, Inside
  <2>2. CASE pc \in Inside
    BY <1>2, <2>1, <2>2 DEF TimeInv, StructInv
  <2>3. CASE pc \notin Inside
    <3>1. tv.frac = 0
      BY <1>2, <2>1, <2>3 DEF TimeInv, StructInv, NoTime
    <3>. QED
      BY <2>1, <3>1
  <2>. QED
    BY <2>2, <2>3
<1>3. ImageInv /\ TimeInv => TypeOK
  <2> SUFFICES ASSUME ImageInv, TimeInv PROVE TypeOK
    OBVIOUS
  <2>1. during \subseteq Deltas /\ read \subseteq DOMAIN object.relocs
    BY DEF ImageInv, LoadInv
  <2>. QED
    BY <1>1, <1>2, <2>1 DEF ImageInv, Types, TypeOK
<1>. QED
  BY <1>3, TimeInvariance, PTL

\* No result has a fraction below zero or above a second, for any shift, and for a second
\* of any even length.
THEOREM FractionsInRange == Spec => []FractionInRange
<1>1. TimeInv => FractionInRange
  BY DEF TimeInv
<1>. QED
  BY <1>1, TimeInvariance, PTL

\* The rounding of fake_gettimeofday and of fake_time stays within its bounds.
THEOREM NearTimeOfDay == Spec => []TimeOfDayNear
<1>1. TimeInv => TimeOfDayNear
  BY DEF TimeInv
<1>. QED
  BY <1>1, TimeInvariance, PTL

\* fake_time returns the real time and the shift, off by at most half a second after and a second
\* and a half before, as the real fraction that time drops is lost first: for any shift.
THEOREM NearTime == Spec => []TimeNear
<1>1. TimeInv => TimeNear
  BY DEF TimeInv
<1>. QED
  BY <1>1, TimeInvariance, PTL

(***************************************************************************)
(* Exact clocks                                                            *)
(***************************************************************************)

\* No clock but the ten of KernelClocks has its bit: the ids of dynamic clocks and of the
\* CPU clocks of processes are negative, and 1 << clk_id counts modulo 32.
PlainClks == \A c \in Clks : ShiftCount(c) \in 0..9 => c \in 0..9

ClockInv ==
  /\ pc \in {"carry", "borrow"} /\ fn = "clock_gettime" => Names(clk_id)
  /\ pc = "real" => ~Names(clk_id)
  /\ ClockExact

\* The mask tells the clocks that are named.
LEMMA MaskNames ==
  ASSUME PlainClks, ImageInv, clock_ids_mask = EncodeClkIds(ClockIds)
  PROVE  Masked(clk_id) <=> Names(clk_id)
<1> DEFINE s == ShiftCount(clk_id)
<1>1. clk_id \in Int /\ clk_id \in Clks
  BY ClkAssumption DEF ImageInv, Types
<1>2. s \in 0..31 /\ (clk_id \in 0..9 => s = clk_id) /\ (s \in 0..9 => clk_id \in 0..9)
  BY <1>1 DEF ShiftCount, PlainClks
<1>3. Masked(clk_id) <=> (EncodeClkIds(ClockIds) \div 2 ^ s) % 2 = 1
  BY DEF Masked
<1> HIDE DEF s
<1>4. CASE s \in 0..9
  BY <1>2, <1>3, <1>4, MaskBits DEF Names
<1>5. CASE s \in 10..31
  <2>1. clk_id \notin 0..9
    BY <1>1, <1>2, <1>5
  <2>2. (EncodeClkIds(ClockIds) \div 2 ^ s) % 2 = 0
    BY <1>5, MaskBits
  <2>. QED
    BY <1>3, <2>1, <2>2 DEF Names
<1>. QED
  BY <1>2, <1>4, <1>5

\* What fake_clock_gettime returns is exact, as nothing is rounded.
LEMMA Exact ==
  ASSUME ImageInv, TimeInv, pc \in {"borrow", "real"}, fn = "clock_gettime"
  PROVE  TimeOf(Result) = atCall + (IF pc = "borrow" THEN loaded ELSE 0)
<1>1. /\ tv.sec \in Int /\ tv.frac \in Nat /\ sec_delta \in Int /\ nsec_delta \in Int
      /\ atCall \in Int /\ loaded \in Int /\ billion \in Nat /\ Unit = 1 /\ Gap = 1
  BY Second, RealAssumption DEF ImageInv, Types, TimeInv, StructInv, Inside, Unit, Gap
<1>2. tv.sec * billion \in Int /\ sec_delta * billion \in Int
  BY <1>1
<1>3. TimeOf(tv) = tv.sec * billion + tv.frac
  BY <1>1 DEF TimeOf
<1>4. TimeOf(tv) = atCall
  BY <1>1, <1>2, <1>3 DEF TimeInv, StructInv, Inside
<1>5. CASE pc = "real"
  BY <1>1, <1>4, <1>5 DEF Result
<1>6. CASE pc = "borrow"
  <2> DEFINE q == div_round_nearest(nsec_delta, 1)
             a == tv.sec * billion
             b == sec_delta * billion
  <2>1. q = nsec_delta
    <3>1. q \in Int /\ 2 * (1 * q - nsec_delta) <= 1 /\ -1 <= 2 * (1 * q - nsec_delta)
      BY <1>1, RoundNearest
    <3> HIDE DEF q
    <3>. QED
      BY <1>1, <3>1
  <2>2. Result = [sec |-> tv.sec + sec_delta, frac |-> tv.frac + nsec_delta]
    BY <1>1, <1>6, <2>1 DEF Result
  <2>3. TimeOf(Result) = (tv.sec + sec_delta) * billion + (tv.frac + nsec_delta)
    BY <1>1, <2>2 DEF TimeOf
  <2>4. (tv.sec + sec_delta) * billion = tv.sec * billion + sec_delta * billion
    BY <1>1, Distribute
  <2>5. sec_delta * billion + nsec_delta = loaded
    BY <1>6 DEF TimeInv, ShiftInv
  <2>6. /\ a \in Int /\ b \in Int /\ a + tv.frac = atCall /\ b + nsec_delta = loaded
        /\ (tv.sec + sec_delta) * billion = a + b
    BY <1>2, <1>3, <1>4, <2>4, <2>5
  <2> HIDE DEF a, b
  <2>7. TimeOf(Result) = (a + b) + (tv.frac + nsec_delta)
    BY <2>3, <2>6
  <2>. QED
    BY <1>1, <1>6, <2>6, <2>7
<1>. QED
  BY <1>5, <1>6

\* From the mask to the result, a call shifts just the clocks that are named.
LEMMA NextClockInv == PlainClks /\ ImageInv /\ TimeInv /\ ClockInv /\ [Next]_vars => ClockInv'
<1> SUFFICES ASSUME PlainClks, ImageInv, TimeInv, ClockInv, [Next]_vars PROVE ClockInv'
  OBVIOUS
<1>1. ASSUME pc' \notin {"carry", "borrow", "real", "returned"} PROVE ClockInv'
  BY <1>1 DEF ClockInv, ClockExact, Returned
<1>2. ASSUME UNCHANGED <<pc, call, loaded, object>> PROVE ClockInv'
  BY <1>2 DEF ClockInv, ClockExact, Returned, Names, call, fn, TimeOf, Unit
<1>3. CASE Branch
  <2>1. object \in Objects /\ read = DOMAIN object.relocs /\ pc = "load"
    BY <1>3 DEF Branch, ImageInv, LayoutInv
  <2>2. fn = "clock_gettime" => clock_ids_mask = EncodeClkIds(ClockIds)
    <3>1. fn = "clock_gettime" => "CLOCK_IDS_MASK" \in Variables
      BY DEF Variables, VariablesOf
    <3>. QED
      BY <2>1, <3>1, VariableNames DEF ImageInv, LoadInv
  <2>3. fn = "clock_gettime" => (Masked(clk_id) <=> Names(clk_id))
    BY <2>2, MaskNames
  <2>4. fn' = fn /\ clk_id' = clk_id
    BY <1>3 DEF Branch, call, imageVars, fn
  <2>5. pc' = CASE fn = "clock_gettime" -> IF Masked(clk_id) THEN "carry" ELSE "real"
                [] fn = "gettimeofday"  -> "carry"
                [] fn = "time"          -> "round"
    BY <1>3 DEF Branch
  <2>6. fn \in {"clock_gettime", "gettimeofday", "time"}
    BY <2>1, VariableNames
  <2>. QED
    BY <2>3, <2>4, <2>5, <2>6 DEF ClockInv, ClockExact, Returned, Names
<1>4. CASE CarryDone
  BY <1>4 DEF CarryDone, ClockInv, ClockExact, Returned, Names, call, imageVars, fn
<1>5. CASE Carry \/ Borrow
  BY <1>5 DEF Carry, Borrow, ClockInv, ClockExact, Returned, Names, call, imageVars, fn
<1>6. CASE Return
  <2>1. /\ pc' = "returned" /\ tv' = Result /\ pc \in {"real", "round", "borrow"}
        /\ UNCHANGED <<clk_id, atCall, local, imageVars>>
    BY <1>6 DEF Return
  <2>2. /\ fn' = fn /\ clk_id' = clk_id /\ atCall' = atCall /\ loaded' = loaded
        /\ TimeOf(tv)' = TimeOf(Result)
    BY <2>1 DEF imageVars, fn, Unit, local, TimeOf
  <2>3. fn = "clock_gettime" => pc \in {"borrow", "real"}
    BY <2>1 DEF TimeInv, ShiftInv
  <2>4. fn = "clock_gettime" =>
          TimeOf(Result) = atCall + (IF Names(clk_id) THEN loaded ELSE 0)
    BY <2>3, Exact DEF ClockInv
  <2>. QED
    BY <2>1, <2>2, <2>4 DEF ClockInv, ClockExact, Returned, Names
<1>7. CASE Load
  BY <1>2, <1>7 DEF Load, local, LoadFakeImageFromEmbedFs, ReadText, AssetLD, SkipEntry, LoadDone
<1>8. ASSUME NEW d \in Deltas, AttachToProcess(d) PROVE ClockInv'
  <2>1. /\ pc' = (IF pc = "unattached" THEN "ready" ELSE pc)
        /\ UNCHANGED <<call, loaded, object>>
    BY <1>8 DEF AttachToProcess, imageVars, local
  <2>. QED
    BY <1>1, <1>2, <2>1
<1>. QED
  BY <1>1, <1>2, <1>3, <1>4, <1>5, <1>6, <1>7, <1>8 DEF Next, Function, LoadVariable,
     Seen, Tick, AttachRefused, Call, vars, local, imageVars

\* A clock that is named shows the real time and the shift, to the nanosecond, and no other
\* is shifted, for every setting, however far, and every set of names.
THEOREM ExactClocks == PlainClks => (Spec => []ClockExact)
<1> SUFFICES ASSUME PlainClks PROVE Spec => []ClockExact
  OBVIOUS
<1>1. Init => ClockInv
  BY DEF Init, ClockInv, ClockExact, Returned
<1>2. ImageInv /\ TimeInv /\ ClockInv /\ [Next]_vars => ClockInv'
  BY NextClockInv
<1>3. ClockInv => ClockExact
  BY DEF ClockInv
<1>. QED
  BY <1>1, <1>2, <1>3, TimeInvariance, PTL DEF Spec

(***************************************************************************)
(* The settings in force                                                   *)
(***************************************************************************)

\* Whatever settings there are, and however the loads interleave with them, the seconds and the
\* nanoseconds that a call has loaded were each in force during the call.
THEOREM InForce == Spec => []DeltaInForce
<1>1. ImageInv => DeltaInForce
  <2> SUFFICES ASSUME ImageInv, pc = "load", read = DOMAIN object.relocs
               PROVE  \E d, e \in during : sec_delta = d[1] /\ nsec_delta = e[2]
    BY DEF DeltaInForce
  <2>1. sec_delta \in AnyDelta(1) /\ nsec_delta \in AnyDelta(2)
    BY VariableNames DEF ImageInv, LayoutInv, LoadInv
  <2>. QED
    BY <2>1 DEF AnyDelta
<1>. QED
  BY <1>1, ImageInvariance, PTL

(***************************************************************************)
(* Two calls                                                               *)
(***************************************************************************)

\* A function that asked at now and loaded shift may return the time t: whichever s and n
\* make up the shift when its loops are done.
Answers(t, now, shift) ==
  \E sec \in Int, frac \in Nat, s \in Int, n \in Int :
    LET whole == sec * billion + frac * Unit
    IN /\ frac * Unit < billion
       /\ whole <= now /\ now < whole + Gap
       /\ s * billion + n = shift
       /\ \/ /\ fn \in {"clock_gettime", "gettimeofday"}
             /\ 0 <= n + frac * Unit /\ n + frac * Unit <= billion
             /\ t = (sec + s) * billion + (frac + div_round_nearest(n, Unit)) * Unit
          \/ /\ fn = "time" /\ frac = 0
             /\ t = (sec + s + RoundSeconds(n)) * billion

\* The next multiple is a whole k away.
LEMMA NextMultiple ==
  ASSUME NEW k \in Nat \ {0}, NEW a \in Int, NEW b \in Int, a < b
  PROVE  a * k + k <= b * k
<1>1. (a + 1) * k <= b * k
  BY a + 1 <= b
<1>. QED
  BY <1>1, Distribute

\* A multiple is its own nearest multiple.
LEMMA RoundMultiple ==
  ASSUME NEW k \in Nat \ {0}, NEW a \in Int
  PROVE  div_round_nearest(a * k, k) = a
<1> DEFINE q == div_round_nearest(a * k, k)
           p == a * k
<1>1. p \in Int
  OBVIOUS
<1>2. q \in Int /\ 2 * (k * q - p) <= k /\ -k <= 2 * (k * q - p)
  BY <1>1, RoundNearest
<1> HIDE DEF q
<1>3. k * q = q * k /\ q * k \in Int
  BY <1>2
<1>4. ASSUME q < a PROVE FALSE
  <2>1. q * k + k <= p
    BY <1>2, <1>4, NextMultiple
  <2>. QED
    BY <1>1, <1>2, <1>3, <2>1
<1>5. ASSUME a < q PROVE FALSE
  <2>1. p + k <= q * k
    BY <1>2, <1>5, NextMultiple
  <2>. QED
    BY <1>1, <1>2, <1>3, <2>1
<1>6. q = a
  BY <1>2, <1>4, <1>5
<1>. QED
  BY <1>6 DEF q

\* A number is split into whole seconds and a rest in one way.
LEMMA OneSplit ==
  ASSUME NEW k \in Nat \ {0}, NEW a \in Int, NEW b \in Int, NEW f \in Int, NEW g \in Int,
         0 <= f, f < k, 0 <= g, g < k, a * k + f <= b * k + g
  PROVE  a <= b /\ (a * k + f = b * k + g => a = b /\ f = g)
<1>1. a * k \in Int /\ b * k \in Int
  OBVIOUS
<1>2. ASSUME b < a PROVE FALSE
  <2>1. b * k + k <= a * k
    BY <1>2, NextMultiple
  <2>. QED
    BY <1>1, <2>1
<1>3. ASSUME a < b, a * k + f = b * k + g PROVE FALSE
  <2>1. a * k + k <= b * k
    BY <1>3, NextMultiple
  <2>. QED
    BY <1>1, <1>3, <2>1
<1>. QED
  BY <1>1, <1>2, <1>3

\* The functions with two loops: if the struct of the second call is no earlier, neither is
\* its result, also where the loops ended on different sides of a second.
LEMMA LoopsForward ==
  ASSUME NEW k \in Nat \ {0}, NEW b \in Nat \ {0}, NEW m \in Nat, b = m * k,
         NEW sec1 \in Int, NEW frac1 \in Nat, NEW s1 \in Int, NEW n1 \in Int,
         NEW sec2 \in Int, NEW frac2 \in Nat, NEW s2 \in Int, NEW n2 \in Int,
         frac1 * k < b, frac2 * k < b,
         sec1 * b + frac1 * k < sec2 * b + frac2 * k + k,
         s1 * b + n1 = s2 * b + n2,
         0 <= n1 + frac1 * k, n1 + frac1 * k <= b,
         0 <= n2 + frac2 * k, n2 + frac2 * k <= b
  PROVE  (sec1 + s1) * b + (frac1 + div_round_nearest(n1, k)) * k
           <= (sec2 + s2) * b + (frac2 + div_round_nearest(n2, k)) * k
<1> DEFINE q1 == div_round_nearest(n1, k)
           q2 == div_round_nearest(n2, k)
           a1 == sec1 * b
           a2 == sec2 * b
           f1 == frac1 * k
           f2 == frac2 * k
           c1 == s1 * b
           c2 == s2 * b
           g1 == q1 * k
           g2 == q2 * k
<1>1. /\ q1 \in Int /\ 2 * (k * q1 - n1) <= k /\ -k <= 2 * (k * q1 - n1)
      /\ q2 \in Int /\ 2 * (k * q2 - n2) <= k /\ -k <= 2 * (k * q2 - n2)
  BY RoundNearest
<1> HIDE DEF q1, q2
<1>2. g1 = k * q1 /\ g2 = k * q2
  BY <1>1
<1>3. /\ (sec1 + s1) * b = a1 + c1 /\ (sec2 + s2) * b = a2 + c2
      /\ (frac1 + q1) * k = f1 + g1 /\ (frac2 + q2) * k = f2 + g2
      /\ a1 \in Int /\ a2 \in Int /\ c1 \in Int /\ c2 \in Int
      /\ f1 \in Int /\ f2 \in Int /\ g1 \in Int /\ g2 \in Int
  BY <1>1, Distribute
<1>4. f1 \in Nat /\ f2 \in Nat
  BY <1>3
<1> DEFINE m1 == sec1 * m + frac1
           m2 == sec2 * m + frac2
<1>5. /\ m1 \in Int /\ m2 \in Int
      /\ m1 * k = a1 + f1 /\ m2 * k = a2 + f2
  <2>1. /\ sec1 * m \in Int /\ sec2 * m \in Int
        /\ (sec1 * m) * k = sec1 * (m * k) /\ (sec2 * m) * k = sec2 * (m * k)
    OBVIOUS
  <2>2. /\ (sec1 * m + frac1) * k = (sec1 * m) * k + frac1 * k
        /\ (sec2 * m + frac2) * k = (sec2 * m) * k + frac2 * k
    BY <2>1, Distribute
  <2>. QED
    BY <2>1, <2>2
<1> HIDE DEF m1, m2
<1>6. /\ f1 < b /\ f2 < b /\ a1 + f1 < a2 + f2 + k /\ c1 + n1 = c2 + n2
      /\ 0 <= n1 + f1 /\ n1 + f1 <= b /\ 0 <= n2 + f2 /\ n2 + f2 <= b
  OBVIOUS
<1>7. a1 + f1 + c1 + g1 <= a2 + f2 + c2 + g2
  <2>1. CASE m1 < m2
    <3>1. m1 * k + k <= m2 * k
      BY <1>5, <2>1, NextMultiple
    <3> HIDE DEF a1, a2, f1, f2, c1, c2, g1, g2
    <3>. QED
      BY <1>1, <1>2, <1>3, <1>5, <1>6, <3>1
  <2>2. CASE m2 < m1
    <3>1. m2 * k + k <= m1 * k
      BY <1>5, <2>2, NextMultiple
    <3> HIDE DEF a1, a2, f1, f2, c1, c2, g1, g2
    <3>. QED
      BY <1>3, <1>5, <1>6, <3>1
  <2>3. CASE m1 = m2
    <3>1. a1 + f1 = a2 + f2
      BY <1>5, <2>3
    <3>2. f1 = f2
      BY <1>4, <1>6, <3>1, OneSplit
    <3>3. c1 + g1 = c2 + g2
      <4>1. CASE s1 < s2
        <5>1. c1 + b <= c2
          BY <4>1, NextMultiple
        <5>2. n1 = b - f1 /\ n2 = -f2
          <6> HIDE DEF a1, a2, f1, f2, c1, c2, g1, g2
          <6>. QED
            BY <1>3, <1>6, <3>2, <5>1
        <5>3. n1 = (m - frac1) * k /\ n2 = (-frac2) * k
          BY <5>2
        <5>4. q1 = m - frac1 /\ q2 = -frac2
          BY <5>3, RoundMultiple DEF q1, q2
        <5>. QED
          BY <1>6, <5>3, <5>4
      <4>2. CASE s2 < s1
        <5>1. c2 + b <= c1
          BY <4>2, NextMultiple
        <5>2. n2 = b - f2 /\ n1 = -f1
          <6> HIDE DEF a1, a2, f1, f2, c1, c2, g1, g2
          <6>. QED
            BY <1>3, <1>6, <3>2, <5>1
        <5>3. n2 = (m - frac2) * k /\ n1 = (-frac1) * k
          BY <5>2
        <5>4. q2 = m - frac2 /\ q1 = -frac1
          BY <5>3, RoundMultiple DEF q1, q2
        <5>. QED
          BY <1>6, <5>3, <5>4
      <4>3. CASE s1 = s2
        <5>1. n1 = n2
          <6> HIDE DEF a1, a2, f1, f2, g1, g2
          <6>1. c1 = c2
            BY <4>3
          <6> HIDE DEF c1, c2
          <6>. QED
            BY <1>3, <1>6, <6>1
        <5>. QED
          BY <4>3, <5>1 DEF q1, q2
      <4>. QED
        BY <4>1, <4>2, <4>3
    <3> HIDE DEF a1, a2, f1, f2, c1, c2, g1, g2
    <3>. QED
      BY <1>3, <3>1, <3>3
  <2>. QED
    BY <1>5, <2>1, <2>2, <2>3
<1> HIDE DEF a1, a2, f1, f2, c1, c2, g1, g2
<1>. QED
  BY <1>3, <1>7 DEF q1, q2

\* fake_time: RoundSeconds gives the same sum wherever the shift was split.
LEMMA RoundForward ==
  ASSUME NEW sec1 \in Int, NEW s1 \in Int, NEW n1 \in Int,
         NEW sec2 \in Int, NEW s2 \in Int, NEW n2 \in Int,
         sec1 <= sec2, s1 * billion + n1 = s2 * billion + n2
  PROVE  (sec1 + s1 + RoundSeconds(n1)) * billion <= (sec2 + s2 + RoundSeconds(n2)) * billion
<1> DEFINE g1 == s1 + RoundSeconds(n1)
           g2 == s2 + RoundSeconds(n2)
           c1 == s1 * billion
           c2 == s2 * billion
           p1 == RoundSeconds(n1) * billion
           p2 == RoundSeconds(n2) * billion
<1>1. /\ RoundSeconds(n1) \in Int /\ 2 * (billion * RoundSeconds(n1) - n1) <= billion
      /\ -billion < 2 * (billion * RoundSeconds(n1) - n1)
      /\ RoundSeconds(n2) \in Int /\ 2 * (billion * RoundSeconds(n2) - n2) <= billion
      /\ -billion < 2 * (billion * RoundSeconds(n2) - n2)
  BY NearestSecond
<1>2. /\ billion \in Nat \ {0} /\ g1 \in Int /\ g2 \in Int /\ c1 \in Int /\ c2 \in Int
      /\ p1 \in Int /\ p2 \in Int
      /\ p1 = billion * RoundSeconds(n1) /\ p2 = billion * RoundSeconds(n2)
      /\ g1 * billion = c1 + p1 /\ g2 * billion = c2 + p2
  BY <1>1, Second, Distribute
<1>3. c1 + n1 = c2 + n2
  OBVIOUS
<1>4. ASSUME g1 < g2 PROVE FALSE
  <2>1. g1 * billion + billion <= g2 * billion
    BY <1>2, <1>4, NextMultiple
  <2> HIDE DEF g1, g2, c1, c2, p1, p2
  <2>. QED
    BY <1>1, <1>2, <1>3, <2>1
<1>5. ASSUME g2 < g1 PROVE FALSE
  <2>1. g2 * billion + billion <= g1 * billion
    BY <1>2, <1>5, NextMultiple
  <2> HIDE DEF g1, g2, c1, c2, p1, p2
  <2>. QED
    BY <1>1, <1>2, <1>3, <2>1
<1>6. sec1 + s1 + RoundSeconds(n1) = sec1 + g1 /\ sec2 + s2 + RoundSeconds(n2) = sec2 + g2
  BY <1>1
<1> HIDE DEF g1, g2
<1>7. sec1 + g1 <= sec2 + g2 /\ sec1 + g1 \in Int /\ sec2 + g2 \in Int
  BY <1>2, <1>4, <1>5
<1>8. (sec1 + g1) * billion <= (sec2 + g2) * billion
  BY <1>2, <1>7
<1>. QED
  BY <1>6, <1>8

\* With one shift, what a call may return never lies before what an earlier one may.
LEMMA AnswersForward ==
  ASSUME object \in Objects, NEW now1 \in Nat, NEW now2 \in Nat, now1 <= now2,
         NEW shift \in Int, NEW t1 \in Int, NEW t2 \in Int,
         Answers(t1, now1, shift), Answers(t2, now2, shift)
  PROVE  t1 <= t2
<1>1. /\ billion \in Nat \ {0} /\ Unit \in Nat \ {0}
      /\ fn \in {"clock_gettime", "gettimeofday", "time"}
  BY Second, VariableNames
<1>2. PICK sec1 \in Int, frac1 \in Nat, s1 \in Int, n1 \in Int :
        LET whole == sec1 * billion + frac1 * Unit
        IN /\ frac1 * Unit < billion
           /\ whole <= now1 /\ now1 < whole + Gap
           /\ s1 * billion + n1 = shift
           /\ \/ /\ fn \in {"clock_gettime", "gettimeofday"}
                 /\ 0 <= n1 + frac1 * Unit /\ n1 + frac1 * Unit <= billion
                 /\ t1 = (sec1 + s1) * billion + (frac1 + div_round_nearest(n1, Unit)) * Unit
              \/ /\ fn = "time" /\ frac1 = 0
                 /\ t1 = (sec1 + s1 + RoundSeconds(n1)) * billion
  BY DEF Answers
<1>3. PICK sec2 \in Int, frac2 \in Nat, s2 \in Int, n2 \in Int :
        LET whole == sec2 * billion + frac2 * Unit
        IN /\ frac2 * Unit < billion
           /\ whole <= now2 /\ now2 < whole + Gap
           /\ s2 * billion + n2 = shift
           /\ \/ /\ fn \in {"clock_gettime", "gettimeofday"}
                 /\ 0 <= n2 + frac2 * Unit /\ n2 + frac2 * Unit <= billion
                 /\ t2 = (sec2 + s2) * billion + (frac2 + div_round_nearest(n2, Unit)) * Unit
              \/ /\ fn = "time" /\ frac2 = 0
                 /\ t2 = (sec2 + s2 + RoundSeconds(n2)) * billion
  BY DEF Answers
<1> DEFINE w1 == sec1 * billion + frac1 * Unit
           w2 == sec2 * billion + frac2 * Unit
<1>4. /\ w1 \in Int /\ w2 \in Int /\ Gap \in Nat
      /\ w1 <= now1 /\ now2 < w2 + Gap
  BY <1>1, <1>2, <1>3, UnitAssumption DEF Gap
<1>5. w1 < w2 + Gap
  <2> HIDE DEF w1, w2
  <2>. QED
    BY <1>4
<1>6. CASE fn = "time"
  <2>1. frac1 = 0 /\ frac2 = 0 /\ Gap = billion
    BY <1>2, <1>3, <1>6 DEF Gap
  <2>2. w1 = sec1 * billion /\ w2 = sec2 * billion
    BY <1>1, <2>1
  <2>3. ASSUME sec2 < sec1 PROVE FALSE
    <3>1. sec2 * billion + billion <= sec1 * billion
      BY <1>1, <2>3, NextMultiple
    <3> HIDE DEF w1, w2
    <3>. QED
      BY <1>1, <1>4, <1>5, <2>1, <2>2, <3>1
  <2>4. /\ t1 = (sec1 + s1 + RoundSeconds(n1)) * billion
        /\ t2 = (sec2 + s2 + RoundSeconds(n2)) * billion
    BY <1>2, <1>3, <1>6
  <2>5. sec1 <= sec2 /\ s1 * billion + n1 = s2 * billion + n2
    <3>1. sec1 <= sec2
      BY <2>3
    <3>. QED
      BY <1>2, <1>3, <3>1
  <2>6. (sec1 + s1 + RoundSeconds(n1)) * billion <= (sec2 + s2 + RoundSeconds(n2)) * billion
    BY <2>5, RoundForward
  <2>. QED
    BY <2>4, <2>6
<1>7. CASE fn # "time"
  <2> DEFINE m == IF fn = "gettimeofday" THEN Micro ELSE billion
  <2>1. m \in Nat /\ billion = m * Unit /\ Gap = Unit
    BY <1>1, <1>7, UnitAssumption DEF Unit, billion, Gap
  <2> HIDE DEF m
  <2>2. /\ t1 = (sec1 + s1) * billion + (frac1 + div_round_nearest(n1, Unit)) * Unit
        /\ 0 <= n1 + frac1 * Unit /\ n1 + frac1 * Unit <= billion
        /\ frac1 * Unit < billion /\ s1 * billion + n1 = shift
    BY <1>2, <1>7
  <2>3. /\ t2 = (sec2 + s2) * billion + (frac2 + div_round_nearest(n2, Unit)) * Unit
        /\ 0 <= n2 + frac2 * Unit /\ n2 + frac2 * Unit <= billion
        /\ frac2 * Unit < billion /\ s2 * billion + n2 = shift
    BY <1>3, <1>7
  <2>4. sec1 * billion + frac1 * Unit < sec2 * billion + frac2 * Unit + Unit
    BY <1>5, <2>1
  <2> HIDE DEF w1, w2
  <2>5. (sec1 + s1) * billion + (frac1 + div_round_nearest(n1, Unit)) * Unit
          <= (sec2 + s2) * billion + (frac2 + div_round_nearest(n2, Unit)) * Unit
    BY <1>1, <2>1, <2>2, <2>3, <2>4, LoopsForward
  <2>. QED
    BY <2>2, <2>3, <2>5
<1>. QED
  BY <1>6, <1>7

\* The clock stands still within a call, and what a caller saw last is what some call no
\* later than now may have returned.
SeenInv ==
  /\ pc \in Inside \cup {"returned"} => atCall = real
  /\ pc \in Inside /\ fn = "time" => tv.frac = 0
  /\ pc = "real" => ~Names(clk_id)
  /\ pc = "returned" /\ Shifted => Answers(TimeOf(tv), atCall, loaded)
  /\ \E now \in 0..real : Answers(seen.time, now, seen.shift)

\* A clock that was named has its bit, also where another clock shares it.
LEMMA NamedMasked ==
  ASSUME ImageInv, clock_ids_mask = EncodeClkIds(ClockIds), Names(clk_id)
  PROVE  Masked(clk_id)
<1>1. clk_id \in 0..9 /\ KernelClocks[clk_id + 1] \in ClockIds
  BY DEF Names
<1>2. ShiftCount(clk_id) = clk_id
  BY <1>1 DEF ShiftCount
<1>3. (EncodeClkIds(ClockIds) \div 2 ^ clk_id) % 2 = 1
  BY <1>1, MaskBits
<1>. QED
  BY <1>2, <1>3 DEF Masked

\* Before the first call, nothing was seen: the answer of a call at 0 that is not shifted.
LEMMA InitSeenInv == Init => SeenInv
<1> SUFFICES ASSUME Init PROVE SeenInv
  OBVIOUS
<1>1. /\ real = 0 /\ seen.time = 0 /\ seen.shift = 0 /\ pc = "unattached"
      /\ object \in Objects /\ billion \in Nat \ {0} /\ Unit \in Nat \ {0}
      /\ fn \in {"clock_gettime", "gettimeofday", "time"}
  BY Second, VariableNames DEF Init, ImageInit
<1>2. div_round_nearest(0, Unit) = 0
  <2>1. div_round_nearest(0 * Unit, Unit) = 0
    BY <1>1, RoundMultiple
  <2>. QED
    BY <1>1, <2>1
<1>3. RoundSeconds(0) = 0
  <2> DEFINE q == RoundSeconds(0)
  <2>1. q \in Int /\ 2 * (billion * q - 0) <= billion /\ -billion < 2 * (billion * q - 0)
    BY NearestSecond
  <2> HIDE DEF q
  <2>2. billion * q = q * billion /\ q * billion \in Int /\ 0 * billion = 0
    BY <1>1, <2>1
  <2>3. ASSUME q < 0 PROVE FALSE
    <3>1. q * billion + billion <= 0 * billion
      BY <1>1, <2>1, <2>3, NextMultiple
    <3>. QED
      BY <1>1, <2>1, <2>2, <3>1
  <2>4. ASSUME 0 < q PROVE FALSE
    <3>1. 0 * billion + billion <= q * billion
      BY <1>1, <2>1, <2>4, NextMultiple
    <3>. QED
      BY <1>1, <2>1, <2>2, <3>1
  <2>5. q = 0
    BY <2>1, <2>3, <2>4
  <2>. QED
    BY <2>5 DEF q
<1>4. Gap \in Nat \ {0}
  BY <1>1, UnitAssumption DEF Gap
<1>5. 0 * billion = 0 /\ 0 * Unit = 0 /\ (0 + 0) * billion = 0 /\ (0 + 0) * Unit = 0
      /\ (0 + 0 + 0) * billion = 0
  BY <1>1
<1>6. Answers(0, 0, 0)
  <2> DEFINE A(sec, frac, s, n) ==
        LET whole == sec * billion + frac * Unit
        IN /\ frac * Unit < billion
           /\ whole <= 0 /\ 0 < whole + Gap
           /\ s * billion + n = 0
           /\ \/ /\ fn \in {"clock_gettime", "gettimeofday"}
                 /\ 0 <= n + frac * Unit /\ n + frac * Unit <= billion
                 /\ 0 = (sec + s) * billion + (frac + div_round_nearest(n, Unit)) * Unit
              \/ /\ fn = "time" /\ frac = 0
                 /\ 0 = (sec + s + RoundSeconds(n)) * billion
  <2>1. A(0, 0, 0, 0)
    BY <1>1, <1>2, <1>3, <1>4, <1>5
  <2> HIDE DEF A
  <2>2. \E sec \in Int, frac \in Nat, s \in Int, n \in Int : A(sec, frac, s, n)
    BY <2>1
  <2>. QED
    BY <2>2 DEF A, Answers
<1>. QED
  BY <1>1, <1>6 DEF SeenInv, Inside

\* What a function is about to return is an answer to its call.
LEMMA ResultAnswers ==
  ASSUME ImageInv, TimeInv, SeenInv, Shifted,
         pc \in {"real", "round"} \/ (pc = "borrow" /\ ~TooSmall)
  PROVE  Answers(TimeOf(Result), atCall, loaded)
<1>1. /\ tv \in [sec : Int, frac : Int] /\ tv.sec \in Int /\ tv.frac \in Nat
      /\ sec_delta \in Int /\ nsec_delta \in Int
      /\ tv.frac * Unit < billion /\ tv.sec * billion + tv.frac * Unit <= atCall
      /\ atCall < tv.sec * billion + tv.frac * Unit + Gap
  BY DEF ImageInv, Types, TimeInv, StructInv, Inside, TimeOf
<1>2. pc # "real"
  BY DEF TimeInv, ShiftInv, SeenInv, Shifted
<1>3. sec_delta * billion + nsec_delta = loaded
  BY <1>2 DEF TimeInv, ShiftInv
<1>4. CASE pc = "round"
  <2>1. fn = "time" /\ tv.frac = 0
    BY <1>4 DEF TimeInv, ShiftInv, SeenInv, Inside
  <2>2. Result = [tv EXCEPT !.sec = @ + sec_delta + RoundSeconds(nsec_delta)]
    BY <1>4 DEF Result
  <2>3. Result.sec = tv.sec + sec_delta + RoundSeconds(nsec_delta) /\ Result.frac = 0
    BY <1>1, <2>1, <2>2
  <2>4. RoundSeconds(nsec_delta) \in Int /\ billion \in Nat /\ Unit \in Nat
    BY <1>1, NearestSecond, Second
  <2>5. Result.sec * billion \in Int /\ 0 * Unit = 0
    BY <1>1, <2>3, <2>4
  <2>6. TimeOf(Result) = (tv.sec + sec_delta + RoundSeconds(nsec_delta)) * billion
    BY <2>3, <2>5 DEF TimeOf
  <2>. QED
    BY <1>1, <1>3, <2>1, <2>6 DEF Answers
<1>5. CASE pc = "borrow" /\ ~TooSmall
  <2>1. /\ fn \in {"clock_gettime", "gettimeofday"}
        /\ nsec_delta + tv.frac * Unit <= billion
    BY <1>5 DEF TimeInv, ShiftInv
  <2>2. 0 <= nsec_delta + tv.frac * Unit
    <3>1. Unit \in Nat
      BY Second
    <3>2. tv.frac * Unit \in Int
      BY <1>1, <3>1
    <3>. QED
      BY <1>1, <1>5, <3>2 DEF TooSmall
  <2>3. TimeOf(Result) = (tv.sec + sec_delta) * billion
                           + (tv.frac + div_round_nearest(nsec_delta, Unit)) * Unit
    BY <1>5 DEF Result, TimeOf
  <2>. QED
    BY <1>1, <1>3, <2>1, <2>2, <2>3 DEF Answers
<1>. QED
  BY <1>2, <1>4, <1>5

\* A call that returns leaves an answer behind, and the clock only moves on.
LEMMA NextSeenInv == ImageInv /\ TimeInv /\ SeenInv /\ [Next]_vars => SeenInv'
<1> SUFFICES ASSUME ImageInv, TimeInv, SeenInv, [Next]_vars PROVE SeenInv'
  OBVIOUS
<1>1. /\ object \in Objects /\ real \in Nat
      /\ fn \in {"clock_gettime", "gettimeofday", "time"}
  BY VariableNames, RealAssumption DEF ImageInv, LayoutInv, Types, SeenInv
<1>2. object' = object
  BY DEF Next, Function, Load, LoadFakeImageFromEmbedFs, ReadText, AssetLD, SkipEntry, LoadDone,
     LoadVariable, Branch, Carry, CarryDone, Borrow, Return, Seen, Tick, AttachRefused, Call,
     AttachToProcess, vars, imageVars
<1>3. /\ fn' = fn /\ Unit' = Unit /\ Gap' = Gap
      /\ \A t, now, shift : Answers(t, now, shift)' <=> Answers(t, now, shift)
  BY <1>2 DEF fn, Unit, Gap, Answers
<1>4. ASSUME UNCHANGED seen, real' \in Nat, real <= real'
      PROVE  (\E now \in 0..real : Answers(seen.time, now, seen.shift))'
  <2>1. PICK now \in 0..real : Answers(seen.time, now, seen.shift)
    BY DEF SeenInv
  <2>2. now \in 0..real'
    BY <1>1, <1>4, <2>1
  <2>. QED
    BY <1>3, <1>4, <2>1, <2>2
<1>5. ASSUME UNCHANGED <<real, seen>> PROVE (\E now \in 0..real : Answers(seen.time, now, seen.shift))'
  BY <1>1, <1>4, <1>5
<1>6. ASSUME UNCHANGED <<pc, call, loaded, real, seen>> PROVE SeenInv'
  BY <1>3, <1>5, <1>6 DEF SeenInv, Shifted, Names, call, TimeOf
<1>7. CASE Load
  BY <1>6, <1>7 DEF Load, local, past
<1>8. ASSUME NEW k \in DOMAIN object.relocs, LoadVariable(k) PROVE SeenInv'
  BY <1>6, <1>8 DEF LoadVariable, past
<1>9. CASE Branch
  <2>1. read = DOMAIN object.relocs /\ pc = "load" /\ UNCHANGED <<call, real, seen>>
    BY <1>9 DEF Branch
  <2>2. fn = "clock_gettime" => clock_ids_mask = EncodeClkIds(ClockIds)
    <3>1. fn = "clock_gettime" => "CLOCK_IDS_MASK" \in Variables
      BY DEF Variables, VariablesOf
    <3>. QED
      BY <1>1, <2>1, <3>1, VariableNames DEF ImageInv, LoadInv
  <2>3. fn = "clock_gettime" /\ Names(clk_id) => Masked(clk_id)
    BY <2>2, NamedMasked
  <2>4. pc' = CASE fn = "clock_gettime" -> IF Masked(clk_id) THEN "carry" ELSE "real"
                [] fn = "gettimeofday"  -> "carry"
                [] fn = "time"          -> "round"
    BY <1>9 DEF Branch
  <2>5. pc' \in {"carry", "real", "round"} /\ (pc' = "real" => ~Names(clk_id))
    BY <1>1, <2>3, <2>4
  <2>. QED
    BY <1>3, <1>5, <2>1, <2>5 DEF SeenInv, Inside, Names, call
<1>10. CASE Carry \/ CarryDone \/ Borrow
  BY <1>3, <1>5, <1>10 DEF Carry, CarryDone, Borrow, SeenInv, Inside, call, local, past
<1>11. CASE Return
  <2>1. /\ pc' = "returned" /\ tv' = Result /\ UNCHANGED <<real, clk_id, atCall, loaded, seen>>
        /\ pc \in {"real", "round"} \/ (pc = "borrow" /\ ~TooSmall)
    BY <1>11 DEF Return, local, past
  <2>2. Shifted' = Shifted /\ TimeOf(tv)' = TimeOf(Result)
    BY <1>3, <2>1 DEF Shifted, Names, TimeOf
  <2>3. (pc = "returned" /\ Shifted => Answers(TimeOf(tv), atCall, loaded))'
    BY <1>3, <2>1, <2>2, ResultAnswers
  <2>. QED
    BY <1>5, <2>1, <2>3 DEF SeenInv, Inside
<1>12. CASE Seen
  <2>1. /\ pc = "returned" /\ pc' = "ready" /\ real' = real
        /\ seen' = IF Shifted THEN [time |-> TimeOf(tv), shift |-> loaded] ELSE seen
    BY <1>12 DEF Seen
  <2>2. CASE Shifted
    <3>1. Answers(TimeOf(tv), real, loaded)
      BY <2>1, <2>2 DEF SeenInv
    <3>2. seen'.time = TimeOf(tv) /\ seen'.shift = loaded /\ real \in 0..real'
      BY <1>1, <2>1, <2>2
    <3>. QED
      BY <1>3, <2>1, <3>1, <3>2 DEF SeenInv, Inside
  <2>3. CASE ~Shifted
    BY <1>5, <2>1, <2>3 DEF SeenInv, Inside
  <2>. QED
    BY <2>2, <2>3
<1>13. CASE Tick
  <2>1. pc = "ready" /\ pc' = "ready" /\ real' \in Nat /\ real <= real' /\ seen' = seen
    BY <1>1, <1>13 DEF Tick, past
  <2>. QED
    BY <1>4, <2>1 DEF SeenInv, Inside
<1>14. CASE AttachRefused
  BY <1>5, <1>14 DEF AttachRefused, SeenInv, Inside, past
<1>15. ASSUME NEW c \in Clks, Call(c) PROVE SeenInv'
  <2>1. /\ pc' = "load" /\ atCall' = real /\ UNCHANGED <<real, seen>>
        /\ tv' = [sec |-> real \div billion, frac |-> Fraction(fn)]
    BY <1>15 DEF Call
  <2>2. fn = "time" => tv'.frac = 0
    BY <2>1 DEF Fraction
  <2>. QED
    BY <1>3, <1>5, <2>1, <2>2 DEF SeenInv, Inside
<1>16. ASSUME NEW d \in Deltas, AttachToProcess(d) PROVE SeenInv'
  <2>1. /\ pc' = (IF pc = "unattached" THEN "ready" ELSE pc)
        /\ UNCHANGED <<call, loaded, real, seen>>
    BY <1>16 DEF AttachToProcess, local
  <2>2. CASE pc = "unattached"
    BY <1>5, <2>1, <2>2 DEF SeenInv, Inside
  <2>. QED
    BY <1>6, <2>1, <2>2
<1>17. CASE UNCHANGED vars
  BY <1>6, <1>17 DEF vars, local, past
<1>. QED
  BY <1>7, <1>8, <1>9, <1>10, <1>11, <1>12, <1>13, <1>14, <1>15, <1>16, <1>17 DEF Next, Function

\* With one shift no clock that is shifted ever goes back from one call to a later one, for
\* any length of a second, any shift and any settings in between, although each call may
\* round on another side of a second.
THEOREM Forward == Spec => []NeverBack
<1>1. ImageInv /\ TimeInv /\ SeenInv => NeverBack
  <2> SUFFICES ASSUME ImageInv, TimeInv, SeenInv, pc = "returned", Shifted, seen.shift = loaded
               PROVE  TimeOf(tv) >= seen.time
    BY DEF NeverBack
  <2>1. PICK now \in 0..real : Answers(seen.time, now, seen.shift)
    BY DEF SeenInv
  <2>2. Answers(TimeOf(tv), real, loaded)
    BY DEF SeenInv
  <2>3. /\ object \in Objects /\ real \in Nat /\ now \in Nat /\ now <= real
        /\ seen.time \in Int /\ loaded \in Int /\ tv.sec \in Int /\ tv.frac \in Int
    BY RealAssumption DEF ImageInv, LayoutInv, Types
  <2>4. TimeOf(tv) \in Int
    BY <2>3, Second DEF TimeOf
  <2>5. seen.time <= TimeOf(tv)
    BY <2>1, <2>2, <2>3, <2>4, AnswersForward
  <2>. QED
    BY <2>3, <2>4, <2>5
<1>2. Spec => []SeenInv
  BY InitSeenInv, NextSeenInv, TimeInvariance, PTL DEF Spec
<1>. QED
  BY <1>1, <1>2, TimeInvariance, PTL

(***************************************************************************)
(* The descent of a call                                                   *)
(***************************************************************************)

\* The parts of a call to come.
Stage ==
  CASE pc = "load" -> 4 [] pc = "carry" -> 3 [] pc = "borrow" -> 2
    [] pc \in {"real", "round"} -> 1 [] OTHER -> 0

ToLoad == DOMAIN object.relocs \ read

\* How far the fraction is beyond the second that the running loop puts it into.
Beyond ==
  CASE pc = "carry" /\ TooLarge -> nsec_delta + tv.frac * Unit
    [] pc = "borrow" /\ TooSmall -> -(nsec_delta + tv.frac * Unit)
    [] OTHER -> 0

Left == <<Stage, Cardinality(ToLoad), Beyond>>

\* Three numbers in lexicographic order.
Shorter == LexProductOrdering(OpToRel(<, Nat), Nat, 3)

Calling == pc \in Inside

\* Every step of a call leaves it less to do, and the injector gives it no more by
\* setting the variables again.
CallDescends == [][Calling => <<Left', Left>> \in Shorter]_<<pc, call, local>>

\* There is no endless descent in this order.
THEOREM ShorterIsWellFounded == IsWellFoundedOn(Shorter, [1..3 -> Nat])
  BY NatLessThanWellFounded, WFLexProductOrdering DEF Shorter

\* The first number that differs decides.
LEMMA FirstDecides ==
  ASSUME NEW new \in [1..3 -> Nat], NEW old \in [1..3 -> Nat], NEW j \in 1..3,
         new[j] < old[j], \A k \in 1..(j - 1) : new[k] = old[k]
  PROVE  <<new, old>> \in Shorter
<1> DEFINE Less == OpToRel(<, Nat)
<1>1. <<new[j], old[j]>> \in Less
  BY DEF OpToRel
<1> HIDE DEF Less
<1>. QED
  BY <1>1 DEF Shorter, LexProductOrdering, Less

\* The fraction that the loops look at.
Part == tv.frac * Unit
Fract == nsec_delta + Part

\* What is left is counted by three numbers.
Counted ==
  Left \in [1..3 -> Nat] /\ IsFiniteSet(ToLoad) /\ nsec_delta \in Int /\ Part \in Int

\* That is so as long as the variables have their types.
LEMMA LeftCounted ==
  ASSUME ImageInv
  PROVE  Counted
<1>1. object \in Objects /\ nsec_delta \in Int /\ tv.frac \in Int
  BY DEF ImageInv, LayoutInv, Types
<1>2. IsFiniteSet(ToLoad) /\ Cardinality(ToLoad) \in Nat
  <2>1. DOMAIN object.relocs = 1..Len(object.relocs) /\ Len(object.relocs) \in Nat
    BY <1>1, ObjectAssumption
  <2>2. IsFiniteSet(DOMAIN object.relocs)
    BY <2>1, FS_Interval
  <2>3. IsFiniteSet(ToLoad)
    BY <2>2, FS_Difference DEF ToLoad
  <2>. QED
    BY <2>3, FS_CardinalityType
<1>3. Part \in Int /\ Fract \in Int /\ billion \in Nat \ {0}
  <2>1. Unit \in Nat /\ billion \in Nat \ {0}
    BY <1>1, Second
  <2>2. tv.frac * Unit \in Int
    BY <1>1, <2>1
  <2>. QED
    BY <1>1, <2>1, <2>2 DEF Fract, Part
<1>4. Beyond \in Nat
  <2>1. Beyond = CASE pc = "carry" /\ Fract > billion -> Fract
                   [] pc = "borrow" /\ Fract < 0 -> -Fract
                   [] OTHER -> 0
    BY DEF Beyond, TooLarge, TooSmall, Fract, Part
  <2> HIDE DEF Fract
  <2>2. (Fract > billion => Fract \in Nat) /\ (Fract < 0 => -Fract \in Nat)
    BY <1>3
  <2>. QED
    BY <2>1, <2>2
<1> DEFINE l == Cardinality(ToLoad)
<1>5. Left = <<Stage, l, Beyond>> /\ Stage \in Nat /\ l \in Nat
  BY <1>2 DEF Left, Stage
<1> HIDE DEF l
<1>6. Left \in [1..3 -> Nat]
  BY <1>4, <1>5
<1>. QED
  BY <1>1, <1>2, <1>3, <1>6 DEF Counted

\* What a step leaves less of decides.
LEMMA LessLeft ==
  ASSUME Counted, Counted'
  PROVE  /\ Stage' < Stage => <<Left', Left>> \in Shorter
         /\ Stage' = Stage =>
              /\ \A k \in ToLoad : ToLoad' = ToLoad \ {k} => <<Left', Left>> \in Shorter
              /\ ToLoad' = ToLoad /\ Beyond' < Beyond => <<Left', Left>> \in Shorter
<1> DEFINE new == Left'
           old == Left
<1>1. new \in [1..3 -> Nat] /\ old \in [1..3 -> Nat]
  BY DEF Counted
<1>2. /\ new[1] = Stage' /\ old[1] = Stage
      /\ new[2] = Cardinality(ToLoad') /\ old[2] = Cardinality(ToLoad)
      /\ new[3] = Beyond' /\ old[3] = Beyond
  BY DEF Left
<1> HIDE DEF new, old
<1>3. ASSUME NEW j \in 1..3, new[j] < old[j], \A k \in 1..(j - 1) : new[k] = old[k]
      PROVE  <<new, old>> \in Shorter
  BY <1>1, <1>3, FirstDecides
<1>4. ASSUME Stage' < Stage PROVE <<new, old>> \in Shorter
  <2>1. new[1] < old[1] /\ \A k \in 1..(1 - 1) : new[k] = old[k]
    BY <1>2, <1>4
  <2>. QED
    BY <1>3, <2>1
<1>5. ASSUME Stage' = Stage, NEW k \in ToLoad, ToLoad' = ToLoad \ {k}
      PROVE  <<new, old>> \in Shorter
  <2>1. Cardinality(ToLoad') = Cardinality(ToLoad) - 1 /\ Cardinality(ToLoad) \in Nat
    BY <1>5, FS_RemoveElement, FS_CardinalityType DEF Counted
  <2>2. new[2] < old[2]
    BY <1>2, <2>1
  <2>3. \A n \in 1..(2 - 1) : new[n] = old[n]
    BY <1>2, <1>5
  <2>. QED
    BY <1>3, <2>2, <2>3
<1>6. ASSUME Stage' = Stage, ToLoad' = ToLoad, Beyond' < Beyond
      PROVE  <<new, old>> \in Shorter
  <2>1. new[1] = old[1] /\ new[2] = old[2]
    BY <1>2, <1>6
  <2>2. new[3] < old[3] /\ \A k \in 1..(3 - 1) : new[k] = old[k]
    BY <1>2, <1>6, <2>1
  <2>. QED
    BY <1>3, <2>2
<1>. QED
  BY <1>4, <1>5, <1>6 DEF new, old

\* Every step of a call goes down: a carry or a borrow by a second at least.
LEMMA CallStep ==
  ASSUME Counted, Counted', object \in Objects, [Next]_vars, Calling,
         ~UNCHANGED <<pc, call, local>>
  PROVE  <<Left', Left>> \in Shorter
<1> USE DEF Calling, Inside
<1>1. /\ billion \in Nat \ {0} /\ nsec_delta \in Int /\ Part \in Int /\ Fract \in Int
      /\ Fract' = nsec_delta' + Part'
  BY Second DEF Counted, Fract
<1>2. ASSUME NEW k \in DOMAIN object.relocs, LoadVariable(k) PROVE <<Left', Left>> \in Shorter
  <2>1. pc' = pc /\ object' = object /\ k \notin read /\ read' = read \cup {k}
    BY <1>2 DEF LoadVariable, imageVars
  <2>2. Stage' = Stage /\ k \in ToLoad /\ ToLoad' = ToLoad \ {k}
    BY <2>1 DEF Stage, ToLoad
  <2>. QED
    BY <2>2, LessLeft
<1>3. CASE Branch
  <2>1. pc = "load" /\ pc' \in {"carry", "real", "round"}
    BY <1>3, ExternAssumption DEF Branch, fn
  <2>2. Stage' < Stage
    BY <2>1 DEF Stage
  <2>. QED
    BY <2>2, LessLeft
<1>4. CASE Carry
  <2>1. /\ pc = "carry" /\ pc' = pc /\ UNCHANGED <<object, read, tv>>
        /\ nsec_delta' = nsec_delta - billion /\ Fract > billion
    BY <1>4 DEF Carry, Carried, TooLarge, Fract, Part, call, imageVars
  <2>2. Fract' = Fract - billion
    <3>1. Part' = Part
      BY <2>1 DEF Part, Unit, fn
    <3>2. Fract = nsec_delta + Part
      BY DEF Fract
    <3>. QED
      BY <1>1, <2>1, <3>1, <3>2
  <2>3. Beyond = Fract /\ Beyond' = (IF Fract' > billion THEN Fract' ELSE 0)
    BY <2>1 DEF Beyond, TooLarge, Fract, Part
  <2>4. Beyond' < Beyond
    BY <1>1, <2>1, <2>2, <2>3
  <2>5. Stage' = Stage /\ ToLoad' = ToLoad
    BY <2>1 DEF Stage, ToLoad
  <2>. QED
    BY <2>4, <2>5, LessLeft
<1>5. CASE CarryDone
  <2>1. Stage' < Stage
    BY <1>5 DEF CarryDone, Stage
  <2>. QED
    BY <2>1, LessLeft
<1>6. CASE Borrow
  <2>1. /\ pc = "borrow" /\ pc' = pc /\ UNCHANGED <<object, read, tv>>
        /\ nsec_delta' = nsec_delta + billion /\ Fract < 0
    BY <1>6 DEF Borrow, TooSmall, Fract, Part, call, imageVars
  <2>2. Fract' = Fract + billion
    <3>1. Part' = Part
      BY <2>1 DEF Part, Unit, fn
    <3>2. Fract = nsec_delta + Part
      BY DEF Fract
    <3>. QED
      BY <1>1, <2>1, <3>1, <3>2
  <2>3. Beyond = -Fract /\ Beyond' = (IF Fract' < 0 THEN -Fract' ELSE 0)
    BY <2>1 DEF Beyond, TooSmall, Fract, Part
  <2>4. Beyond' < Beyond
    BY <1>1, <2>1, <2>2, <2>3
  <2>5. Stage' = Stage /\ ToLoad' = ToLoad
    BY <2>1 DEF Stage, ToLoad
  <2>. QED
    BY <2>4, <2>5, LessLeft
<1>7. CASE Return
  <2>1. pc \in {"real", "round", "borrow"} /\ pc' = "returned"
    BY <1>7 DEF Return
  <2>2. Stage' < Stage
    BY <2>1 DEF Stage
  <2>. QED
    BY <2>2, LessLeft
<1>8. ~(Load \/ Seen \/ Tick \/ AttachRefused \/ UNCHANGED vars)
  BY DEF Load, Seen, Tick, AttachRefused, vars
<1>9. ASSUME NEW c \in Clks PROVE ~Call(c)
  BY DEF Call
<1>10. ASSUME NEW d \in Deltas PROVE ~AttachToProcess(d)
  BY DEF AttachToProcess
<1>. QED
  BY <1>2, <1>3, <1>4, <1>5, <1>6, <1>7, <1>8, <1>9, <1>10 DEF Next, Function

\* For any shift, any second, any order of the loads and any settings meanwhile, a call
\* goes through its loads and its loops in a well-founded order.
THEOREM CallAdvances == Spec => CallDescends
<1>1. ImageInv => Counted /\ object \in Objects
  BY LeftCounted DEF ImageInv, LayoutInv
<1>2. ImageInv /\ Counted /\ Counted' /\ object \in Objects /\ [Next]_vars
      => [Calling => <<Left', Left>> \in Shorter]_<<pc, call, local>>
  BY CallStep
<1>. QED
  BY <1>1, <1>2, ImageInvariance, PTL DEF Spec, CallDescends
=============================================================================
