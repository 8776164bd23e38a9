----------------------------- MODULE MCFakeClock -----------------------------
(***************************************************************************)
(* Small instances of FakeClock for TLC: a second of 12 nanoseconds, in    *)
(* microseconds of 4.  The object files have their variables in several    *)
(* orders, and texts that end anywhere.                                    *)
(***************************************************************************)
EXTENDS FakeClock

Rela(off, sym, addend) == [off |-> off, sym |-> sym, addend |-> addend]
Object(arch, function, size, relocs) ==
  [arch |-> arch, fn |-> function, size |-> size, relocs |-> relocs]

\* The offsets that asset_linux_amd64.go and asset_linux_arm64.go show.
ClockGettime ==
  {Object("amd64", "clock_gettime", 150, <<Rela(22, "CLOCK_IDS_MASK", -4),
     Rela(31, "TV_NSEC_DELTA", -4), Rela(42, "TV_SEC_DELTA", -4)>>),
   Object("arm64", "clock_gettime", 136, <<Rela(16, "CLOCK_IDS_MASK", 0),
     Rela(44, "TV_NSEC_DELTA", 0), Rela(52, "TV_SEC_DELTA", 0)>>)}
GetTimeOfDay ==
  {Object("amd64", "gettimeofday", 101, <<Rela(22, "TV_SEC_DELTA", -4),
     Rela(40, "none", -4), Rela(60, "TV_NSEC_DELTA", -5)>>),
   Object("arm64", "gettimeofday", 92, <<Rela(32, "TV_NSEC_DELTA", 0),
     Rela(24, "TV_SEC_DELTA", 0)>>)}
Time ==
  {Object("amd64", "time", 88, <<Rela(20, "TV_NSEC_DELTA", -4), Rela(71, "TV_SEC_DELTA", -8)>>)}
NotInlined ==
  {Object("amd64", "time", 99, <<Rela(5, "real_time", -4), Rela(20, "TV_NSEC_DELTA", -4),
     Rela(71, "TV_SEC_DELTA", -4)>>)}
MCObjects == ClockGettime \cup GetTimeOfDay \cup Time \cup NotInlined

\* The command sets everything in nanoseconds; a caller of the library may set seconds.
MCDeltas == {<<0, -20>>, <<0, 6>>, <<1, 13>>}
KernelClks == {0, 1, -2}
RealTime == {"CLOCK_REALTIME", "CLOCK_REALTIME_COARSE"}
=============================================================================
