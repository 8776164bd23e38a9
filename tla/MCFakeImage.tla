----------------------------- MODULE MCFakeImage -----------------------------
(***************************************************************************)
(* Small instances of FakeImage for TLC: room for two images, two places   *)
(* for the vDSO, two variables with two values.                            *)
(***************************************************************************)
EXTENDS FakeImage

MCAddr == {16, 32}
OneBase == {1}
TwoBases == {1, 2}
MCVar == {"TV_SEC_DELTA", "TV_NSEC_DELTA"}
MCValue == {0, 1}
LookupFails == {"locate"}
AllFailPoints == {"trace", "mmap", "locate", "jump", "setvar"}
=============================================================================
