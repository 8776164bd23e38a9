----------------------------- MODULE MCRemoteCall -----------------------------
(***************************************************************************)
(* A small instance of RemoteCall for TLC: pages of 4 bytes, room for      *)
(* three mappings, images below, at and above the size of a page.          *)
(***************************************************************************)
EXTENDS RemoteCall

MCAddrs == {16, 32, 48}
MCSizes == {3, 4, 5}
=============================================================================
