----------------------------- MODULE ImageSwitch -----------------------------
(***************************************************************************)
(* What one FakeImage promises to its caller about one function of one     *)
(* process: AttachToProcess and Recover take effect in one step, or leave  *)
(* the function as it was.  An operation whose writes are cut off, or that *)
(* writes back what does not belong there, wrecks the function; of a wreck *)
(* nothing is promised until exec.                                         *)
(***************************************************************************)
EXTENDS ImageOutcome

VARIABLES
  image,  \* the function and what the FakeImage knows of it
  op,     \* the operation under way
  want,   \* parameter of AttachToProcess
  ret     \* result of the last operation, if nothing happened since

switchVars == <<image, op, want, ret>>

Init ==
  /\ image = Fresh(Kernel)
  /\ op = "none" /\ want \in Settings /\ ret = "none"

(***************************************************************************)
(* The operations                                                          *)
(***************************************************************************)

AttachToProcess(w) ==
  /\ op = "none"
  /\ op' = "attach" /\ want' = w /\ ret' = "none"
  /\ UNCHANGED image

Recover ==
  /\ op = "none"
  /\ op' = "recover" /\ ret' = "none"
  /\ UNCHANGED <<image, want>>

Done ==
  /\ image # Wreck
  /\ \/ op = "attach" /\ image' = AttachDone(image, want)
     \/ op = "recover" /\ image' = RecoverDone(image)
  /\ op' = "none" /\ ret' = "ok"
  /\ UNCHANGED want

Failed ==
  /\ image # Wreck
  /\ \/ op = "attach" /\ image' \in AttachFailed(image, want)
     \/ op = "recover" /\ UNCHANGED image
  /\ op' = "none" /\ ret' = "error"
  /\ UNCHANGED want

\* exec gives the process a new function and no images.
Exec ==
  /\ op = "none"
  /\ image' = Fresh(Kernel) /\ ret' = "none"
  /\ UNCHANGED <<op, want>>

\* Another FakeImage takes over what this one leaves.
NewFakeImage ==
  /\ op = "none"
  /\ image' = IF image = Wreck THEN Wreck ELSE Fresh(image.view)
  /\ ret' = "none"
  /\ UNCHANGED <<op, want>>

\* The injector dies: what it did so far stays, and nobody can undo it.
Crash ==
  /\ image # Wreck
  /\ \E v \in Views :
       /\ \/ op # "none" /\ v = image.view
          \/ op = "attach" /\ v \in Halfway(image, want)
          \/ op = "recover" /\ v = RecoverDone(image).view
       /\ image' = Fresh(v)
  /\ op' = "none" /\ ret' = "none"
  /\ UNCHANGED want

\* An operation wrecks the function, or ends on a wreck; it may return anything.
Wrecks ==
  /\ op # "none"
  /\ image' = Wreck
  /\ \/ UNCHANGED <<op, ret>>
     \/ op' = "none" /\ ret' \in {"none", "ok", "error"}
  /\ UNCHANGED want

Next ==
  \/ Wrecks \/ Recover \/ Done \/ Failed \/ Exec \/ NewFakeImage \/ Crash
  \/ \E w \in Settings : AttachToProcess(w)

Spec == Init /\ [][Next]_switchVars
=============================================================================
