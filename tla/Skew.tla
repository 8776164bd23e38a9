--------------------------------- MODULE Skew ---------------------------------
(***************************************************************************)
(* Inject and Recover of time_skew_linux.go: one Skew, which holds the     *)
(* three FakeImages of one process, used by several goroutines.  Inject    *)
(* and Recover lock the Skew; Merge changes the configuration without.     *)
(*                                                                         *)
(* An AttachToProcess or a Recover of a FakeImage is one step with the     *)
(* outcomes of ImageOutcome; between them the process runs.  It does not   *)
(* wreck the function: what happens then is the matter of FakeImage.  The  *)
(* mask of clocks, which goes to one image only, is left out.              *)
(***************************************************************************)
EXTENDS ImageOutcome, Sequences

CONSTANTS
  Arch,    \* GOARCH
  Caller,  \* goroutines
  Nobody   \* the owner of a free lock

ASSUME SkewAssumption ==
  /\ Arch \in {"amd64", "arm64"} /\ Nobody \notin Caller
  /\ Value \subseteq Nat

VARIABLES
  image,   \* state of every FakeImage and of its function
  config,  \* SkewConfig
  lock,    \* owner of the locker
  pc,      \* control of each goroutine
  op,      \* the method it has called
  todo,    \* the images it has still to go through
  want,    \* the variables read of config for the next of them
  unread,  \* the variables still to read
  err,     \* has an image returned an error?
  last,    \* the last call of Inject or Recover that is over, and its result
  failed,  \* the images that failed in it
  calm     \* has nothing interfered with it?

locals  == <<op, todo, want, unread, err>>
history == <<last, failed, calm>>
vars    == <<image, config, lock, pc, locals, history>>

\* time is nil on arm64.
InjectOrder ==
  IF Arch = "arm64" THEN <<"clock_gettime", "gettimeofday">>
                    ELSE <<"time", "clock_gettime", "gettimeofday">>
RecoverOrder == <<"clock_gettime", "gettimeofday">>
Symbol == {InjectOrder[i] : i \in DOMAIN InjectOrder}

NoCall == [op |-> "none", ok |-> FALSE]

Init ==
  /\ image = [f \in Symbol |-> Fresh(Kernel)]
  /\ config = Zero /\ lock = Nobody
  /\ pc = [c \in Caller |-> "idle"] /\ op = [c \in Caller |-> "inject"]
  /\ todo = [c \in Caller |-> <<>>] /\ want = [c \in Caller |-> Zero]
  /\ unread = [c \in Caller |-> {}] /\ err = [c \in Caller |-> FALSE]
  /\ last = NoCall /\ failed = {} /\ calm = FALSE

Go(c, to) == pc' = [pc EXCEPT ![c] = to]

(***************************************************************************)
(* The lock                                                                *)
(***************************************************************************)

Call(c, o) ==
  /\ pc[c] = "idle"
  /\ Go(c, "lock") /\ op' = [op EXCEPT ![c] = o]
  /\ UNCHANGED <<image, config, lock, todo, want, unread, err, history>>

\* Mutant of LockFree: Inject and Recover do not lock.
Unlocked == TRUE

LockFree == lock = Nobody

\* Did no FakeImage have to be attached again after it was undone?
Usable == \A f \in Symbol : image[f].entry => image[f].under # Nothing

Lock(c) ==
  /\ pc[c] = "lock" /\ LockFree
  /\ lock' = c
  /\ todo' = [todo EXCEPT ![c] = IF op[c] = "inject" THEN InjectOrder ELSE RecoverOrder]
  /\ unread' = [unread EXCEPT ![c] = Var]
  /\ err' = [err EXCEPT ![c] = FALSE]
  /\ Go(c, op[c])
  /\ last' = NoCall /\ failed' = {} /\ calm' = Usable
  /\ UNCHANGED <<image, config, op, want>>

Unlock(c) ==
  /\ pc[c] = "unlock"
  /\ lock' = Nobody
  /\ Go(c, "idle")
  /\ last' = [op |-> op[c], ok |-> ~err[c]]
  /\ want' = [want EXCEPT ![c] = Zero] /\ todo' = [todo EXCEPT ![c] = <<>>]
  /\ unread' = [unread EXCEPT ![c] = {}] /\ err' = [err EXCEPT ![c] = FALSE]
  /\ UNCHANGED <<image, config, op, failed, calm>>

(***************************************************************************)
(* Inject                                                                  *)
(***************************************************************************)

\* The map literal of the next image reads the fields of SkewConfig one by one.
ReadField(c, v) ==
  /\ pc[c] = "inject" /\ v \in unread[c]
  /\ want' = [want EXCEPT ![c][v] = config[v]]
  /\ unread' = [unread EXCEPT ![c] = @ \ {v}]
  /\ UNCHANGED <<image, config, lock, pc, op, todo, err, history>>

\* Mutant of Advance: gettimeofday is forgotten.
AdvanceTwice(c) ==
  /\ todo' = [todo EXCEPT ![c] = Tail(@)]
  /\ IF Len(todo[c]) <= 2 THEN Go(c, "unlock") ELSE UNCHANGED pc

\* On to the next image, or to the end of the method.
Advance(c) ==
  /\ todo' = [todo EXCEPT ![c] = Tail(@)]
  /\ IF Len(todo[c]) = 1 THEN Go(c, "unlock") ELSE UNCHANGED pc

Attach(c) ==
  /\ pc[c] = "inject" /\ unread[c] = {}
  /\ image' = [image EXCEPT ![Head(todo[c])] = AttachDone(@, want[c])]
  /\ unread' = [unread EXCEPT ![c] = Var]
  /\ Advance(c)
  /\ UNCHANGED <<config, lock, op, want, err, history>>

\* Mutant of ReturnError: the lock is kept.
ReturnLocked(c) == Go(c, "idle") /\ UNCHANGED todo

\* The later images are not reached, and the earlier ones stay attached.
ReturnError(c) == Go(c, "unlock") /\ UNCHANGED todo

AttachFails(c) ==
  /\ pc[c] = "inject" /\ unread[c] = {}
  /\ \E i \in AttachFailed(image[Head(todo[c])], want[c]) :
       image' = [image EXCEPT ![Head(todo[c])] = i]
  /\ err' = [err EXCEPT ![c] = TRUE]
  /\ failed' = failed \cup {Head(todo[c])}
  /\ ReturnError(c)
  /\ UNCHANGED <<config, lock, op, want, unread, last, calm>>

(***************************************************************************)
(* Recover                                                                 *)
(***************************************************************************)

Recover(c) ==
  /\ pc[c] = "recover"
  /\ image' = [image EXCEPT ![Head(todo[c])] = RecoverDone(@)]
  /\ Advance(c)
  /\ UNCHANGED <<config, lock, op, want, unread, err, history>>

\* Mutant of AfterRecoverError: gives up like Inject.
GiveUp(c) == ReturnError(c)

\* "We will continue recover another fake image and merge errors."
AfterRecoverError(c) == Advance(c)

RecoverFails(c) ==
  /\ pc[c] = "recover"
  /\ err' = [err EXCEPT ![c] = TRUE]
  /\ failed' = failed \cup {Head(todo[c])}
  /\ AfterRecoverError(c)
  /\ UNCHANGED <<image, config, lock, op, want, unread, last, calm>>

(***************************************************************************)
(* Merge, and the process                                                  *)
(***************************************************************************)

\* Adds to the fields of the configuration one by one, whoever holds the lock.
Merge(c) ==
  /\ pc[c] = "idle" /\ \A v \in Var : config[v] + 1 \in Value
  /\ Go(c, "merge") /\ unread' = [unread EXCEPT ![c] = Var]
  /\ UNCHANGED <<image, config, lock, op, todo, want, err, history>>

MergeField(c, v) ==
  /\ pc[c] = "merge" /\ v \in unread[c] /\ config[v] + 1 \in Value
  /\ config' = [config EXCEPT ![v] = @ + 1]
  /\ unread' = [unread EXCEPT ![c] = @ \ {v}]
  /\ calm' = FALSE
  /\ UNCHANGED <<image, lock, pc, op, todo, want, err, last, failed>>

Merged(c) ==
  /\ pc[c] = "merge" /\ \A v \in unread[c] : config[v] + 1 \notin Value
  /\ Go(c, "idle") /\ unread' = [unread EXCEPT ![c] = {}]
  /\ UNCHANGED <<image, config, lock, op, todo, want, err, history>>

\* The process runs between two operations on images, and may call exec.
Exec ==
  /\ image' = [f \in Symbol |-> Fresh(Kernel)]
  /\ calm' = FALSE
  /\ UNCHANGED <<config, lock, pc, locals, last, failed>>

(***************************************************************************)
(* Specification                                                           *)
(***************************************************************************)

Method(c) ==
  \/ Attach(c) \/ AttachFails(c) \/ Recover(c) \/ RecoverFails(c) \/ Unlock(c)
  \/ \E v \in Var : ReadField(c, v)

Next ==
  \/ \E c \in Caller :
       \/ Call(c, "inject") \/ Call(c, "recover") \/ Lock(c) \/ Method(c)
       \/ Merge(c) \/ Merged(c) \/ \E v \in Var : MergeField(c, v)
  \/ Exec

Spec == Init /\ [][Next]_vars

\* A goroutine that is not blocked goes on, and one that waits for a Mutex gets
\* it in the end: in its starvation mode the Mutex is handed to the waiter.
FairSpec == Spec /\ \A c \in Caller : WF_vars(Method(c)) /\ SF_vars(Lock(c))

(***************************************************************************)
(* Properties                                                              *)
(***************************************************************************)

\* Every variable keeps its type, and only the owner of the lock is inside Inject
\* or Recover.
TypeOK ==
  /\ image \in [Symbol -> Image] /\ config \in Settings
  /\ lock \in Caller \cup {Nobody}
  /\ pc \in [Caller -> {"idle", "lock", "inject", "recover", "unlock", "merge"}]
  /\ op \in [Caller -> {"inject", "recover"}]
  /\ todo \in [Caller -> Seq(Symbol)]
  /\ \A c \in Caller : Len(todo[c]) <= Len(InjectOrder)
  /\ want \in [Caller -> Settings] /\ unread \in [Caller -> SUBSET Var]
  /\ err \in [Caller -> BOOLEAN]
  /\ last \in [op : {"none", "inject", "recover"}, ok : BOOLEAN]
  /\ failed \subseteq Symbol /\ calm \in BOOLEAN
  /\ \A c \in Caller : pc[c] \in {"inject", "recover", "unlock"} => lock = c

\* When Inject has returned nil, all clocks of the process show the same shift,
\* the one of the configuration, whatever other goroutines called; unless Merge
\* or exec came between, or a FakeImage was attached again after it was undone.
InjectMeansAll ==
  last.op = "inject" /\ last.ok /\ calm =>
    \A f \in Symbol : image[f].view = Faked(config)

\* When Recover has returned, the kernel's clock_gettime and gettimeofday are
\* back, each one unless its own recovery failed, whatever Injects succeeded,
\* stopped half-way or were repeated before.
RecoverTriesBoth ==
  last.op = "recover" =>
    \A f \in {"clock_gettime", "gettimeofday"} \ failed : image[f].view = Kernel

\* Inject and Recover return, also after errors: the lock is never kept.
CallReturns == \A c \in Caller : pc[c] = "lock" ~> pc[c] = "idle"
=============================================================================
