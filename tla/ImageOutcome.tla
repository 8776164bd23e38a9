----------------------------- MODULE ImageOutcome -----------------------------
(***************************************************************************)
(* What can become of a function of the target when a FakeImage is         *)
(* attached to it or recovered.  ImageSwitch makes a specification of it,  *)
(* FakeImage implements that, and Skew builds on the outcomes.             *)
(***************************************************************************)
EXTENDS Naturals

CONSTANTS
  Var,    \* the extern variables of the image
  Value   \* what they are set to

ASSUME SettingAssumption == Var # {} /\ 0 \in Value

Settings == [Var -> Value]

\* What a call of the function runs: the code of the kernel, or an image with
\* its variables.
Zero == [v \in Var |-> 0]
Kernel == [kind |-> "kernel", vars |-> Zero]
Faked(w) == [kind |-> "image", vars |-> w]
Nothing == [kind |-> "none", vars |-> Zero]
Views == {Kernel} \cup {Faked(w) : w \in Settings}

\* view is what a call runs, under is what Recover brings back, and entry says
\* that an image of this FakeImage is mapped.
Image == [view : Views, under : Views \cup {Nothing}, entry : BOOLEAN]
Fresh(v) == [view |-> v, under |-> Nothing, entry |-> FALSE]

\* A function of which nothing is promised.
Wreck == Fresh(Nothing)

(***************************************************************************)
(* Outcomes                                                                *)
(***************************************************************************)

\* An image that is mapped but was undone gets the variables and no jump.
AttachDone(i, w) ==
  CASE ~i.entry -> [view |-> Faked(w), under |-> i.view, entry |-> TRUE]
    [] i.entry /\ i.under # Nothing -> [i EXCEPT !.view = Faked(w)]
    [] i.entry /\ i.under = Nothing -> i

\* The views when some of the variables are set and some are as they were.
Between(old, new) ==
  {Faked(s) : s \in {t \in Settings : \A v \in Var : t[v] \in {old[v], new[v]}}}

Halfway(i, w) ==
  CASE ~i.entry -> Between(Zero, w)
    [] i.entry /\ i.under # Nothing -> Between(i.view.vars, w)
    [] i.entry /\ i.under = Nothing -> {i.view}

\* A new image is undone, but stays mapped; of an old one some variables may
\* have been set.
AttachFailed(i, w) ==
  IF i.entry THEN {[i EXCEPT !.view = v] : v \in Halfway(i, w)}
             ELSE {[i EXCEPT !.entry = e] : e \in BOOLEAN}

RecoverDone(i) ==
  IF i.under = Nothing THEN i ELSE [i EXCEPT !.view = i.under, !.under = Nothing]
=============================================================================
