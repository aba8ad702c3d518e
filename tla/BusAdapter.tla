----------------------------- MODULE BusAdapter -----------------------------
(***************************************************************************)
(* What a BusAdapter (devprop/can_bus/adapter.py) promises the code that   *)
(* calls receive(), whatever carries the frames: they come out in the      *)
(* order they were sent, one at most for a call, none twice and none that  *)
(* was never sent; and a frame that is passed over is one that something   *)
(* happened to on its way.  SerialWrap and OcarinaReader implement it.     *)
(***************************************************************************)
EXTENDS Integers, Sequences

VARIABLES
  sent,     \* the frames sent so far; a later frame has a larger number
  damaged,  \* frames that something has happened to, or will have
  calling,  \* receive() has been called and has not returned
  got       \* the frames that have come out

vars == <<sent, damaged, calling, got>>

\* The adapter may be started in the middle of a frame.
Init ==
  /\ sent \subseteq Nat
  /\ sent \subseteq damaged
  /\ calling = FALSE
  /\ got = << >>

Newer(frame) == \A i \in DOMAIN got : got[i] < frame

Send ==
  /\ sent \subseteq sent' /\ sent' \subseteq Nat
  /\ \A old \in sent, new \in sent' \ sent : old < new
  /\ damaged \subseteq damaged'
  /\ UNCHANGED <<calling, got>>

Damage ==
  /\ damaged \subseteq damaged'
  /\ UNCHANGED <<sent, calling, got>>

Call ==
  /\ ~ calling
  /\ calling' = TRUE
  /\ UNCHANGED <<sent, damaged, got>>

\* A frame comes out; of those still to come, it is the first, but for
\* damaged ones.
Deliver(frame) ==
  /\ calling
  /\ Newer(frame)
  /\ \A other \in sent : Newer(other) /\ other < frame => other \in damaged
  /\ got' = Append(got, frame)
  /\ calling' = FALSE
  /\ UNCHANGED <<sent, damaged>>

\* TimeoutError, or any other exception.
Raise ==
  /\ calling
  /\ calling' = FALSE
  /\ UNCHANGED <<sent, damaged, got>>

Next ==
  \/ Send \/ Damage \/ Call \/ Raise
  \/ \E frame \in sent : Deliver(frame)

Spec == Init /\ [][Next]_vars

-----------------------------------------------------------------------------
(* What follows from it.                                                   *)

(* Frames come out in the order they were sent, each once, and only such   *)
(* as were sent.                                                           *)
InOrder ==
  /\ \A i \in DOMAIN got : got[i] \in sent
  /\ \A i, j \in DOMAIN got : i < j => got[i] < got[j]

(* When a frame has come out, so has every older one that was not damaged. *)
OnlyDamagedAreMissing ==
  \A frame \in sent \ damaged : ~ Newer(frame) =>
    \E i \in DOMAIN got : got[i] = frame
=============================================================================
