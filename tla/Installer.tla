----------------------------- MODULE Installer ------------------------------
(***************************************************************************)
(* What an update promises, whichever way it comes and wherever power      *)
(* fails.  A slot holds a program, or none that is whole.  The program     *)
(* that runs may ask for an image to be installed; from then on no program *)
(* starts before the image is in the slot, whole, unless the one that      *)
(* asked withdraws it, or the slot is broken.  Only while none is asked    *)
(* for may the host exchange what is in the slot itself.                   *)
(***************************************************************************)
CONSTANTS
  Images,     \* images the host may send
  Factory     \* the first program

VARIABLES
  slot,       \* the program in the slot, if it is whole
  pending,    \* the image that is to be installed, if there is one
  running,    \* whether the program in the slot runs
  broken      \* whether writing to the slot has ever failed

vars == <<slot, pending, running, broken>>

One == {{i} : i \in Images}

Init == slot = {Factory} /\ pending = {} /\ ~running /\ ~broken

Start ==
  /\ ~running /\ pending = {} /\ slot # {}
  /\ running'
  /\ UNCHANGED <<slot, pending, broken>>

Stop ==
  /\ running /\ ~running'
  /\ UNCHANGED <<slot, pending, broken>>

Ask ==
  /\ running /\ pending = {}
  /\ pending' \in One
  /\ UNCHANGED <<slot, running, broken>>

Withdraw ==
  /\ running /\ pending' = {}
  /\ UNCHANGED <<slot, running, broken>>

\* A part of the image is written, or the last of it.
Install ==
  /\ ~running /\ pending # {}
  /\ slot' \in {{}, pending}
  /\ UNCHANGED <<pending, running, broken>>

Complete ==
  /\ ~running /\ (slot = pending \/ broken)
  /\ pending' = {}
  /\ UNCHANGED <<slot, running, broken>>

Exchange ==
  /\ ~running /\ pending = {}
  /\ slot' \in One \cup {{}}
  /\ UNCHANGED <<pending, running, broken>>

Break ==
  /\ ~running /\ broken'
  /\ UNCHANGED <<slot, pending, running>>

Next ==
  \/ Start \/ Stop \/ Ask \/ Withdraw \/ Install \/ Complete \/ Exchange \/ Break

Spec == Init /\ [][Next]_vars

=============================================================================
