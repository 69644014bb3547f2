-------------------------- MODULE LedDriverProofs --------------------------
(***************************************************************************)
(* Proofs about LedDriver for every set of threads.                        *)
(***************************************************************************)
EXTENDS LedDriver, TLAPS

USE DEF Pins, Cmds, LeftCmd, RightCmd, OffCmd

LEMMA TypeInit == Init => TypeOK
  BY DEF Init, TypeOK

LEMMA TypeStep == TypeOK /\ [Next]_vars => TypeOK'
<1> SUFFICES ASSUME TypeOK, [Next]_vars
             PROVE  TypeOK'
  OBVIOUS
<1>1. ASSUME NEW t \in Threads, Clear(t)
      PROVE  TypeOK'
  BY <1>1 DEF TypeOK, Clear
<1>2. ASSUME NEW t \in Threads, NEW c \in Cmds, Ioctl(t, c)
      PROVE  TypeOK'
  BY <1>2 DEF TypeOK, Ioctl, Clears
<1>3. CASE Timer
  BY <1>3 DEF TypeOK, Timer
<1>4. CASE UNCHANGED vars
  BY <1>4 DEF TypeOK, vars
<1> QED
  BY <1>1, <1>2, <1>3, <1>4 DEF Next

\* led_flag, led_high_low and the pins keep their ranges under every
\* interleaving of led_ioctl and kerneltimer_timeover.
THEOREM TypeCorrect == Spec => []TypeOK
  BY TypeInit, TypeStep, PTL DEF Spec

\* A light that is on is selected by the flag, or some thread is in the
\* middle of an ioctl that will clear it.
LightsAccountedFor ==
  \A p \in Pins : pin[p] = 1 => Blinks(flag, p) \/ \E t \in Threads : p \in todo[t]

LEMMA AccountStep ==
  TypeOK /\ LightsAccountedFor /\ [Next]_vars => LightsAccountedFor'
<1> SUFFICES ASSUME TypeOK, LightsAccountedFor, [Next]_vars,
                    NEW p \in Pins, pin'[p] = 1
             PROVE  Blinks(flag', p) \/ \E t \in Threads : p \in todo'[t]
  BY DEF LightsAccountedFor
<1>1. ASSUME NEW t \in Threads, Clear(t)
      PROVE  Blinks(flag', p) \/ \E u \in Threads : p \in todo'[u]
  \* The pin just cleared is not p; every other pending clear is still there.
  <2>1. PICK q \in todo[t] : /\ pin' = [pin EXCEPT ![q] = 0]
                             /\ todo' = [todo EXCEPT ![t] = @ \ {q}]
    BY <1>1 DEF Clear
  <2>2. q # p /\ pin[p] = 1 /\ flag' = flag
    BY <1>1, <2>1 DEF TypeOK, Clear
  <2>3. ASSUME NEW u \in Threads, p \in todo[u]
        PROVE  p \in todo'[u]
    BY <2>1, <2>2, <2>3 DEF TypeOK
  <2> QED
    BY <2>2, <2>3 DEF LightsAccountedFor
<1>2. ASSUME NEW t \in Threads, NEW c \in Cmds, Ioctl(t, c)
      PROVE  Blinks(flag', p) \/ \E u \in Threads : p \in todo'[u]
  \* What the new flag does not select, this very ioctl will clear.
  BY <1>2 DEF TypeOK, Ioctl, Clears
<1>3. CASE Timer
  \* The timer raises no other light than the one the flag selects.
  BY <1>3 DEF TypeOK, Timer, LightsAccountedFor
<1>4. CASE UNCHANGED vars
  BY <1>4 DEF vars, LightsAccountedFor
<1> QED
  BY <1>1, <1>2, <1>3, <1>4 DEF Next

\* Whatever the number of threads in led_ioctl and wherever the timer comes in
\* between: with no ioctl in progress only the light of led_flag may be on.
THEOREM LightsFollow == Spec => []LightsFollowFlag
<1>1. Init => LightsAccountedFor
  BY DEF Init, LightsAccountedFor
<1>2. LightsAccountedFor => LightsFollowFlag
  BY DEF LightsAccountedFor, LightsFollowFlag, Quiet
<1> QED
  BY <1>1, <1>2, TypeInit, TypeStep, AccountStep, PTL DEF Spec
=============================================================================
