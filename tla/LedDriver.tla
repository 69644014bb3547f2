----------------------------- MODULE LedDriver -----------------------------
(***************************************************************************)
(* The direction lights: the driver led.c.  Any number of threads make its *)
(* ioctl at the same time (there is no lock, the kernel is preemptible),   *)
(* and a kernel timer toggles the light the flag selects.                  *)
(*                                                                         *)
(* Pin 12 of port G blinks for LEFT, pin 11 for RIGHT.  The timer runs in  *)
(* a softirq of a single processor: it may come between two steps of an    *)
(* ioctl, never the other way round.                                       *)
(***************************************************************************)
EXTENDS Integers

CONSTANT Threads    \* who makes ioctls

LeftCmd  == 5       \* LEFT and RIGHT of led.h; every other command is "off"
RightCmd == 6
OffCmd   == 1       \* what led_func passes for "off", and the flag it sets
Cmds     == {OffCmd, LeftCmd, RightCmd}
Pins     == {11, 12}

VARIABLES flag,     \* led_flag
          hilo,     \* led_high_low, shared by the two lights
          pin,      \* levels of the two pins
          todo      \* todo[t]: pins thread t's ioctl has still to clear

vars == <<flag, hilo, pin, todo>>

TypeOK == /\ flag \in {0} \cup Cmds
          /\ hilo \in {0, 1}
          /\ pin \in [Pins -> {0, 1}]
          /\ todo \in [Threads -> SUBSET Pins]

\* led_init: led_flag is 0 until the first ioctl, the timer runs at once.
Init == /\ flag = 0
        /\ hilo = 0
        /\ pin = [p \in Pins |-> 0]
        /\ todo = [t \in Threads |-> {}]

\* The light a flag makes the timer toggle.
Blinks(f, p) == (f = LeftCmd /\ p = 12) \/ (f = RightCmd /\ p = 11)

\* The pins led_ioctl clears once it has set the flag.
\* A faulty variant: "off" clears one light only.
Clears_OffForgets12(c) == {p \in Pins : IF c = OffCmd THEN p = 11 ELSE ~Blinks(c, p)}
\* A faulty variant: it clears the light it is about to use.
Clears_Own(c) == {p \in Pins : c = OffCmd \/ Blinks(c, p)}
Clears(c) == {p \in Pins : ~Blinks(c, p)}

\* led_ioctl(c) in thread t: the flag is set before the pins are cleared.
Ioctl(t, c) == /\ todo[t] = {}
               /\ flag' = c
               /\ todo' = [todo EXCEPT ![t] = Clears(c)]
               /\ UNCHANGED <<hilo, pin>>

\* Its next gpio_set_value: 11 before 12.
Clear(t) == /\ \E p \in todo[t] :
                  /\ p = 12 => 11 \notin todo[t]
                  /\ pin' = [pin EXCEPT ![p] = 0]
                  /\ todo' = [todo EXCEPT ![t] = @ \ {p}]
            /\ UNCHANGED <<flag, hilo>>

\* A faulty variant: led_high_low is counted up.
Timer_Counts == /\ IF \E p \in Pins : Blinks(flag, p)
                      THEN /\ hilo' = hilo + 1
                           /\ pin' = [p \in Pins |-> IF Blinks(flag, p) THEN hilo' ELSE pin[p]]
                      ELSE UNCHANGED <<hilo, pin>>
                /\ UNCHANGED <<flag, todo>>
\* A faulty variant: led_high_low is set but never reset.
Timer_StaysHigh == /\ IF \E p \in Pins : Blinks(flag, p)
                         THEN /\ hilo' = 1
                              /\ pin' = [p \in Pins |-> IF Blinks(flag, p) THEN 1 ELSE pin[p]]
                         ELSE UNCHANGED <<hilo, pin>>
                   /\ UNCHANGED <<flag, todo>>
\* kerneltimer_timeover, every second: it toggles the light and registers
\* itself again.
Timer == /\ IF \E p \in Pins : Blinks(flag, p)
               THEN /\ hilo' = 1 - hilo
                    /\ pin' = [p \in Pins |-> IF Blinks(flag, p) THEN hilo' ELSE pin[p]]
               ELSE UNCHANGED <<hilo, pin>>
         /\ UNCHANGED <<flag, todo>>

Next == \/ \E t \in Threads : Clear(t)
        \/ \E t \in Threads, c \in Cmds : Ioctl(t, c)
        \/ Timer

Spec == Init /\ [][Next]_vars

\* The kernel runs its timers, and a thread inside an ioctl goes on.
FairSpec == Spec /\ WF_vars(Timer) /\ (\A t \in Threads : WF_vars(Clear(t)))

-----------------------------------------------------------------------------

Quiet == \A t \in Threads : todo[t] = {}

\* However ioctls of several threads and the timer interleave: when no ioctl
\* is in progress, the only light that may be on is the one led_flag selects.
\* In particular never both.
LightsFollowFlag == Quiet => \A p \in Pins : pin[p] = 1 => Blinks(flag, p)

\* A light the flag leaves is dark in the end, and if no ioctl comes any
\* more, the one it selects goes on and off for ever.
StaleLightGoesOut == \A p \in Pins :
                        (pin[p] = 1 /\ ~Blinks(flag, p)) ~> (pin[p] = 0 \/ Blinks(flag, p))
BlinksOn == \A p \in Pins :
               <>[]Blinks(flag, p) => []<>(pin[p] = 1) /\ []<>(pin[p] = 0)
=============================================================================
