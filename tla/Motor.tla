------------------------------- MODULE Motor -------------------------------
(***************************************************************************)
(* The motor of the car: moter_func of pwm_app.c, which the server's main  *)
(* thread calls for each command, and the driver pwm_dev.c under it, one   *)
(* gpio write at a time.                                                   *)
(*                                                                         *)
(* Pins 5 and 6 of port G are the two inputs of the drive motor's bridge,  *)
(* pins 4 and 7 those of the steering motor's.  They keep their levels     *)
(* when the device is closed and when the process dies.  A process does    *)
(* not die in the middle of an ioctl.                                      *)
(***************************************************************************)
EXTENDS Integers

Orders == {"FRONT", "BACK", "LEFT", "RIGHT", "STOP"}
Pins   == 4 .. 7

CONSTANT NoCommand
ASSUME NoCommandAssumption == NoCommand \notin Orders

VARIABLES at,       \* where moter_func is: "out", before the LEFTPWM, RIGHTPWM or
                    \* the order's own ioctl or in it, or before "close"
          order,    \* its argument
          step,     \* gpio writes done by the order's ioctl
          held,     \* PWM channels 2 and 3 are requested
          oops,     \* the driver went on with channels it was refused
          pin       \* levels of the output pins

vars == <<at, order, step, held, oops, pin>>

\* A command's ioctl writes the pins in the order 4, 7, 5, 6.
\* A faulty variant: the drive pins first, raising one before clearing the other.
Rank_DriveFirst(p) == CASE p = 5 -> 1 [] p = 4 -> 2 [] p = 7 -> 3 [] p = 6 -> 4
Rank(p) == CASE p = 4 -> 1 [] p = 7 -> 2 [] p = 5 -> 3 [] p = 6 -> 4

\* How many pins it writes: the turns leave the drive pins alone.
\* A faulty variant: FRONT leaves pin 6 alone.
Writes_FrontForgets6(c) == CASE c = "FRONT" -> 3
                             [] c \in {"BACK", "STOP"} -> 4
                             [] c \in {"LEFT", "RIGHT"} -> 2
Writes(c) == IF c \in {"LEFT", "RIGHT"} THEN 2 ELSE 4

\* The level it gives pin p.
\* A faulty variant: left and right the wrong way round.
Level_TurnsSwapped(c, p) ==
    IF <<c, p>> \in {<<"FRONT", 5>>, <<"BACK", 6>>, <<"LEFT", 7>>, <<"RIGHT", 4>>}
       THEN 1 ELSE 0
Level(c, p) ==
    IF \/ c = "FRONT" /\ p = 5
       \/ c = "BACK"  /\ p = 6
       \/ c = "LEFT"  /\ p = 4
       \/ c = "RIGHT" /\ p = 7
       THEN 1 ELSE 0

TypeOK == /\ at \in {"out", "leftpwm", "rightpwm", "order", "close"}
          /\ order \in Orders
          /\ step \in 0 .. Writes(order)
          /\ step > 0 => at = "order"
          /\ held \in BOOLEAN /\ oops \in BOOLEAN
          /\ pin \in [Pins -> {0, 1}]

\* After pwm_init; order has no meaning while moter_func is not running.
Init == /\ at = "out"
        /\ order = "STOP"
        /\ step = 0
        /\ held = FALSE
        /\ oops = FALSE
        /\ pin = [p \in Pins |-> 0]

\* moter_func(c) opens the device.  pwm_open requests both channels; its test
\* for NULL does not catch the ERR_PTR of a refused request.  STOP makes no
\* pulse ioctls.
Open(c) == /\ at = "out"
           /\ at' = IF c = "STOP" THEN "order" ELSE "leftpwm"
           /\ order' = c
           /\ oops' = (oops \/ held)
           /\ held' = TRUE
           /\ UNCHANGED <<step, pin>>

\* LEFTPWM, then RIGHTPWM.  copy_from_user is commented out: whatever pulses
\* moter_func passes, the driver configures its own zero ones.
Configure == /\ \/ at = "leftpwm"  /\ at' = "rightpwm"
                \/ at = "rightpwm" /\ at' = "order"
             /\ UNCHANGED <<order, step, held, oops, pin>>

\* A faulty variant: no break after the order's case, the next one (BACK's)
\* is run as well.
Write_NoBreak ==
    /\ at = "order"
    /\ step < 2 * Writes(order)
    /\ \E p \in Pins :
          /\ Rank(p) = (step % 4) + 1
          /\ pin' = [pin EXCEPT ![p] = Level(IF step < 4 THEN order ELSE "BACK", p)]
    /\ step' = step + 1
    /\ UNCHANGED <<at, order, held, oops>>
\* The next gpio_set_value of the order's ioctl.
Write == /\ at = "order"
         /\ step < Writes(order)
         /\ \E p \in Pins :
               /\ Rank(p) = step + 1
               /\ pin' = [pin EXCEPT ![p] = Level(order, p)]
         /\ step' = step + 1
         /\ UNCHANGED <<at, order, held, oops>>

\* After the last write both PWM outputs are enabled and the ioctl returns.
Enable == /\ at = "order"
          /\ step = Writes(order)
          /\ at' = "close"
          /\ step' = 0
          /\ UNCHANGED <<order, held, oops, pin>>

\* A faulty variant: the channels are not given back.
Close_Leaking == /\ at = "close"
                 /\ at' = "out"
                 /\ UNCHANGED <<order, step, held, oops, pin>>
\* close: pwm_release gives the channels back; the outputs run on.
Close == /\ at = "close"
         /\ at' = "out"
         /\ held' = FALSE
         /\ UNCHANGED <<order, step, oops, pin>>

\* The server's process ends between two ioctls (another thread calls exit,
\* or a signal kills it): the kernel closes the device.
Exit == /\ at # "out"
        /\ step = 0
        /\ at' = "out"
        /\ held' = FALSE
        /\ UNCHANGED <<order, step, oops, pin>>

Next == \/ \E c \in Orders : Open(c)
        \/ Configure \/ Write \/ Enable \/ Close \/ Exit

Spec == Init /\ [][Next]_vars

-----------------------------------------------------------------------------

\* The order's ioctl is between its first gpio write and its return.
InIoctl == step > 0

\* The level pin p will have when the ioctl in progress returns.
Settled(p) == IF InIoctl /\ step < Rank(p) /\ Rank(p) <= Writes(order)
                 THEN Level(order, p)
                 ELSE pin[p]

\* What a bridge does with the levels a and b at its inputs.
Bridge(a, b, rest, onA, onB) == CASE a = 0 /\ b = 0 -> rest
                                  [] a = 1 /\ b = 0 -> onA
                                  [] a = 0 /\ b = 1 -> onB
                                  [] OTHER -> "short"

Wanted == IF at \in {"leftpwm", "rightpwm", "order"} /\ ~InIoctl
             THEN order ELSE NoCommand
Drive  == Bridge(Settled(5), Settled(6), "off", "forward", "backward")
Steer  == Bridge(Settled(4), Settled(7), "straight", "left", "right")

C == INSTANCE Car WITH wanted <- Wanted, drive <- Drive, steer <- Steer

\* moter_func and pwm_ioctl carry out each command of the car whole or not at
\* all, in every order of commands and wherever the process dies.
DrivesTheCar == C!Spec

BothHigh(p, q) == pin[p] = 1 /\ pin[q] = 1

\* Between ioctls no bridge has both inputs high, whatever sequence of
\* commands and deaths led there.  Each command of pwm_ioctl writes only some
\* of the pins, so this rests on all the others.
HBridgeSettled == ~InIoctl => ~BothHigh(5, 6) /\ ~BothHigh(4, 7)

\* Inside an ioctl the inputs may overlap (FRONT after BACK, LEFT after RIGHT),
\* but the very next gpio write ends it.
OverlapIsBrief == [][/\ BothHigh(5, 6) => ~BothHigh(5, 6)'
                     /\ BothHigh(4, 7) => ~BothHigh(4, 7)']_vars

\* No open of the device finds the PWM channels still requested by an earlier
\* call or an earlier process.
ChannelsFree == ~oops
=============================================================================
