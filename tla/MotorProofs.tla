---------------------------- MODULE MotorProofs ----------------------------
(***************************************************************************)
(* Proofs about Motor: every sequence of commands, of any length, with the *)
(* process dying between any two ioctls.                                   *)
(***************************************************************************)
EXTENDS Motor, TLAPS

\* The pin the ioctl writes after n others: 4, 7, 5, 6.
LEMMA RankOfPins == /\ \A p \in Pins : Rank(p) \in 1 .. 4
                    /\ \A p \in Pins : Rank(p) = 1 <=> p = 4
                    /\ \A p \in Pins : Rank(p) = 2 <=> p = 7
                    /\ \A p \in Pins : Rank(p) = 3 <=> p = 5
                    /\ \A p \in Pins : Rank(p) = 4 <=> p = 6
  BY DEF Pins, Rank

-----------------------------------------------------------------------------
(* Type correctness. *)

LEMMA TypeInit == Init => TypeOK
<1> SUFFICES ASSUME Init PROVE TypeOK
  OBVIOUS
<1>1. step \in 0 .. Writes(order) /\ order \in Orders
  BY DEF Init, Writes, Orders
<1>2. pin \in [Pins -> {0, 1}]
  BY DEF Init
<1>3. held \in BOOLEAN /\ oops \in BOOLEAN
  BY DEF Init
<1>4. at \in {"out", "leftpwm", "rightpwm", "order", "close"}
      /\ (step > 0 => at = "order")
  BY DEF Init
<1> QED
  BY <1>1, <1>2, <1>3, <1>4 DEF TypeOK

LEMMA TypeStep == TypeOK /\ [Next]_vars => TypeOK'
<1> SUFFICES ASSUME TypeOK, [Next]_vars
             PROVE  TypeOK'
  OBVIOUS
<1>1. ASSUME NEW c \in Orders, Open(c)
      PROVE  TypeOK'
  BY <1>1 DEF TypeOK, Open, Writes
<1>2. CASE Configure
  <2>1. step' \in 0 .. Writes(order') /\ order' \in Orders
    BY <1>2 DEF TypeOK, Configure
  <2> QED
    BY <1>2, <2>1 DEF TypeOK, Configure
<1>3. CASE Write
  <2>1. step' \in 0 .. Writes(order')
    BY <1>3 DEF TypeOK, Write, Writes
  <2>2. pin' \in [Pins -> {0, 1}]
    BY <1>3 DEF TypeOK, Write, Level
  <2> QED
    BY <1>3, <2>1, <2>2 DEF TypeOK, Write
<1>4. CASE Enable
  BY <1>4 DEF TypeOK, Enable, Writes
<1>5. CASE Close
  <2>1. step' \in 0 .. Writes(order') /\ order' \in Orders
    BY <1>5 DEF TypeOK, Close
  <2> QED
    BY <1>5, <2>1 DEF TypeOK, Close
<1>6. CASE Exit
  <2>1. step' \in 0 .. Writes(order') /\ order' \in Orders
    BY <1>6 DEF TypeOK, Exit
  <2>2. at' = "out" /\ ~(step' > 0)
    BY <1>6 DEF Exit
  <2>3. held' \in BOOLEAN /\ oops' \in BOOLEAN
    BY <1>6 DEF TypeOK, Exit
  <2>4. pin' \in [Pins -> {0, 1}]
    BY <1>6 DEF TypeOK, Exit
  <2> QED
    BY <2>1, <2>2, <2>3, <2>4 DEF TypeOK
<1>7. CASE UNCHANGED vars
  <2>1. step' \in 0 .. Writes(order') /\ order' \in Orders
    BY <1>7 DEF TypeOK, vars
  <2> QED
    BY <1>7, <2>1 DEF TypeOK, vars
<1> QED
  BY <1>1, <1>2, <1>3, <1>4, <1>5, <1>6, <1>7 DEF Next

\* The pins and the position in moter_func keep their ranges; no
\* ioctl writes more pins than its case lists.
THEOREM TypeCorrect == Spec => []TypeOK
  BY TypeInit, TypeStep, PTL DEF Spec

-----------------------------------------------------------------------------
(* The bridges. *)

\* The pins the ioctl in progress has written have its levels; both inputs of
\* a bridge are high only where FRONT has raised 5 and not yet cleared 6, or
\* LEFT has raised 4 and not yet cleared 7.
BridgeInv ==
  /\ InIoctl => \A p \in Pins : Rank(p) <= step => pin[p] = Level(order, p)
  /\ BothHigh(5, 6) => order = "FRONT" /\ step = 3
  /\ BothHigh(4, 7) => order = "LEFT" /\ step = 1

LEMMA BridgeStep == TypeOK /\ BridgeInv /\ [Next]_vars => BridgeInv'
<1> SUFFICES ASSUME TypeOK, BridgeInv, [Next]_vars
             PROVE  BridgeInv'
  OBVIOUS
<1>1. CASE Write
  <2>1. PICK q \in Pins : /\ Rank(q) = step + 1
                          /\ pin' = [pin EXCEPT ![q] = Level(order, q)]
    BY <1>1 DEF Write
  <2>2. step' = step + 1 /\ order' = order /\ step \in Nat /\ step < Writes(order)
    BY <1>1 DEF Write, TypeOK, Writes
  <2>3. \A p \in Pins : pin'[p] = IF p = q THEN Level(order, q) ELSE pin[p]
    BY <2>1 DEF TypeOK
  <2>4. \A p \in Pins : Rank(p) <= step' => pin'[p] = Level(order, p)
    BY <2>1, <2>2, <2>3, RankOfPins DEF BridgeInv, InIoctl
  <2>5. BothHigh(5, 6)' => order = "FRONT" /\ step' = 3
    <3>1. 5 \in Pins /\ 6 \in Pins
      BY DEF Pins
    <3>2. CASE q \in {4, 7}
      \* The drive pins are as they were when the ioctl began.
      BY <2>1, <2>2, <2>3, <3>1, <3>2, RankOfPins DEF BridgeInv, BothHigh
    <3>3. CASE q = 5
      BY <2>1, <2>2, <2>3, <3>1, <3>3, RankOfPins
         DEF BridgeInv, BothHigh, Level, Writes, TypeOK, Orders
    <3>4. CASE q = 6
      BY <2>1, <2>2, <2>4, <3>1, <3>4, RankOfPins DEF BothHigh, Level
    <3> QED
      BY <3>2, <3>3, <3>4 DEF Pins
  <2>6. BothHigh(4, 7)' => order = "LEFT" /\ step' = 1
    <3>1. 4 \in Pins /\ 7 \in Pins
      BY DEF Pins
    <3>2. CASE q = 4
      BY <2>1, <2>2, <2>3, <3>1, <3>2, RankOfPins
         DEF BridgeInv, BothHigh, Level, TypeOK, Orders
    <3>3. CASE q \in {7, 5, 6}
      BY <2>1, <2>2, <2>4, <3>1, <3>3, RankOfPins DEF BothHigh, Level
    <3> QED
      BY <3>2, <3>3 DEF Pins
  <2> QED
    BY <2>2, <2>4, <2>5, <2>6 DEF BridgeInv
<1>2. CASE Enable
  <2>1. step \notin {1, 3}
    BY <1>2 DEF Enable, Writes
  <2> QED
    BY <1>2, <2>1 DEF Enable, BridgeInv, BothHigh, InIoctl
<1>3. ASSUME NEW c \in Orders, Open(c)
      PROVE  BridgeInv'
  BY <1>3 DEF Open, TypeOK, BridgeInv, BothHigh, InIoctl
<1>4. CASE Configure \/ Close \/ Exit \/ UNCHANGED vars
  BY <1>4 DEF Configure, Close, Exit, vars, BridgeInv, BothHigh, InIoctl
<1> QED
  BY <1>1, <1>2, <1>3, <1>4 DEF Next

LEMMA BridgeInit == Init => BridgeInv
  BY DEF Init, BridgeInv, InIoctl, BothHigh, Pins

\* Between ioctls pwm_ioctl leaves neither motor's bridge with both inputs
\* high, whatever commands and deaths came before.
THEOREM BridgesSettle == Spec => []HBridgeSettled
<1>1. TypeOK /\ BridgeInv => HBridgeSettled
  BY DEF TypeOK, BridgeInv, HBridgeSettled, InIoctl, BothHigh
<1> QED
  BY <1>1, TypeInit, TypeStep, BridgeInit, BridgeStep, PTL DEF Spec

\* The overlap of FRONT after BACK and of LEFT after RIGHT is over with the
\* next gpio write.
THEOREM OverlapsAreBrief == Spec => OverlapIsBrief
<1>1. TypeOK /\ BridgeInv /\ [Next]_vars /\ BothHigh(5, 6) /\ vars' # vars
         => ~BothHigh(5, 6)'
  <2> SUFFICES ASSUME TypeOK, BridgeInv, [Next]_vars, BothHigh(5, 6), vars' # vars
               PROVE  ~BothHigh(5, 6)'
    OBVIOUS
  <2>1. order = "FRONT" /\ step = 3 /\ at = "order"
    BY DEF BridgeInv, TypeOK
  <2>2. Write
    BY <2>1 DEF Next, Open, Configure, Enable, Close, Exit, Writes
  <2>3. step' = 4 /\ order' = order
    BY <2>1, <2>2 DEF Write
  <2> QED
    BY <2>3, BridgeStep DEF BridgeInv
<1>2. TypeOK /\ BridgeInv /\ [Next]_vars /\ BothHigh(4, 7) /\ vars' # vars
         => ~BothHigh(4, 7)'
  <2> SUFFICES ASSUME TypeOK, BridgeInv, [Next]_vars, BothHigh(4, 7), vars' # vars
               PROVE  ~BothHigh(4, 7)'
    OBVIOUS
  <2>1. order = "LEFT" /\ step = 1 /\ at = "order"
    BY DEF BridgeInv, TypeOK
  <2>2. Write
    BY <2>1 DEF Next, Open, Configure, Enable, Close, Exit, Writes
  <2>3. step' = 2 /\ order' = order
    BY <2>1, <2>2 DEF Write
  <2> QED
    BY <2>3, BridgeStep DEF BridgeInv
<1>3. TypeOK /\ BridgeInv /\ [Next]_vars
         => [/\ BothHigh(5, 6) => ~BothHigh(5, 6)'
             /\ BothHigh(4, 7) => ~BothHigh(4, 7)']_vars
  BY <1>1, <1>2
<1> QED
  BY <1>3, TypeInit, TypeStep, BridgeInit, BridgeStep, PTL
     DEF Spec, OverlapIsBrief

-----------------------------------------------------------------------------
(* The PWM channels. *)

\* The channels are requested exactly while moter_func has the device open.
ChannelInv == /\ held <=> at # "out"
              /\ ~oops

LEMMA ChannelStep == TypeOK /\ ChannelInv /\ [Next]_vars => ChannelInv'
  BY DEF TypeOK, ChannelInv, Next, Open, Configure, Write, Enable, Close, Exit, vars

\* pwm_open never goes on with channels pwm_request refused, although its test
\* would not notice: every way out of moter_func gives the channels back.
THEOREM ChannelsAreFree == Spec => []ChannelsFree
<1>1. Init => ChannelInv
  BY DEF Init, ChannelInv
<1>2. ChannelInv => ChannelsFree
  BY DEF ChannelInv, ChannelsFree
<1> QED
  BY <1>1, <1>2, TypeInit, TypeStep, ChannelStep, PTL DEF Spec

-----------------------------------------------------------------------------
(* The refinement of Car. *)

\* The first write of an order's ioctl decides what the pins will be when it
\* returns: the pins it writes get its levels, the others stay.
LEMMA FirstWriteDecides ==
  ASSUME TypeOK, Write, step = 0
  PROVE  /\ ~InIoctl /\ InIoctl'
         /\ \A p \in Pins : /\ Settled(p) = pin[p]
                            /\ Settled(p)' = IF Rank(p) <= Writes(order)
                                             THEN Level(order, p) ELSE pin[p]
<1>1. PICK q \in Pins : /\ Rank(q) = step + 1
                        /\ pin' = [pin EXCEPT ![q] = Level(order, q)]
  BY DEF Write
<1>2. step' = 1 /\ order' = order /\ Writes(order) \in {2, 4}
  BY DEF Write, Writes
<1>3. \A p \in Pins : Rank(p) \in 1 .. 4 /\ (Rank(p) = 1 <=> p = q)
  BY <1>1, RankOfPins
<1>4. \A p \in Pins : pin'[p] = IF p = q THEN Level(order, q) ELSE pin[p]
  BY <1>1 DEF TypeOK
<1>5. ~InIoctl /\ InIoctl'
  BY <1>2 DEF InIoctl
<1>6. ASSUME NEW p \in Pins
      PROVE  Settled(p)' = IF Rank(p) <= Writes(order)
                              THEN Level(order, p) ELSE pin[p]
  <2>1. Settled(p)' = IF 1 < Rank(p) /\ Rank(p) <= Writes(order)
                         THEN Level(order, p) ELSE pin'[p]
    BY <1>2, <1>5 DEF Settled
  <2> QED
    BY <2>1, <1>2, <1>3, <1>4
<1> QED
  BY <1>5, <1>6 DEF Settled

\* The later writes only bring the pins there.
LEMMA LaterWritesKeep ==
  ASSUME TypeOK, Write, step > 0
  PROVE  /\ InIoctl /\ InIoctl'
         /\ \A p \in Pins : Settled(p)' = Settled(p)
<1>1. PICK q \in Pins : /\ Rank(q) = step + 1
                        /\ pin' = [pin EXCEPT ![q] = Level(order, q)]
  BY DEF Write
<1>2. step' = step + 1 /\ order' = order /\ step \in Nat /\ step < Writes(order)
  BY DEF Write, Writes, TypeOK
<1>3. \A p \in Pins : Rank(p) \in 1 .. 4 /\ (Rank(p) = step + 1 <=> p = q)
  BY <1>1, <1>2, RankOfPins
<1>4. \A p \in Pins : pin'[p] = IF p = q THEN Level(order, q) ELSE pin[p]
  BY <1>1 DEF TypeOK
<1>5. InIoctl /\ InIoctl'
  BY <1>2 DEF InIoctl
<1>6. ASSUME NEW p \in Pins
      PROVE  Settled(p)' = Settled(p)
  <2>1. Settled(p)' = IF step + 1 < Rank(p) /\ Rank(p) <= Writes(order)
                         THEN Level(order, p) ELSE pin'[p]
    BY <1>2, <1>5 DEF Settled
  <2>2. Settled(p) = IF step < Rank(p) /\ Rank(p) <= Writes(order)
                        THEN Level(order, p) ELSE pin[p]
    BY <1>5 DEF Settled
  <2>3. Writes(order) \in {2, 4}
    BY DEF Writes
  <2> QED
    BY <2>1, <2>2, <2>3, <1>2, <1>3, <1>4
<1> QED
  BY <1>5, <1>6

\* A step that moves no pin, inside or outside an ioctl, with nothing left to
\* write in it, leaves the car as it is.
LEMMA NoWriteKeeps ==
  ASSUME TypeOK, pin' = pin, step' = 0, step = 0 \/ step = Writes(order)
  PROVE  Drive' = Drive /\ Steer' = Steer
<1>1. \A p \in Pins : Settled(p) = pin[p] /\ Settled(p)' = pin[p]
  BY RankOfPins DEF Settled, InIoctl, Writes
<1> QED
  BY <1>1 DEF Drive, Steer, Bridge, Pins

\* Seen as a car: the first write of FRONT, BACK and STOP is Go, ...
LEMMA WriteGoes ==
  ASSUME TypeOK, Write, step = 0, order \in {"FRONT", "BACK", "STOP"}
  PROVE  C!Go
<1>1. \A p \in Pins : Settled(p)' = Level(order, p)
  BY FirstWriteDecides, RankOfPins DEF Writes
<1>2. Wanted = order /\ Wanted' = NoCommand
  BY FirstWriteDecides DEF Wanted, Write
<1>3. order' = order
  BY DEF Write
<1>4. Steer' = "straight"
  BY <1>1 DEF Steer, Bridge, Level, Pins
<1>5. Drive' = CASE order = "FRONT" -> "forward"
                 [] order = "BACK"  -> "backward"
                 [] order = "STOP"  -> "off"
  BY <1>1 DEF Drive, Bridge, Level, Pins
<1> QED
  BY <1>2, <1>4, <1>5 DEF C!Go

\* ... that of LEFT and RIGHT is Turn.
LEMMA WriteTurns ==
  ASSUME TypeOK, Write, step = 0, order \in {"LEFT", "RIGHT"}
  PROVE  C!Turn
<1>1. /\ Settled(4)' = Level(order, 4) /\ Settled(7)' = Level(order, 7)
      /\ Settled(5)' = Settled(5) /\ Settled(6)' = Settled(6)
  <2>1. Writes(order) = 2
    BY DEF Writes
  <2>2. /\ 4 \in Pins /\ 5 \in Pins /\ 6 \in Pins /\ 7 \in Pins
        /\ Rank(4) = 1 /\ Rank(7) = 2 /\ Rank(5) = 3 /\ Rank(6) = 4
    BY DEF Pins, Rank
  <2> QED
    BY <2>1, <2>2, FirstWriteDecides
<1>2. Wanted = order /\ Wanted' = NoCommand
  BY FirstWriteDecides DEF Wanted, Write
<1>3. Drive' = Drive
  BY <1>1 DEF Drive, Bridge
<1>4. Steer' = IF order = "LEFT" THEN "left" ELSE "right"
  BY <1>1 DEF Steer, Bridge, Level
<1> QED
  BY <1>2, <1>3, <1>4 DEF C!Turn

LEMMA CarInit == Init => C!Init
  BY RankOfPins DEF Init, C!Init, Wanted, Drive, Steer, Bridge, Settled, InIoctl, Pins

\* Every step of the motor is a step of the car, or none.
LEMMA CarStep == TypeOK /\ [Next]_vars => [C!Next]_(C!vars)
<1> SUFFICES ASSUME TypeOK, [Next]_vars
             PROVE  C!Next \/ UNCHANGED C!vars
  OBVIOUS
<1>1. ASSUME NEW c \in Orders, Open(c)
      PROVE  C!Next
  <2>1. step = 0 /\ step' = 0 /\ pin' = pin
    BY <1>1 DEF Open, TypeOK
  <2>2. Wanted = NoCommand /\ Wanted' = c
    BY <1>1, <2>1 DEF Open, Wanted, InIoctl
  <2>3. C!Ask(c)
    BY <2>1, <2>2, NoWriteKeeps DEF C!Ask
  <2>4. c \in C!Orders
    BY DEF Orders, C!Orders
  <2> QED
    BY <2>3, <2>4 DEF C!Next
<1>2. CASE Configure
  <2>1. step = 0 /\ step' = 0 /\ pin' = pin /\ Wanted' = Wanted
    BY <1>2 DEF Configure, TypeOK, Wanted, InIoctl
  <2> QED
    BY <2>1, NoWriteKeeps DEF C!vars
<1>3. CASE Write /\ step = 0
  BY <1>3, WriteGoes, WriteTurns DEF C!Next, TypeOK, Orders
<1>4. CASE Write /\ step > 0
  <2>1. Drive' = Drive /\ Steer' = Steer
    BY <1>4, LaterWritesKeep DEF Drive, Steer, Bridge, Pins
  <2>2. Wanted' = Wanted
    BY <1>4, LaterWritesKeep DEF Wanted
  <2> QED
    BY <2>1, <2>2 DEF C!vars
<1>5. CASE Enable
  <2>1. step > 0 /\ step = Writes(order) /\ step' = 0 /\ pin' = pin
    BY <1>5 DEF Enable, Writes
  <2>2. Wanted' = Wanted
    BY <1>5, <2>1 DEF Enable, Wanted, InIoctl
  <2> QED
    BY <2>1, <2>2, NoWriteKeeps DEF C!vars
<1>6. CASE Close \/ Exit
  <2>1. step = 0 /\ step' = 0 /\ pin' = pin /\ at' = "out"
    BY <1>6 DEF Close, Exit, TypeOK
  <2>2. Wanted' = NoCommand
    BY <2>1 DEF Wanted
  <2> QED
    BY <2>1, <2>2, NoWriteKeeps DEF C!Next, C!Forget
<1>7. CASE UNCHANGED vars
  <2>1. Wanted' = Wanted /\ Drive' = Drive /\ Steer' = Steer
    BY <1>7 DEF vars, Wanted, Drive, Steer, Settled, InIoctl
  <2> QED
    BY <2>1 DEF C!vars
<1>8. step = 0 \/ step > 0
  BY DEF TypeOK, Writes
<1> QED
  BY <1>1, <1>2, <1>3, <1>4, <1>5, <1>6, <1>7, <1>8 DEF Next

\* moter_func and pwm_ioctl, gpio write by gpio write, carry out each command
\* of the car whole or not at all.
THEOREM RefinesCar == Spec => DrivesTheCar
  BY CarInit, CarStep, TypeInit, TypeStep, PTL DEF Spec, DrivesTheCar, C!Spec
=============================================================================
