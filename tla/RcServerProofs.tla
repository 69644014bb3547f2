--------------------------- MODULE RcServerProofs ---------------------------
(***************************************************************************)
(* Proofs about RcServer for every set of buttons and number of presses    *)
(* and threads, every segmentation of the stream, with and without led.ko. *)
(* They use the lemmas of the parts.  The history variables of             *)
(* CommandStream do not matter here.                                       *)
(***************************************************************************)
EXTENDS RcServer, WellFoundedInduction, TLAPS

SP == INSTANCE CommandStreamProofs WITH Commands <- Buttons, paced <- FALSE, whole <- FALSE
MP == INSTANCE MotorProofs
LP == INSTANCE LedDriverProofs WITH pin <- ledpin

-----------------------------------------------------------------------------
(* The assumptions of the parts, and that both instances of a part agree.  *)

LEMMA PartAssumptions == /\ Nul \notin Buttons
                         /\ MaxPresses \in Nat
                         /\ Grain \in 1 .. SP!MAXLINE /\ SP!MAXLINE % Grain = 0
                         /\ NoCommand \notin MP!Orders
BY ButtonsAssumption, BoundsAssumption DEF Nul, NoCommand, SP!MAXLINE, MP!Orders

LEMMA StreamTypes == S!TypeOK <=> SP!TypeOK
BY DEF S!TypeOK, SP!TypeOK, S!Sent, SP!Sent, S!MAXLINE, SP!MAXLINE

LEMMA MotorTypes == M!TypeOK <=> MP!TypeOK
BY DEF M!TypeOK, MP!TypeOK, M!Orders, MP!Orders, M!Pins, MP!Pins, M!Writes, MP!Writes

LEMMA LightTypes == L!TypeOK <=> LP!TypeOK
BY DEF L!TypeOK, LP!TypeOK, L!Cmds, LP!Cmds, L!Pins, LP!Pins, L!OffCmd, LP!OffCmd,
       L!LeftCmd, LP!LeftCmd, L!RightCmd, LP!RightCmd

-----------------------------------------------------------------------------
(* What a step of the server is to its parts. *)

\* A command byte is an order.
LEMMA OrderOfButton == \A b \in Buttons : OrderOf(b) \in MP!Orders
BY ButtonsAssumption DEF OrderOf, MP!Orders

LEMMA MotorOpens ==
  ASSUME NEW c \in MP!Orders, M!Open(c)
  PROVE  MP!Open(c)
BY DEF M!Open, MP!Open

LEMMA MotorDrives ==
  ASSUME M!Configure \/ M!Write \/ M!Enable \/ M!Close \/ M!Exit
  PROVE  MP!Configure \/ MP!Write \/ MP!Enable \/ MP!Close \/ MP!Exit
BY DEF M!Configure, MP!Configure, M!Write, MP!Write, M!Enable, MP!Enable, M!Close, MP!Close,
       M!Exit, MP!Exit, M!Pins, MP!Pins, M!Rank, MP!Rank, M!Writes, MP!Writes,
       M!Level, MP!Level

LEMMA MotorSteps == [Next]_vars => [MP!Next]_(MP!vars)
<1> SUFFICES ASSUME [Next]_vars PROVE [MP!Next]_(MP!vars)
  OBVIOUS
<1>1. CASE ReadCommand
  BY <1>1, MotorOpens, OrderOfButton DEF ReadCommand, MP!Next, motorVars, MP!vars
<1>2. CASE Drive
  BY <1>2, MotorDrives DEF Drive, MP!Next, motorVars, MP!vars
<1>3. CASE Die
  BY <1>3, MotorDrives DEF Die, MP!Next, motorVars, MP!vars
<1>4. CASE Environment \/ Spawn \/ EndOfStream \/ Blink \/ UNCHANGED vars
  BY <1>4 DEF Environment, Spawn, EndOfStream, Blink, vars, motorVars, MP!vars
<1>5. ASSUME NEW t \in Threads, LoadCmd(t) \/ CallIoctl(t) \/ InDriver(t)
      PROVE  [MP!Next]_(MP!vars)
  BY <1>5 DEF LoadCmd, CallIoctl, InDriver, motorVars, MP!vars
<1> QED
  BY <1>1, <1>2, <1>3, <1>4, <1>5 DEF Next, Main, LightThread, LedMissing, BrokenPipe

LEMMA LightSteps == TypeOK /\ [Next]_vars => [LP!Next]_(LP!vars)
<1> SUFFICES ASSUME TypeOK, [Next]_vars PROVE [LP!Next]_(LP!vars)
  OBVIOUS
<1> USE DEF L!OffCmd, LP!OffCmd, L!LeftCmd, LP!LeftCmd, L!RightCmd, LP!RightCmd
<1>1. ASSUME NEW t \in Threads, CallIoctl(t)
      PROVE  [LP!Next]_(LP!vars)
  <2>1. LightOf(arg[t]) \in LP!Cmds
    BY DEF TypeOK, LightOf, LP!Cmds
  <2>2. LP!Ioctl(t, LightOf(arg[t]))
    BY <1>1 DEF CallIoctl, L!Ioctl, LP!Ioctl, L!Clears, LP!Clears, L!Pins, LP!Pins,
                L!Blinks, LP!Blinks
  <2> QED
    BY <2>1, <2>2 DEF LP!Next
<1>2. ASSUME NEW t \in Threads, InDriver(t)
      PROVE  [LP!Next]_(LP!vars)
  BY <1>2 DEF InDriver, L!Clear, LP!Clear, LP!Next
<1>3. CASE Blink
  <2>1. LP!Timer
    BY <1>3 DEF Blink, L!Timer, LP!Timer, L!Pins, LP!Pins, L!Blinks, LP!Blinks
  <2> QED
    BY <2>1 DEF LP!Next
<1>4. CASE Environment \/ Main \/ UNCHANGED vars
  BY <1>4 DEF Environment, Main, ReadCommand, Drive, Spawn, EndOfStream, vars,
              lightVars, LP!vars
<1>5. ASSUME NEW t \in Threads, LoadCmd(t)
      PROVE  [LP!Next]_(LP!vars)
  BY <1>5 DEF LoadCmd, lightVars, LP!vars
<1>6. CASE Die
  BY <1>6 DEF Die, lightVars, LP!vars
<1> QED
  BY <1>1, <1>2, <1>3, <1>4, <1>5, <1>6 DEF Next, LightThread, LedMissing, BrokenPipe

\* The stream moves, or another thread than main ends the server.
LEMMA StreamSteps ==
  ASSUME [Next]_vars
  PROVE  \/ [SP!Next]_(SP!vars)
         \/ up' = FALSE /\ UNCHANGED <<written, arrived, taken, handled, current, count, open>>
<1> USE DEF S!MAXLINE, SP!MAXLINE, S!Sent, SP!Sent, S!Available, SP!Available
<1>1. ASSUME NEW b \in Buttons, S!Press(b)
      PROVE  SP!Next
  BY <1>1 DEF S!Press, SP!Press, SP!Next
<1>2. S!Deliver => SP!Next
  BY DEF S!Deliver, SP!Deliver, SP!Next
<1>3. S!Hangup => SP!Next
  BY DEF S!Hangup, SP!Hangup, SP!Next
<1>4. S!Read => SP!Read
  BY DEF S!Read, SP!Read, S!MinOf, SP!MinOf, S!READSZ, SP!READSZ, S!ByteAt, SP!ByteAt,
         S!FrameOf, SP!FrameOf
<1>5. S!ReadEnd => SP!ReadEnd
  BY DEF S!ReadEnd, SP!ReadEnd
<1>6. CASE Environment
  BY <1>1, <1>2, <1>3, <1>6 DEF Environment
<1>7. CASE ReadCommand \/ EndOfStream
  BY <1>4, <1>5, <1>7 DEF ReadCommand, EndOfStream, SP!Next, SP!ServerNext
<1>8. CASE Drive \/ Spawn \/ Blink \/ UNCHANGED vars
  BY <1>8 DEF Drive, Spawn, Blink, vars, streamVars, SP!vars
<1>9. ASSUME NEW t \in Threads, LightThread(t), ~LedMissing(t)
      PROVE  [SP!Next]_(SP!vars)
  BY <1>9 DEF LightThread, LoadCmd, CallIoctl, InDriver, streamVars, SP!vars
<1>10. CASE Die
  BY <1>10 DEF Die
<1> QED
  BY <1>6, <1>7, <1>8, <1>9, <1>10 DEF Next, Main, LedMissing, BrokenPipe

-----------------------------------------------------------------------------
(* Type correctness. *)

LEMMA TypeInit == Init => TypeOK
<1> SUFFICES ASSUME Init PROVE TypeOK
  OBVIOUS
<1>1. S!TypeOK
  BY DEF Init, S!Init, S!TypeOK, S!Sent, S!MAXLINE
<1>2. M!TypeOK
  BY MP!TypeInit, PartAssumptions, MotorTypes DEF Init, M!Init, MP!Init, M!Pins, MP!Pins
<1>3. L!TypeOK
  BY LP!TypeInit, LightTypes DEF Init, L!Init, LP!Init, L!Pins, LP!Pins
<1>4. at = "out"
  BY DEF Init, M!Init
<1> QED
  BY <1>1, <1>2, <1>3, <1>4 DEF Init, TypeOK

LEMMA PartTypesStep ==
  ASSUME TypeOK, [Next]_vars
  PROVE  S!TypeOK' /\ M!TypeOK' /\ L!TypeOK'
<1>1. S!TypeOK'
  <2>1. CASE [SP!Next]_(SP!vars)
    <3>1. SP!TypeOK'
      BY <2>1, StreamTypes, SP!TypeStep, PartAssumptions DEF TypeOK
    <3> QED
      BY <3>1 DEF S!TypeOK, SP!TypeOK, S!Sent, SP!Sent, S!MAXLINE, SP!MAXLINE
  <2>2. CASE up' = FALSE /\ UNCHANGED <<written, arrived, taken, handled, current, count, open>>
    BY <2>2 DEF TypeOK, S!TypeOK, S!Sent
  <2> QED
    BY <2>1, <2>2, StreamSteps
<1>2. M!TypeOK'
  <2>1. MP!TypeOK'
    BY MotorSteps, MotorTypes, MP!TypeStep, PartAssumptions DEF TypeOK
  <2> QED
    BY <2>1 DEF M!TypeOK, MP!TypeOK, M!Orders, MP!Orders, M!Pins, MP!Pins, M!Writes, MP!Writes
<1>3. L!TypeOK'
  <2>1. LP!TypeOK'
    BY LightSteps, LightTypes, LP!TypeStep DEF TypeOK
  <2> QED
    BY <2>1 DEF L!TypeOK, LP!TypeOK, L!Cmds, LP!Cmds, L!Pins, LP!Pins, L!OffCmd, LP!OffCmd,
                L!LeftCmd, LP!LeftCmd, L!RightCmd, LP!RightCmd
<1> QED
  BY <1>1, <1>2, <1>3

\* What the module adds to its parts.
GlueOK == /\ pc \in {"reading", "driving", "spawning"}
          /\ cmd \in {0, 5, 6}
          /\ thread \in [Threads -> {"none", "started", "loaded", "called"}]
          /\ arg \in [Threads -> {0, 5, 6}]
          /\ loaded \in LedLoaded
          /\ at # "out" => pc = "driving"
          /\ manners \in {"patient", "hurried", "hasty"}

LEMMA GlueStep ==
  ASSUME TypeOK, [Next]_vars
  PROVE  GlueOK'
<1>0. GlueOK
  BY DEF TypeOK, GlueOK
<1>1. manners' \in {"patient", "hurried", "hasty"}
  BY <1>0 DEF GlueOK, Next, Pressed, vars
<1>2. CASE ReadCommand
  BY <1>0, <1>1, <1>2 DEF GlueOK, ReadCommand, CmdOf, motorVars
<1>3. CASE Drive
  BY <1>0, <1>1, <1>3 DEF GlueOK, Drive, M!Configure, M!Write, M!Enable, M!Close
<1>4. CASE Spawn
  BY <1>0, <1>1, <1>4 DEF GlueOK, Spawn, motorVars
<1>5. CASE Environment \/ EndOfStream \/ Blink \/ UNCHANGED vars
  BY <1>0, <1>1, <1>5 DEF GlueOK, Environment, EndOfStream, Blink, vars, motorVars
<1>6. ASSUME NEW t \in Threads, LoadCmd(t)
      PROVE  GlueOK'
  BY <1>0, <1>1, <1>6 DEF GlueOK, LoadCmd, motorVars
<1>7. CASE Die
  BY <1>0, <1>1, <1>7 DEF GlueOK, Die, M!Exit, motorVars
<1>8. ASSUME NEW t \in Threads, CallIoctl(t) \/ InDriver(t)
      PROVE  GlueOK'
  BY <1>0, <1>1, <1>8 DEF GlueOK, CallIoctl, InDriver, motorVars
<1> QED
  BY <1>2, <1>3, <1>4, <1>5, <1>6, <1>7, <1>8
     DEF Next, Main, LightThread, LedMissing, BrokenPipe

LEMMA TypeStep == TypeOK /\ [Next]_vars => TypeOK'
  BY PartTypesStep, GlueStep DEF TypeOK, GlueOK

\* The state of the server and of all its parts keeps its ranges, and main is
\* inside moter_func whenever the motor's device is open.
THEOREM TypeCorrect == Spec => []TypeOK
  BY TypeInit, TypeStep, PTL DEF Spec

-----------------------------------------------------------------------------
(* The death of the process. *)

\* The device is closed once the process has ended.
DeadIsOut == /\ MP!BridgeInv
             /\ MP!ChannelInv
             /\ ~up => at = "out"

LEMMA DeadIsOutStep == TypeOK /\ DeadIsOut /\ [Next]_vars => DeadIsOut'
<1> SUFFICES ASSUME TypeOK, DeadIsOut, [Next]_vars
             PROVE  DeadIsOut'
  OBVIOUS
<1>1. MP!BridgeInv' /\ MP!ChannelInv'
  BY MotorSteps, MotorTypes, MP!BridgeStep, MP!ChannelStep, PartAssumptions
     DEF TypeOK, DeadIsOut
<1>2. ~up' => at' = "out"
  <2>1. CASE ReadCommand \/ Drive
    BY <2>1 DEF ReadCommand, Drive, S!Read, streamVars
  <2>2. CASE EndOfStream
    BY <2>2 DEF EndOfStream, S!ReadEnd, motorVars, TypeOK
  <2>3. CASE Environment \/ Spawn \/ Blink \/ UNCHANGED vars
    BY <2>3 DEF Environment, S!Press, S!Deliver, S!Hangup, Spawn, Blink, vars, motorVars,
                streamVars, DeadIsOut
  <2>4. ASSUME NEW t \in Threads, LightThread(t), ~LedMissing(t)
        PROVE  ~up' => at' = "out"
    BY <2>4 DEF LightThread, LoadCmd, CallIoctl, InDriver, motorVars, streamVars, DeadIsOut
  <2>5. CASE Die
    BY <2>5 DEF Die, M!Exit, motorVars
  <2> QED
    BY <2>1, <2>2, <2>3, <2>4, <2>5 DEF Next, Main, LedMissing, BrokenPipe
<1> QED
  BY <1>1, <1>2 DEF DeadIsOut

\* Wherever a light thread's exit (th_led.c:49) or the obstacle thread's SIGPIPE
\* (th_ultra.c:57) meets main, and however the connection ends, no bridge is left
\* shorted and the channels are free.
THEOREM DeathIsSane == Spec => []DeathLeavesCarSane
<1>1. Init => DeadIsOut
  BY MP!BridgeInit, PartAssumptions
     DEF Init, M!Init, MP!Init, DeadIsOut, MP!ChannelInv, S!Init, M!Pins, MP!Pins
<1>2. TypeOK /\ DeadIsOut => DeathLeavesCarSane
  BY DEF TypeOK, DeadIsOut, DeathLeavesCarSane, MP!BridgeInv, MP!ChannelInv, M!TypeOK,
         M!HBridgeSettled, M!InIoctl, M!BothHigh, MP!BothHigh
<1> QED
  BY <1>1, <1>2, TypeInit, TypeStep, DeadIsOutStep, PTL DEF Spec

-----------------------------------------------------------------------------
(* What the presses ask for. *)

LEMMA MaxOfNew ==
  ASSUME NEW K \in SUBSET Nat, NEW k \in Nat, \A j \in K : j < k
  PROVE  Max(K \cup {k}) = k
<1>1. k \in K \cup {k} /\ \A y \in K \cup {k} : k >= y
  OBVIOUS
<1>2. \A x \in K \cup {k} : (\A y \in K \cup {k} : x >= y) => x = k
  OBVIOUS
<1> QED
  BY <1>1, <1>2 DEF Max

LEMMA DriveAfterNew ==
  ASSUME NEW K \in SUBSET Nat, NEW k \in Nat, \A j \in K : j < k
  PROVE  DriveAfter(K \cup {k}) = IF written[k] \in {"1", "2", "5"}
                                     THEN DriveOf(written[k]) ELSE DriveAfter(K)
<1>1. CASE written[k] \in {"1", "2", "5"}
  <2>1. Drives(K \cup {k}) = Drives(K) \cup {k}
    BY <1>1 DEF Drives
  <2>2. Drives(K) \in SUBSET Nat /\ \A j \in Drives(K) : j < k
    BY DEF Drives
  <2> QED
    BY <1>1, <2>1, <2>2, MaxOfNew DEF DriveAfter
<1>2. CASE written[k] \notin {"1", "2", "5"}
  <2>1. Drives(K \cup {k}) = Drives(K)
    BY <1>2 DEF Drives
  <2> QED
    BY <1>2, <2>1 DEF DriveAfter
<1> QED
  BY <1>1, <1>2

LEMMA SteerAfterNew ==
  ASSUME NEW K \in SUBSET Nat, NEW k \in Nat, \A j \in K : j < k
  PROVE  SteerAfter(K \cup {k}) = SteerOf(written[k])
  BY MaxOfNew DEF SteerAfter

\* A bounded set of numbers has a greatest one, which Max finds.
LEMMA MaxOfBounded ==
  ASSUME NEW n \in Nat, NEW K \in SUBSET (1 .. n), K # {}
  PROVE  Max(K) \in K
<1> DEFINE R == {ss \in Nat \X Nat : ss[1] < ss[2]}
           T == {y \in Nat : \E x \in K : y = n - x}
<1>1. IsWellFoundedOn(R, Nat)
  BY NatLessThanWellFounded, Zenon DEF OpToRel
<1>2. T # {}
  <2>0. PICK x \in K : TRUE
    OBVIOUS
  <2>1. x \in 1 .. n /\ n - x \in Nat
    OBVIOUS
  <2>2. n - x \in T
    BY <2>1
  <2> QED
    BY <2>2
<1>3. PICK y \in T : \A z \in T : ~ (<<z, y>> \in R)
  <2>1. T \subseteq Nat
    OBVIOUS
  <2> HIDE DEF R, T
  <2> QED
    BY <1>1, <1>2, <2>1, WFMin
<1>4. PICK x \in K : y = n - x
  OBVIOUS
<1>5. \A z \in K : x >= z
  <2> SUFFICES ASSUME NEW z \in K PROVE x >= z
    OBVIOUS
  <2>1. n - z \in T /\ n - x \in Nat /\ n - z \in Nat
    OBVIOUS
  <2>2. ~ (<<n - z, n - x>> \in R)
    BY <1>3, <1>4, <2>1
  <2> QED
    BY <2>1, <2>2
<1> QED
  BY <1>5 DEF Max

\* A later press changes nothing of what the earlier ones ask for.
LEMMA AfterAppend ==
  ASSUME NEW n \in Nat, NEW K \in SUBSET (1 .. n), \A k \in K : written'[k] = written[k]
  PROVE  DriveAfter(K)' = DriveAfter(K) /\ SteerAfter(K)' = SteerAfter(K)
<1>1. Drives(K)' = Drives(K) /\ Drives(K) \in SUBSET K
  BY DEF Drives
<1>2. Drives(K) # {} => Max(Drives(K)) \in K
  BY <1>1, MaxOfBounded
<1>3. DriveAfter(K)' = DriveAfter(K)
  BY <1>1, <1>2 DEF DriveAfter
<1>4. SteerAfter(K)' = SteerAfter(K)
  BY MaxOfBounded DEF SteerAfter
<1> QED
  BY <1>3, <1>4

-----------------------------------------------------------------------------
(* The car does what the dispatched commands ask for. *)

\* moter_func has been called, but the first write of the order is to come.
Undecided == at \in {"leftpwm", "rightpwm", "order"} /\ step = 0

\* Until the first write of the last command's order the car obeys all others.
LastIsPending == \E k \in handled : /\ \A j \in handled : j <= k
                                    /\ order = OrderOf(written[k])
                                    /\ CarObeys(handled \ {k})

ObeyInv == up => IF Undecided THEN LastIsPending ELSE CarObeys(handled)

LEMMA CarOfParts == M!Drive = MP!Drive /\ M!Steer = MP!Steer
BY DEF M!Drive, MP!Drive, M!Steer, MP!Steer, M!Bridge, MP!Bridge, M!Settled, MP!Settled,
       M!InIoctl, MP!InIoctl, M!Rank, MP!Rank, M!Writes, MP!Writes, M!Level, MP!Level

LEMMA CarOfPartsNext == M!Drive' = MP!Drive' /\ M!Steer' = MP!Steer'
BY DEF M!Drive, MP!Drive, M!Steer, MP!Steer, M!Bridge, MP!Bridge, M!Settled, MP!Settled,
       M!InIoctl, MP!InIoctl, M!Rank, MP!Rank, M!Writes, MP!Writes, M!Level, MP!Level

\* Between two orders nothing moves the car, ...
LEMMA CarStays ==
  ASSUME M!TypeOK, pin' = pin, step' = 0, step = 0 \/ step = M!Writes(order)
  PROVE  M!Drive' = M!Drive /\ M!Steer' = M!Steer
<1>1. MP!TypeOK /\ (step = 0 \/ step = MP!Writes(order))
  BY MotorTypes DEF M!Writes, MP!Writes
<1> QED
  BY <1>1, MP!NoWriteKeeps, PartAssumptions, CarOfParts, CarOfPartsNext

\* ... nor does a later write of an order, ...
LEMMA LaterWriteKeepsCar ==
  ASSUME M!TypeOK, M!Write, step > 0
  PROVE  M!Drive' = M!Drive /\ M!Steer' = M!Steer
<1>1. MP!TypeOK /\ MP!Write
  BY MotorTypes DEF M!Write, MP!Write, M!Pins, MP!Pins, M!Rank, MP!Rank, M!Writes, MP!Writes,
         M!Level, MP!Level
<1>2. \A p \in MP!Pins : MP!Settled(p)' = MP!Settled(p)
  BY <1>1, MP!LaterWritesKeep, PartAssumptions
<1>3. MP!Drive' = MP!Drive /\ MP!Steer' = MP!Steer
  BY <1>2 DEF MP!Drive, MP!Steer, MP!Bridge, MP!Pins
<1> QED
  BY <1>3, CarOfParts, CarOfPartsNext

\* ... while the first write has the car do all the order asks for.
LEMMA FirstWriteObeys ==
  ASSUME M!TypeOK, M!Write, step = 0, NEW b \in Buttons, order = OrderOf(b)
  PROVE  /\ M!Drive' = IF b \in {"1", "2", "5"} THEN DriveOf(b) ELSE M!Drive
         /\ M!Steer' = SteerOf(b)
<1>1. MP!TypeOK /\ MP!Write
  BY MotorTypes DEF M!Write, MP!Write, M!Pins, MP!Pins, M!Rank, MP!Rank, M!Writes, MP!Writes,
         M!Level, MP!Level
<1>2. b \in {"1", "2", "3", "4", "5"}
  BY ButtonsAssumption
<1>3. order \in {"FRONT", "BACK", "STOP"} => MP!C!Go
  BY <1>1, MP!WriteGoes, PartAssumptions
<1>4. order \in {"LEFT", "RIGHT"} => MP!C!Turn
  BY <1>1, MP!WriteTurns, PartAssumptions
<1>5. MP!Wanted = order
  BY <1>1 DEF MP!Wanted, MP!Write, MP!InIoctl
<1>6. CASE b \in {"1", "2", "5"}
  <2>1. MP!C!Go
    BY <1>3, <1>6 DEF OrderOf
  <2>2. MP!Drive' = DriveOf(b) /\ MP!Steer' = "straight"
    BY <1>5, <1>6, <2>1 DEF MP!C!Go, DriveOf, OrderOf
  <2> QED
    BY <1>6, <2>2, CarOfPartsNext DEF SteerOf
<1>7. CASE b \in {"3", "4"}
  <2>1. MP!C!Turn
    BY <1>4, <1>7 DEF OrderOf
  <2>2. MP!Drive' = MP!Drive /\ MP!Steer' = SteerOf(b)
    BY <1>5, <1>7, <2>1 DEF MP!C!Turn, SteerOf, OrderOf
  <2> QED
    BY <1>7, <2>2, CarOfParts, CarOfPartsNext
<1> QED
  BY <1>2, <1>6, <1>7

\* The presses dispatched so far are presses made.
LEMMA HandledBounded ==
  ASSUME TypeOK
  PROVE  /\ Len(written) \in Nat
         /\ handled \in SUBSET (1 .. Len(written))
         /\ \A k \in handled : written[k] \in Buttons
BY DEF TypeOK, S!TypeOK

LEMMA ObeyQuiet ==
  ASSUME TypeOK, ObeyInv, UNCHANGED <<handled, up, at, order, step, pin>>,
         \A k \in handled : written'[k] = written[k]
  PROVE  ObeyInv'
<1>1. M!Drive' = M!Drive /\ M!Steer' = M!Steer
  BY DEF M!Drive, M!Steer, M!Settled, M!InIoctl
<1>2. ASSUME NEW K \in SUBSET handled
      PROVE  CarObeys(K)' = CarObeys(K)
  BY <1>1, HandledBounded, AfterAppend DEF CarObeys
<1>3. LastIsPending => LastIsPending'
  <2> SUFFICES ASSUME LastIsPending PROVE LastIsPending'
    OBVIOUS
  <2>1. PICK k \in handled : /\ \A j \in handled : j <= k
                             /\ order = OrderOf(written[k])
                             /\ CarObeys(handled \ {k})
    BY DEF LastIsPending
  <2>2. CarObeys(handled \ {k})'
    BY <1>2, <2>1
  <2> QED
    BY <2>1, <2>2 DEF LastIsPending
<1>4. CarObeys(handled) => CarObeys(handled)'
  BY <1>2
<1> QED
  BY <1>3, <1>4 DEF ObeyInv, Undecided

LEMMA ObeyRead ==
  ASSUME TypeOK, ObeyInv, SP!HandledArePassed, ReadCommand
  PROVE  ObeyInv'
<1>1. SP!TypeOK /\ up /\ SP!Available > 0 /\ SP!ByteAt(taken) = S!ByteAt(taken)
      /\ SP!FrameOf(taken) = S!FrameOf(taken)
  BY StreamTypes DEF TypeOK, ReadCommand, S!Read, S!Available, SP!Available, S!ByteAt, SP!ByteAt,
                     S!FrameOf, SP!FrameOf, S!MAXLINE, SP!MAXLINE
<1>2. CASE S!ByteAt(taken) \in Buttons
  <2>1. PICK k \in DOMAIN written : /\ k = S!FrameOf(taken)
                                    /\ S!ByteAt(taken) = written[k]
                                    /\ \A j \in handled : j < k
    BY <1>1, <1>2, SP!CommandAtFrameStart, SP!ReadIsNew, PartAssumptions
  <2>2. /\ handled' = handled \cup {k} /\ written' = written
        /\ order' = OrderOf(written'[k])
        /\ at = "out" /\ Undecided' /\ step = 0 /\ step' = 0 /\ pin' = pin
    BY <1>2, <2>1 DEF ReadCommand, S!Read, M!Open, Undecided, TypeOK, M!TypeOK
  <2>3. CarObeys(handled)
    BY <1>1, <2>2 DEF ObeyInv, Undecided
  <2>4. handled' \ {k} = handled /\ \A j \in handled' : j <= k
    BY <2>1, <2>2, HandledBounded
  <2>5. M!Drive' = M!Drive /\ M!Steer' = M!Steer
    BY <2>2, CarStays DEF TypeOK
  <2>6. CarObeys(handled \ {k})'
    BY <2>2, <2>3, <2>4, <2>5 DEF CarObeys, DriveAfter, SteerAfter, Drives
  <2> QED
    BY <2>1, <2>2, <2>4, <2>6 DEF ObeyInv, LastIsPending
<1>3. CASE S!ByteAt(taken) \notin Buttons
  BY <1>3, ObeyQuiet DEF ReadCommand, S!Read, motorVars
<1> QED
  BY <1>2, <1>3

LEMMA ObeyDrive ==
  ASSUME TypeOK, ObeyInv, Drive
  PROVE  ObeyInv'
<1>0. up /\ up' = up /\ handled' = handled /\ written' = written
  BY DEF Drive, streamVars
<1>1. CASE M!Write /\ step = 0
  <2>1. Undecided /\ ~Undecided'
    BY <1>1 DEF M!Write, Undecided, TypeOK, M!TypeOK
  <2>2. PICK k \in handled : /\ \A j \in handled : j <= k
                             /\ order = OrderOf(written[k])
                             /\ CarObeys(handled \ {k})
    BY <1>0, <2>1 DEF ObeyInv, LastIsPending
  <2> DEFINE K == handled \ {k}
  <2>3. /\ K \in SUBSET Nat /\ k \in Nat /\ written[k] \in Buttons
        /\ \A j \in K : j < k
        /\ K \cup {k} = handled
    BY <2>2, HandledBounded
  <2>4. /\ M!Drive' = IF written[k] \in {"1", "2", "5"} THEN DriveOf(written[k]) ELSE M!Drive
        /\ M!Steer' = SteerOf(written[k])
    BY <1>1, <2>2, <2>3, FirstWriteObeys DEF TypeOK
  <2>5. /\ DriveAfter(handled) = IF written[k] \in {"1", "2", "5"}
                                    THEN DriveOf(written[k]) ELSE DriveAfter(K)
        /\ SteerAfter(handled) = SteerOf(written[k])
    BY <2>3, DriveAfterNew, SteerAfterNew
  <2>6. M!Drive' = DriveAfter(handled) /\ M!Steer' = SteerAfter(handled)
    BY <2>2, <2>4, <2>5 DEF CarObeys
  <2> QED
    BY <1>0, <2>1, <2>6 DEF ObeyInv, CarObeys, DriveAfter, SteerAfter, Drives
<1>2. CASE M!Write /\ step > 0
  <2>1. ~Undecided /\ ~Undecided'
    BY <1>2 DEF M!Write, Undecided, TypeOK, M!TypeOK
  <2>2. M!Drive' = M!Drive /\ M!Steer' = M!Steer
    BY <1>2, LaterWriteKeepsCar DEF TypeOK
  <2> QED
    BY <1>0, <2>1, <2>2 DEF ObeyInv, CarObeys, DriveAfter, SteerAfter, Drives
<1>3. CASE M!Configure
  <2>1. step = 0 /\ UNCHANGED <<order, step, pin>> /\ Undecided /\ Undecided'
    BY <1>3 DEF M!Configure, Undecided, TypeOK, M!TypeOK
  <2>2. M!Drive' = M!Drive /\ M!Steer' = M!Steer
    BY <2>1, CarStays DEF TypeOK
  <2> QED
    BY <1>0, <2>1, <2>2
       DEF ObeyInv, LastIsPending, CarObeys, DriveAfter, SteerAfter, Drives
<1>4. CASE M!Enable \/ M!Close
  <2>1. /\ ~Undecided /\ ~Undecided' /\ pin' = pin /\ step' = 0
        /\ step = 0 \/ step = M!Writes(order)
    BY <1>4 DEF M!Enable, M!Close, Undecided, TypeOK, M!TypeOK, M!Writes
  <2>2. M!Drive' = M!Drive /\ M!Steer' = M!Steer
    BY <2>1, CarStays DEF TypeOK
  <2> QED
    BY <1>0, <2>1, <2>2 DEF ObeyInv, CarObeys, DriveAfter, SteerAfter, Drives
<1>5. step = 0 \/ step > 0
  BY DEF TypeOK, M!TypeOK, M!Writes
<1> QED
  BY <1>1, <1>2, <1>3, <1>4, <1>5 DEF Drive

LEMMA PassedStep ==
  TypeOK /\ SP!HandledArePassed /\ [Next]_vars => SP!HandledArePassed'
<1>1. UNCHANGED <<handled, taken>> /\ SP!HandledArePassed => SP!HandledArePassed'
  BY DEF SP!HandledArePassed, SP!Passed
<1> QED
  BY <1>1, StreamSteps, StreamTypes, SP!HandledArePassedStep, PartAssumptions DEF TypeOK

LEMMA ObeyStep ==
  TypeOK /\ ObeyInv /\ SP!HandledArePassed /\ [Next]_vars => ObeyInv'
<1> SUFFICES ASSUME TypeOK, ObeyInv, SP!HandledArePassed, [Next]_vars
             PROVE  ObeyInv'
  OBVIOUS
<1>1. ASSUME NEW b \in Buttons, S!Press(b), Environment
      PROVE  ObeyInv'
  <2>1. \A k \in handled : written'[k] = written[k]
    BY <1>1, HandledBounded DEF S!Press, TypeOK, S!TypeOK
  <2> QED
    BY <1>1, <2>1, ObeyQuiet DEF S!Press, Environment, motorVars
<1>2. CASE Environment /\ (S!Deliver \/ S!Hangup)
  BY <1>2, ObeyQuiet DEF Environment, S!Deliver, S!Hangup, motorVars
<1>3. CASE Spawn \/ Blink \/ UNCHANGED vars
  BY <1>3, ObeyQuiet DEF Spawn, Blink, vars, motorVars, streamVars
<1>4. ASSUME NEW t \in Threads, LightThread(t), ~LedMissing(t)
      PROVE  ObeyInv'
  BY <1>4, ObeyQuiet DEF LightThread, LoadCmd, CallIoctl, InDriver, motorVars, streamVars
<1>5. CASE EndOfStream
  BY <1>5 DEF EndOfStream, S!ReadEnd, ObeyInv
<1>6. CASE Die
  BY <1>6 DEF Die, ObeyInv
<1> QED
  BY <1>1, <1>2, <1>3, <1>4, <1>5, <1>6, ObeyRead, ObeyDrive
     DEF Next, Main, Environment, LedMissing, BrokenPipe

LEMMA ObeyInit == Init => SP!HandledArePassed /\ ObeyInv
<1> SUFFICES ASSUME Init PROVE SP!HandledArePassed /\ ObeyInv
  OBVIOUS
<1>1. handled = {} /\ ~Undecided
  BY DEF Init, S!Init, M!Init, Undecided
<1>2. M!Drive = "off" /\ M!Steer = "straight"
  BY DEF Init, M!Init, M!Drive, M!Steer, M!Bridge, M!Settled, M!InIoctl, M!Pins
<1> QED
  BY <1>1, <1>2 DEF SP!HandledArePassed, ObeyInv, CarObeys, DriveAfter, SteerAfter, Drives

\* However the stream is cut and whatever the presses, whenever main waits for
\* the next command the car does what the commands dispatched so far ask for.
THEOREM CarObeysItsOrders == Spec => []CarObeysDispatched
<1>1. TypeOK /\ ObeyInv => CarObeysDispatched
  BY DEF TypeOK, ObeyInv, CarObeysDispatched, Undecided
<1> QED
  BY <1>1, ObeyInit, ObeyStep, PassedStep, TypeInit, TypeStep, PTL DEF Spec

-----------------------------------------------------------------------------
(* A driver who waits for the car. *)

\* Such a driver leaves at most the last frame unread, and every frame whose
\* first byte was read was dispatched.
PatienceInv == up /\ manners # "hasty" => SP!OneAtATime

LEMMA PatienceStep == TypeOK /\ PatienceInv /\ [Next]_vars => PatienceInv'
<1> SUFFICES ASSUME TypeOK, PatienceInv, [Next]_vars, up', manners' # "hasty"
             PROVE  SP!OneAtATime'
  BY DEF PatienceInv
<1>0. SP!TypeOK
  BY StreamTypes DEF TypeOK
<1>1. CASE up /\ UNCHANGED <<written, taken, handled, manners>>
  BY <1>1, SP!OneAtATimeElse, PartAssumptions DEF PatienceInv
<1>2. ASSUME NEW b \in Buttons, S!Press(b), Pressed
      PROVE  SP!OneAtATime'
  <2>1. up /\ manners # "hasty" /\ S!Drained
    BY <1>2 DEF S!Press, Pressed, AtRest, Waiting
  <2>2. SP!Press(b) /\ SP!Drained
    BY <1>2, <2>1 DEF S!Press, SP!Press, S!Drained, SP!Drained, S!Sent, SP!Sent,
                      S!MAXLINE, SP!MAXLINE
  <2> QED
    BY <1>0, <2>1, <2>2, SP!OneAtATimePress, PartAssumptions DEF PatienceInv
<1>3. CASE ReadCommand /\ UNCHANGED manners
  <2>1. SP!Read /\ up
    BY <1>3 DEF ReadCommand, S!Read, SP!Read, S!MinOf, SP!MinOf, S!READSZ, SP!READSZ,
                S!ByteAt, SP!ByteAt, S!FrameOf, SP!FrameOf, S!MAXLINE, SP!MAXLINE,
                S!Available, SP!Available
  <2> QED
    BY <1>0, <1>3, <2>1, SP!OneAtATimeRead, PartAssumptions DEF PatienceInv
<1>4. ASSUME NEW b \in Buttons, S!Press(b)
      PROVE  written' # written
  BY <1>4 DEF S!Press, TypeOK, S!TypeOK
<1>5. CASE /\ Environment
           /\ IF written' # written THEN Pressed ELSE UNCHANGED manners
  <2>1. CASE S!Deliver \/ S!Hangup
    BY <1>1, <1>5, <2>1 DEF S!Deliver, S!Hangup
  <2> QED
    BY <1>2, <1>4, <1>5, <2>1 DEF Environment
<1>6. CASE (Drive \/ Spawn \/ EndOfStream \/ Blink) /\ UNCHANGED manners
  BY <1>1, <1>6 DEF Drive, Spawn, EndOfStream, S!ReadEnd, Blink, streamVars
<1>7. ASSUME NEW t \in Threads, LightThread(t), UNCHANGED manners
      PROVE  SP!OneAtATime'
  BY <1>1, <1>7 DEF LightThread, LoadCmd, LedMissing, Die, CallIoctl, InDriver, streamVars
<1>8. CASE UNCHANGED vars
  BY <1>1, <1>8 DEF vars, streamVars
<1> QED
  BY <1>3, <1>5, <1>6, <1>7, <1>8 DEF Next, Main, BrokenPipe, Die

\* From the buttons to the pins: for a driver who waits for the server, the car
\* does what all the presses ask for whenever the server waits again.
THEOREM CarFollowsItsDriver == Spec => []CarFollowsButtons
<1>1. Init => PatienceInv
  BY DEF Init, S!Init, PatienceInv, SP!OneAtATime, SP!Sent, SP!MAXLINE
<1>2. TypeOK /\ ObeyInv /\ PatienceInv => CarFollowsButtons
  <2> SUFFICES ASSUME TypeOK, ObeyInv, PatienceInv, up, manners # "hasty", Waiting
               PROVE  CarObeys(DOMAIN written)
    BY DEF CarFollowsButtons
  <2>1. CarObeys(handled)
    BY DEF TypeOK, ObeyInv, Undecided, Waiting
  <2>2. \A k \in DOMAIN written : SP!Passed(k)
    BY DEF TypeOK, S!TypeOK, Waiting, S!Drained, S!Sent, S!MAXLINE, SP!Passed, SP!MAXLINE
  <2>3. handled = DOMAIN written
    BY <2>2 DEF PatienceInv, SP!OneAtATime, TypeOK, S!TypeOK
  <2> QED
    BY <2>1, <2>3
<1> QED
  BY <1>1, <1>2, ObeyInit, ObeyStep, PassedStep, PatienceStep, TypeInit, TypeStep, PTL DEF Spec

-----------------------------------------------------------------------------
(* A driver who waits for car and lights. *)

\* pthread_create can make another thread.  A thread, once made, is used up:
\* what is spare now was spare all along.
Spare == \E t \in Threads : thread[t] = "none"

\* The last press is not dispatched yet: the driver made it with main in read
\* and no light thread on its way, and so they still are.
PressPending == pc = "reading" /\ LightsDone

\* The last press is dispatched: cmd is its command, no light thread carries
\* another one, and the flag has changed, or a light thread is on its way to
\* change it, or main is on its way to make one.
PressServed ==
  LET c == CmdOf(written[Len(written)])
  IN  /\ cmd = c
      /\ \A t \in Threads : thread[t] = "loaded" => arg[t] = c
      /\ \/ pc # "reading"
         \/ \E t \in Threads : thread[t] \in {"started", "loaded"}
         \/ flag = LightOf(c)

LightsInv == up /\ manners = "patient" /\ Spare /\ written # <<>> =>
                IF Len(written) \in handled THEN PressServed ELSE PressPending

\* A set of threads has a first one, which Min finds.
LEMMA MinOfThreads ==
  ASSUME NEW K \in SUBSET Threads, K # {}
  PROVE  Min(K) \in K
<1> DEFINE R == {ss \in Nat \X Nat : ss[1] < ss[2]}
<1>1. IsWellFoundedOn(R, Nat)
  BY NatLessThanWellFounded, Zenon DEF OpToRel
<1>2. K \subseteq Nat
  BY BoundsAssumption DEF Threads
<1>3. PICK x \in K : \A z \in K : ~ (<<z, x>> \in R)
  <2> HIDE DEF R
  <2> QED
    BY <1>1, <1>2, WFMin
<1>4. ASSUME NEW z \in K
      PROVE  x <= z
  <2>1. ~ (<<z, x>> \in R) /\ x \in Nat /\ z \in Nat
    BY <1>2, <1>3
  <2> QED
    BY <2>1
<1> QED
  BY <1>4 DEF Min

\* A thread that is spare after a step was so before.
LEMMA SpareWas ==
  ASSUME TypeOK, [Next]_vars, Spare'
  PROVE  Spare
<1>1. PICK t \in Threads : thread'[t] = "none"
  BY DEF Spare
<1>2. ASSUME NEW u \in Threads, LightThread(u)
      PROVE  thread[t] = "none"
  BY <1>1, <1>2 DEF LightThread, LoadCmd, LedMissing, Die, CallIoctl, InDriver, TypeOK
<1>3. CASE Spawn
  <2> DEFINE new == {u \in Threads : thread[u] = "none"}
  <2>1. CASE new = {}
    BY <1>1, <1>3, <2>1 DEF Spawn
  <2>2. CASE new # {}
    BY <2>2 DEF Spare
  <2> QED
    BY <2>1, <2>2
<1>4. CASE \/ Environment \/ ReadCommand \/ Drive \/ EndOfStream \/ BrokenPipe \/ Blink
           \/ UNCHANGED vars
  <2>1. thread' = thread
    BY <1>4 DEF Environment, ReadCommand, Drive, EndOfStream, BrokenPipe, Die, Blink, vars
  <2> QED
    BY <1>1, <2>1 DEF Spare
<1> QED
  BY <1>2, <1>3, <1>4 DEF Next, Main, Spare

\* Where a read of a patient driver's stream stands: at the start of the last
\* frame if that is not dispatched yet, inside it otherwise.
LEMMA ReadServesLast ==
  ASSUME TypeOK, SP!HandledArePassed, SP!OneAtATime, S!Read
  PROVE  LET n == Len(written)
         IN  /\ n \in handled'
             /\ S!ByteAt(taken) \in Buttons <=> n \notin handled
             /\ n \notin handled => S!ByteAt(taken) = written[n]
<1> DEFINE n == Len(written)
<1>0. /\ n \in Nat /\ DOMAIN written = 1 .. n
      /\ \A k \in 1 .. n : written[k] \in Buttons
      /\ taken \in Nat /\ arrived \in Nat /\ arrived <= 30 * n /\ taken < arrived
      /\ 30 * n - taken <= 30 /\ n > 0
      /\ handled \subseteq 1 .. n
  BY DEF TypeOK, S!TypeOK, S!Sent, SP!Sent, S!Read, S!Available, SP!OneAtATime, S!MAXLINE,
         SP!MAXLINE
<1>1. CASE taken = 30 * (n - 1)
  <2>1. taken % 30 = 0 /\ (taken \div 30) + 1 = n
    <3> HIDE DEF n
    <3>1. n \in Nat /\ n > 0
      BY <1>0
    <3> QED
      BY <1>1, <3>1
  <2>2. S!FrameOf(taken) = n
    BY <2>1, Zenon DEF S!FrameOf, S!MAXLINE
  <2>3. S!ByteAt(taken) = written[n]
    BY <2>1, <2>2, Zenon DEF S!ByteAt, S!MAXLINE
  <2>4. S!ByteAt(taken) \in Buttons
    BY <1>0, <2>3
  <2>5. handled' = handled \cup {n}
    BY <2>2, <2>4 DEF S!Read
  <2>6. n \notin handled
    BY <1>0, <1>1 DEF SP!HandledArePassed, SP!Passed, SP!MAXLINE
  <2> QED
    BY <2>3, <2>4, <2>5, <2>6
<1>2. CASE taken # 30 * (n - 1)
  <2>1. 30 * (n - 1) < taken /\ taken < 30 * n
    BY <1>0, <1>2
  <2>2. n \in handled
    BY <1>0, <2>1 DEF SP!OneAtATime, SP!Passed, SP!MAXLINE
  <2>3. taken % 30 # 0
    BY <1>0, <2>1
  <2>4. S!ByteAt(taken) \notin Buttons
    BY <2>3, PartAssumptions DEF S!ByteAt, S!MAXLINE
  <2>5. handled \subseteq handled'
    BY DEF S!Read
  <2> QED
    BY <2>2, <2>4, <2>5
<1> QED
  BY <1>1, <1>2

\* The steps that touch neither stream nor threads nor flag.
LEMMA LightsQuiet ==
  ASSUME LightsInv,
         UNCHANGED <<written, handled, up, pc, cmd, thread, arg, flag, manners>>,
         LightsDone => LightsDone'
  PROVE  LightsInv'
  BY DEF LightsInv, Spare, PressPending, PressServed

\* main reads: if the last press was pending it is served now.
LEMMA LightsRead ==
  ASSUME TypeOK, LightsInv, PatienceInv, SP!HandledArePassed, ReadCommand, UNCHANGED manners
  PROVE  LightsInv'
<1> SUFFICES ASSUME manners = "patient", Spare, written # <<>>
             PROVE  Len(written) \in handled' /\ PressServed'
  BY DEF LightsInv, Spare, ReadCommand, S!Read
<1> DEFINE n == Len(written)
<1>1. up /\ SP!OneAtATime
  BY DEF ReadCommand, S!Read, PatienceInv
<1>2. /\ n \in handled'
      /\ S!ByteAt(taken) \in Buttons <=> n \notin handled
      /\ n \notin handled => S!ByteAt(taken) = written[n]
  BY <1>1, ReadServesLast DEF ReadCommand
<1>3. written' = written /\ pc' # "reading" /\ UNCHANGED <<thread, arg>>
  BY DEF ReadCommand, S!Read
<1>4. CASE n \in handled
  <2>1. PressServed
    BY <1>1, <1>4 DEF LightsInv
  <2>2. cmd' = cmd
    BY <1>2, <1>4 DEF ReadCommand
  <2> QED
    BY <1>2, <1>3, <2>1, <2>2 DEF PressServed
<1>5. CASE n \notin handled
  <2>1. \A t \in Threads : thread[t] # "loaded"
    BY <1>1, <1>5 DEF LightsInv, PressPending, LightsDone
  <2>2. cmd' = CmdOf(written[n])
    BY <1>2, <1>5 DEF ReadCommand
  <2> QED
    BY <1>2, <1>3, <2>1, <2>2 DEF PressServed
<1> QED
  BY <1>4, <1>5

\* main makes a light thread, which is on its way from then on.
LEMMA LightsSpawn ==
  ASSUME TypeOK, LightsInv, Spawn, UNCHANGED manners, Spare
  PROVE  LightsInv'
<1> SUFFICES ASSUME manners = "patient", written # <<>>
             PROVE  Len(written) \in handled /\ PressServed'
  BY DEF LightsInv, Spawn, streamVars
<1> DEFINE new == {u \in Threads : thread[u] = "none"}
<1>1. Len(written) \in handled /\ PressServed
  BY DEF LightsInv, PressPending, Spawn
<1>2. PICK t \in Threads : t \in new /\ thread' = [thread EXCEPT ![t] = "started"]
  BY MinOfThreads DEF Spare, Spawn
<1>3. thread'[t] = "started" /\ \A u \in Threads \ {t} : thread'[u] = thread[u]
  BY <1>2 DEF TypeOK
<1> QED
  BY <1>1, <1>3 DEF PressServed, Spawn, streamVars

\* A light thread can load no other command than the last.
LEMMA LightsThread ==
  ASSUME TypeOK, LightsInv, NEW t \in Threads, LightThread(t), UNCHANGED manners, Spare
  PROVE  LightsInv'
<1>1. CASE LedMissing(t)
  BY <1>1 DEF LedMissing, Die, LightsInv
<1>2. CASE InDriver(t)
  <2>1. LightsDone => LightsDone'
    BY <1>2 DEF InDriver, L!Clear, LightsDone
  <2> QED
    BY <1>2, <2>1, LightsQuiet DEF InDriver, L!Clear, streamVars
<1>3. CASE LoadCmd(t) \/ CallIoctl(t)
  <2> SUFFICES ASSUME up, manners = "patient", written # <<>>
               PROVE  Len(written) \in handled /\ PressServed'
    BY <1>3 DEF LightsInv, LoadCmd, CallIoctl, streamVars
  <2>1. thread[t] \in {"started", "loaded"}
    BY <1>3 DEF LoadCmd, CallIoctl
  <2>2. Len(written) \in handled /\ PressServed
    BY <2>1 DEF LightsInv, PressPending, LightsDone
  <2>3. CASE LoadCmd(t)
    <3>1. /\ thread'[t] = "loaded" /\ arg'[t] = cmd
          /\ \A u \in Threads \ {t} : thread'[u] = thread[u] /\ arg'[u] = arg[u]
      BY <2>3 DEF LoadCmd, TypeOK
    <3> QED
      BY <2>2, <2>3, <3>1 DEF LoadCmd, PressServed, streamVars
  <2>4. CASE CallIoctl(t)
    <3>1. /\ flag' = LightOf(cmd)
          /\ thread'[t] = "called"
          /\ \A u \in Threads \ {t} : thread'[u] = thread[u]
      BY <2>2, <2>4 DEF CallIoctl, L!Ioctl, PressServed, TypeOK
    <3> QED
      BY <2>2, <2>4, <3>1 DEF CallIoctl, PressServed, streamVars
  <2> QED
    BY <1>3, <2>2, <2>3, <2>4
<1> QED
  BY <1>1, <1>2, <1>3 DEF LightThread

LEMMA LightsStep ==
  TypeOK /\ LightsInv /\ PatienceInv /\ SP!HandledArePassed /\ [Next]_vars => LightsInv'
<1> SUFFICES ASSUME TypeOK, LightsInv, PatienceInv, SP!HandledArePassed, [Next]_vars, Spare'
             PROVE  LightsInv'
  BY DEF LightsInv
<1>0. Spare
  BY SpareWas
<1>1. ASSUME NEW b \in Buttons, S!Press(b), Environment, Pressed
      PROVE  LightsInv'
  <2> SUFFICES ASSUME up', manners' = "patient"
               PROVE  Len(written') \notin handled' /\ PressPending'
    BY DEF LightsInv
  <2>1. up /\ pc = "reading" /\ LightsDone
    BY <1>1 DEF S!Press, Pressed, AtRest, Waiting
  <2>2. Len(written') = Len(written) + 1 /\ handled' = handled
    BY <1>1 DEF S!Press, TypeOK, S!TypeOK
  <2>3. Len(written') \notin handled'
    BY <2>2, HandledBounded
  <2> QED
    BY <1>1, <2>1, <2>3 DEF Environment, PressPending, LightsDone, lightVars
<1>2. CASE Environment /\ (S!Deliver \/ S!Hangup) /\ UNCHANGED manners
  BY <1>2, LightsQuiet DEF Environment, S!Deliver, S!Hangup, LightsDone, lightVars
<1>3. CASE /\ Environment
           /\ IF written' # written THEN Pressed ELSE UNCHANGED manners
  <2>1. ASSUME NEW b \in Buttons, S!Press(b)
        PROVE  written' # written
    BY <2>1 DEF S!Press, TypeOK, S!TypeOK
  <2>2. S!Deliver \/ S!Hangup => written' = written
    BY DEF S!Deliver, S!Hangup
  <2> QED
    BY <1>1, <1>2, <1>3, <2>1, <2>2 DEF Environment
<1>4. CASE Drive /\ UNCHANGED manners
  <2>1. CASE pc' = "driving"
    BY <1>4, <2>1, LightsQuiet DEF Drive, LightsDone, lightVars, streamVars
  <2>2. CASE pc' # "driving"
    BY <1>4, <2>2, <1>0
       DEF Drive, LightsInv, PressPending, PressServed, lightVars, streamVars
  <2> QED
    BY <2>1, <2>2
<1>5. CASE EndOfStream
  BY <1>5 DEF EndOfStream, S!ReadEnd, LightsInv
<1>6. CASE Blink /\ UNCHANGED manners
  BY <1>6, LightsQuiet DEF Blink, L!Timer, LightsDone, streamVars
<1>7. CASE UNCHANGED vars
  BY <1>7, LightsQuiet DEF vars, streamVars, lightVars, LightsDone
<1>8. CASE BrokenPipe
  BY <1>8 DEF BrokenPipe, Die, LightsInv
<1> QED
  BY <1>0, <1>3, <1>4, <1>5, <1>6, <1>7, <1>8, LightsRead, LightsSpawn, LightsThread
     DEF Next, Main

\* For a driver who waits for car and lights, and as long as pthread_create
\* can make threads, the light driver's flag is the one of the last press
\* whenever all is at rest: though every light thread reads cmd through a
\* pointer, at a time of its own (th_led.c), it cannot have read a stale one.
THEOREM LightsFollowTheirDriver == Spec => [](Spare => LightsFollowButtons)
<1>1. Init => PatienceInv /\ LightsInv
  BY DEF Init, S!Init, PatienceInv, SP!OneAtATime, SP!Sent, SP!MAXLINE, LightsInv
<1>2. TypeOK /\ PatienceInv /\ LightsInv => (Spare => LightsFollowButtons)
  <2> SUFFICES ASSUME TypeOK, PatienceInv, LightsInv, Spare, manners = "patient",
                      AtRest, up, written # <<>>
               PROVE  flag = LightOf(CmdOf(written[Len(written)]))
    BY DEF LightsFollowButtons, FlagOfLastPress
  <2>1. Waiting /\ LightsDone
    BY DEF AtRest
  <2>2. Len(written) \in DOMAIN written /\ SP!Passed(Len(written))
    BY <2>1 DEF TypeOK, S!TypeOK, Waiting, S!Drained, S!Sent, S!MAXLINE, SP!Passed, SP!MAXLINE
  <2>3. Len(written) \in handled
    BY <2>2 DEF PatienceInv, SP!OneAtATime
  <2> QED
    BY <2>1, <2>3 DEF LightsInv, PressServed, Waiting, LightsDone
<1> QED
  BY <1>1, <1>2, ObeyInit, PassedStep, PatienceStep, LightsStep, TypeInit, TypeStep, PTL
     DEF Spec


-----------------------------------------------------------------------------
(* What the parts promise, the whole server keeps. *)

\* Inside the server, with other threads that may end it at any step, the
\* motor's code still carries out each command of the car whole or not at all.
THEOREM ServerDrivesTheCar == Spec => MP!DrivesTheCar
<1>1. Init => MP!C!Init
  BY MP!CarInit, PartAssumptions DEF Init, M!Init, MP!Init, M!Pins, MP!Pins
<1>2. TypeOK /\ [Next]_vars => [MP!C!Next]_(MP!C!vars)
  BY MotorSteps, MotorTypes, MP!CarStep, PartAssumptions DEF TypeOK
<1> QED
  BY <1>1, <1>2, TypeInit, TypeStep, PTL DEF Spec, MP!DrivesTheCar, MP!C!Spec

\* The commands the server dispatches are presses, in order, none twice, until
\* it ends, of itself or by another thread.
THEOREM ServerKeepsTheOrder == Spec => SP!InOrderAtMostOnce
<1>1. Init => SP!RC!Init /\ SP!HandledArePassed
  BY ObeyInit DEF Init, S!Init, SP!RC!Init
<1>2. TypeOK /\ SP!HandledArePassed /\ [Next]_vars => [SP!RC!Next]_(SP!RC!vars)
  <2> SUFFICES ASSUME TypeOK, SP!HandledArePassed, [Next]_vars
               PROVE  [SP!RC!Next]_(SP!RC!vars)
    OBVIOUS
  <2>1. CASE [SP!Next]_(SP!vars)
    BY <2>1, SP!RemoteStep, StreamTypes, PartAssumptions DEF TypeOK
  <2>2. CASE up' = FALSE /\ UNCHANGED <<written, arrived, taken, handled, current, count, open>>
    BY <2>2 DEF SP!RC!vars
  <2> QED
    BY <2>1, <2>2, StreamSteps
<1> QED
  BY <1>1, <1>2, TypeInit, TypeStep, PassedStep, PTL
     DEF Spec, SP!InOrderAtMostOnce, SP!RC!Spec

\* With any number of light threads that the server has started: when none is
\* in its ioctl, only the light the flag selects may be on.
THEOREM ServerLightsFollowFlag == Spec => []LP!LightsFollowFlag
<1>1. Init => LP!LightsAccountedFor
  BY DEF Init, L!Init, L!Pins, LP!LightsAccountedFor, LP!Pins
<1>2. TypeOK /\ LP!LightsAccountedFor /\ [Next]_vars => LP!LightsAccountedFor'
  BY LightSteps, LightTypes, LP!AccountStep DEF TypeOK
<1>3. LP!LightsAccountedFor => LP!LightsFollowFlag
  BY DEF LP!LightsAccountedFor, LP!LightsFollowFlag, LP!Quiet
<1> QED
  BY <1>1, <1>2, <1>3, TypeInit, TypeStep, PTL DEF Spec
=============================================================================
