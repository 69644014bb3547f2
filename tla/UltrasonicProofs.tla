-------------------------- MODULE UltrasonicProofs --------------------------
(***************************************************************************)
(* Proofs about Ultrasonic: clocks of any width, echoes of any length      *)
(* below half of it, any history of edges, delays, opens and releases.     *)
(***************************************************************************)
EXTENDS Ultrasonic, TLAPS

-----------------------------------------------------------------------------
(* Arithmetic modulo the width of the clock. *)

LEMMA SmallRemainder ==
  ASSUME NEW w \in Nat, w > 0, NEW a \in Int
  PROVE  /\ a % w \in 0 .. w - 1
         /\ 0 <= a /\ a < w => a % w = a
         /\ -w <= a /\ a < 0 => a % w = a + w
         /\ w % w = 0
  BY SMT

\* Time since the last stamp, as the clock shows it.
Since == (now - before) % Wrap

\* The clock wraps, the difference does not.
LEMMA SinceTicks ==
  ASSUME NEW n \in 0 .. Wrap - 1, NEW b \in 0 .. Wrap - 1,
         ((n - b) % Wrap) + 1 < Wrap
  PROVE  (((n + 1) % Wrap) - b) % Wrap = ((n - b) % Wrap) + 1
<1>1. Wrap \in Nat /\ Wrap > 0
  BY ClockAssumption
<1>2. (n + 1) % Wrap = IF n + 1 = Wrap THEN 0 ELSE n + 1
  BY <1>1, SmallRemainder
<1>3. (n - b) % Wrap = IF n >= b THEN n - b ELSE n - b + Wrap
  BY <1>1, SmallRemainder
<1>4. CASE n + 1 = Wrap
  <2>1. n - b + 1 < Wrap
    BY <1>1, <1>3, <1>4
  <2>2. (0 - b) % Wrap = IF b = 0 THEN 0 ELSE Wrap - b
    BY <1>1, SmallRemainder
  <2> QED
    BY <1>1, <1>2, <1>3, <1>4, <2>1, <2>2
<1>5. CASE n + 1 # Wrap
  <2>1. (n + 1 - b) % Wrap = IF n + 1 >= b THEN n + 1 - b ELSE n + 1 - b + Wrap
    BY <1>1, <1>5, SmallRemainder
  <2> QED
    BY <1>1, <1>2, <1>3, <1>5, <2>1
<1> QED
  BY <1>4, <1>5

-----------------------------------------------------------------------------
(* Type correctness. *)

LEMMA CountRange == \A n \in 0 .. CountCap : Count(n) \in 0 .. CountCap
  BY CapAssumption DEF Count

LEMMA TypeInit == Init => TypeOK
<1> SUFFICES ASSUME Init PROVE TypeOK
  OBVIOUS
<1>1. /\ near \in BOOLEAN /\ latched \in BOOLEAN /\ running \in BOOLEAN
      /\ isOpen \in BOOLEAN /\ farEcho \in BOOLEAN /\ ~running /\ ~isOpen
  BY DEF Init
<1>2. /\ level \in {0, 1} /\ age \in 0 .. MaxEcho /\ delay \in 0 .. MaxDelay
      /\ now \in 0 .. Wrap - 1 /\ before \in 0 .. Wrap - 1
  BY ClockAssumption DEF Init
<1>3. cnt \in 0 .. CountCap /\ doubt \in 0 .. CountCap /\ timers \in 0 .. MaxOpens
  BY CapAssumption, OpensAssumption DEF Init
<1> QED
  BY <1>1, <1>2, <1>3 DEF TypeOK

\* What the world does between two steps of the handler.
LEMMA MeanwhileRange == TypeOK /\ Meanwhile => delay' \in 0 .. MaxDelay
  BY ClockAssumption DEF TypeOK, Meanwhile

LEMMA TypeWorld == TypeOK /\ (Rise \/ Fall \/ Tick \/ Move) => TypeOK'
<1> SUFFICES ASSUME TypeOK, Rise \/ Fall \/ Tick \/ Move
             PROVE  TypeOK'
  OBVIOUS
<1>1. delay' \in 0 .. MaxDelay
  BY MeanwhileRange DEF Rise, Fall, Tick, Move, TypeOK
<1>2. now' \in 0 .. Wrap - 1
  BY ClockAssumption, SmallRemainder DEF Rise, Fall, Tick, Move, TypeOK
<1>3. level' \in {0, 1} /\ age' \in 0 .. MaxEcho
  BY ClockAssumption DEF Rise, Fall, Tick, Move, TypeOK
<1>4. near' \in BOOLEAN /\ latched' \in BOOLEAN
  BY DEF Rise, Fall, Tick, Move, TypeOK
<1>5. UNCHANGED <<running, before, cnt, timers, isOpen, farEcho, doubt>>
  BY DEF Rise, Fall, Tick, Move
<1> QED
  BY <1>1, <1>2, <1>3, <1>4, <1>5 DEF TypeOK

LEMMA TypeDriver == TypeOK /\ (Open \/ Release \/ Handler) => TypeOK'
<1> SUFFICES ASSUME TypeOK, Open \/ Release \/ Handler
             PROVE  TypeOK'
  OBVIOUS
<1>1. CASE Open
  <2>1. timers' \in 0 .. MaxOpens /\ timers' > 0
    BY <1>1, OpensAssumption DEF Open, TypeOK
  <2>2. isOpen' = TRUE
    BY <1>1 DEF Open
  <2>3. UNCHANGED <<near, level, age, latched, running, delay, now, before,
                    cnt, farEcho, doubt>>
    BY <1>1 DEF Open
  <2> QED
    BY <2>1, <2>2, <2>3 DEF TypeOK
<1>2. CASE Release
  <2>1. delay' \in 0 .. MaxDelay
    BY <1>2, ClockAssumption DEF Release
  <2>2. isOpen' = FALSE /\ farEcho' = FALSE /\ ~running
    BY <1>2 DEF Release
  <2>3. UNCHANGED <<near, level, age, latched, running, now, before, cnt,
                    timers, doubt>>
    BY <1>2 DEF Release
  <2> QED
    BY <2>1, <2>2, <2>3 DEF TypeOK
<1>3. CASE Enter
  BY <1>3 DEF Enter, TypeOK
<1>4. CASE HandleLow
  <2>1. cnt' \in 0 .. CountCap /\ doubt' \in 0 .. CountCap
    BY <1>4, CountRange, CapAssumption DEF HandleLow, TypeOK
  <2>2. before' \in 0 .. Wrap - 1 /\ delay' \in 0 .. MaxDelay
    BY <1>4, ClockAssumption DEF HandleLow
  <2>3. farEcho' = FALSE /\ running' = FALSE
    BY <1>4 DEF HandleLow
  <2>4. UNCHANGED <<near, level, age, latched, now, timers, isOpen>>
    BY <1>4 DEF HandleLow
  <2> QED
    BY <2>1, <2>2, <2>3, <2>4 DEF TypeOK
<1>5. CASE HandleHigh
  <2>1. before' \in 0 .. Wrap - 1 /\ delay' \in 0 .. MaxDelay
    BY <1>5, ClockAssumption DEF HandleHigh, TypeOK
  <2>2. farEcho' \in BOOLEAN /\ running' = FALSE
    BY <1>5 DEF HandleHigh
  <2>3. UNCHANGED <<near, level, age, latched, now, cnt, timers, isOpen, doubt>>
    BY <1>5 DEF HandleHigh
  <2> QED
    BY <2>1, <2>2, <2>3 DEF TypeOK
<1> QED
  BY <1>1, <1>2, <1>3, <1>4, <1>5 DEF Handler

LEMMA TypeStep == TypeOK /\ [Next]_vars => TypeOK'
<1>1. TypeOK /\ UNCHANGED vars => TypeOK'
  BY DEF TypeOK, vars
<1> QED
  BY <1>1, TypeWorld, TypeDriver DEF Next, Handler

\* The time stamps are stamps of the clock, and no handler runs once
\* ultrasonic_release has freed the interrupt.
THEOREM TypeCorrect == Spec => []TypeOK
  BY TypeInit, TypeStep, PTL DEF Spec

-----------------------------------------------------------------------------
(* A far echo, stamped in time, ends the series. *)

\* The stamp of a far echo: as long as the pin has been high since, it is as
\* old as the echo; afterwards the handler is due, and the stamp is as old as
\* a far echo, the delay included.
FarStamp == /\ isOpen
            /\ \/ level = 1 /\ ~near /\ Since = age
               \/ Due /\ Near <= Since /\ Since <= MaxEcho + delay

FarInv == farEcho => FarStamp

LEMMA FarStep == TypeOK /\ FarInv /\ [Next]_vars => FarInv'
<1> SUFFICES ASSUME TypeOK, FarInv, [Next]_vars, farEcho'
             PROVE  FarStamp'
  BY DEF FarInv
<1>0. /\ Wrap \in Nat /\ Near \in Nat /\ MaxEcho \in Nat /\ MaxDelay \in Nat
      /\ MaxEcho + MaxDelay + 1 < Wrap
  BY ClockAssumption
<1>t. /\ now \in 0 .. Wrap - 1 /\ before \in 0 .. Wrap - 1
      /\ age \in 0 .. MaxEcho /\ delay \in 0 .. MaxDelay
  BY DEF TypeOK
<1>s. Since \in Int
  BY <1>0, <1>t, SmallRemainder DEF Since
<1>1. CASE Rise
  <2>1. farEcho /\ level = 0
    BY <1>1 DEF Rise
  <2>2. isOpen /\ Due /\ Near <= Since /\ Since <= MaxEcho + delay
    BY <2>1 DEF FarInv, FarStamp
  <2>3. delay' = delay + 1 /\ Due' /\ isOpen' /\ Since' = Since
    BY <1>1, <2>2 DEF Rise, Meanwhile, Due, Since
  <2> QED
    BY <1>0, <1>t, <1>s, <2>2, <2>3 DEF FarStamp
<1>2. CASE Fall
  <2>1. farEcho /\ isOpen
    BY <1>2 DEF Fall, FarInv, FarStamp
  <2>2. /\ Due' /\ isOpen' /\ Since' = Since
        /\ delay' = delay \/ delay' = delay + 1
    BY <1>2, <1>t, <2>1 DEF Fall, Meanwhile, Due, Since
  <2>3. ~near => age >= Near
    BY <1>2 DEF Fall
  <2>4. \/ Since = age /\ age >= Near
        \/ Near <= Since /\ Since <= MaxEcho + delay
    BY <2>1, <2>3 DEF FarInv, FarStamp
  <2>5. Near <= Since /\ Since <= MaxEcho + delay /\ delay \in Nat
    BY <1>0, <1>t, <1>s, <2>4
  <2> QED
    BY <1>0, <1>s, <2>2, <2>5 DEF FarStamp
<1>3. CASE Tick
  <2>1. farEcho /\ isOpen /\ isOpen' /\ level' = level /\ near' = near
    BY <1>3 DEF Tick, FarInv, FarStamp
  <2>2. Since < Wrap - 1
    BY <1>0, <1>t, <1>s, <2>1 DEF FarInv, FarStamp
  <2>3. Since' = Since + 1
    BY <1>3, <1>t, <1>0, <1>s, <2>2, SinceTicks DEF Tick, Since
  <2>4. CASE level = 1 /\ ~near /\ Since = age
    BY <1>3, <2>1, <2>3, <2>4 DEF Tick, FarStamp
  <2>5. CASE Due /\ Near <= Since /\ Since <= MaxEcho + delay
    <3>1. delay' = delay + 1 /\ Due'
      BY <1>3, <2>5 DEF Tick, Meanwhile, Due
    <3> QED
      BY <1>0, <1>t, <1>s, <2>1, <2>3, <2>5, <3>1 DEF FarStamp
  <2> QED
    BY <2>1, <2>4, <2>5 DEF FarInv, FarStamp
<1>4. CASE Move
  BY <1>4 DEF Move, FarInv, FarStamp, Due, Since
<1>5. CASE Open \/ Release
  BY <1>5 DEF Open, Release, FarInv, FarStamp
<1>6. CASE Enter
  BY <1>6 DEF Enter, FarInv, FarStamp, Due, Since
<1>7. CASE HandleLow
  BY <1>7 DEF HandleLow
<1>8. CASE HandleHigh
  <2>1. level' = 1 /\ ~near' /\ age' = 0 /\ isOpen'
    BY <1>8 DEF HandleHigh, TypeOK
  <2>2. now' = now /\ before' = now
    BY <1>8 DEF HandleHigh
  <2>3. Since' = 0
    BY <1>0, <1>t, <2>2, SmallRemainder DEF Since
  <2> QED
    BY <2>1, <2>3 DEF FarStamp
<1>9. CASE UNCHANGED vars
  BY <1>9 DEF vars, FarInv, FarStamp, Due, Since
<1> QED
  BY <1>1, <1>2, <1>3, <1>4, <1>5, <1>6, <1>7, <1>8, <1>9 DEF Next

\* The handler measures such an echo as far, wherever the clock has wrapped.
LEMMA FarIsMeasured ==
  ASSUME TypeOK, FarInv, farEcho, level = 0
  PROVE  ~(Elapsed(now, before) < Near)
<1>1. Near <= Since /\ Since <= MaxEcho + delay
  BY DEF FarInv, FarStamp
<1>2. delay <= MaxDelay /\ delay \in Int
  BY ClockAssumption DEF TypeOK
<1>3. Since \in Int
  BY SmallRemainder, ClockAssumption DEF Since, TypeOK
<1>4. Since < Wrap \div 2
  BY <1>1, <1>2, <1>3, ClockAssumption
<1>5. Wrap \div 2 \in Int
  BY ClockAssumption
<1> QED
  BY <1>1, <1>3, <1>4, <1>5, ClockAssumption DEF Elapsed, Since

LEMMA DoubtStep == TypeOK /\ FarInv /\ CountsOnlyDoubt /\ [Next]_vars
                      => CountsOnlyDoubt'
<1> SUFFICES ASSUME TypeOK, FarInv, CountsOnlyDoubt, [Next]_vars
             PROVE  CountsOnlyDoubt'
  OBVIOUS
<1>1. CASE HandleLow
  <2>1. CASE farEcho
    BY <1>1, <2>1, FarIsMeasured DEF HandleLow, CountsOnlyDoubt
  <2>2. CASE ~farEcho
    BY <1>1, <2>2, CapAssumption DEF HandleLow, CountsOnlyDoubt, Count, TypeOK
  <2> QED
    BY <2>1, <2>2
<1>2. CASE Rise \/ Fall \/ Tick \/ Move
  BY <1>2 DEF Rise, Fall, Tick, Move, CountsOnlyDoubt
<1>3. CASE Open \/ Release \/ Enter \/ HandleHigh \/ UNCHANGED vars
  BY <1>3 DEF Open, Release, Enter, HandleHigh, vars, CountsOnlyDoubt
<1> QED
  BY <1>1, <1>2, <1>3 DEF Next

\* ultra_echo_rising never carries a count over a far echo whose rising edge
\* it stamped at once, whatever the clock, the delays and the opens are.
THEOREM FarEchoEndsSeries == Spec => []CountsOnlyDoubt
<1>1. Init => FarInv /\ CountsOnlyDoubt
  BY DEF Init, FarInv, CountsOnlyDoubt
<1> QED
  BY <1>1, TypeInit, TypeStep, FarStep, DoubtStep, PTL DEF Spec
=============================================================================
