----------------------------- MODULE Ultrasonic -----------------------------
(***************************************************************************)
(* The obstacle sensor of the car: the driver ultrasonic.c, the sensor and *)
(* its interrupt line.  Timers of the driver trigger the sensor; the echo  *)
(* pin is high as long as sound takes to the object and back; the handler  *)
(* stamps both edges and counts the near echoes.                           *)
(*                                                                         *)
(* The handler looks at the level of the pin, not at the edge, and the     *)
(* interrupt line remembers one edge only: while interrupts are off for as *)
(* long as an echo lasts, its two edges are one interrupt.                 *)
(***************************************************************************)
EXTENDS Integers

CONSTANTS Wrap,       \* 32-bit microseconds: what the clock is computed modulo
          Near,       \* an echo shorter than this is near (15 cm * 58 us)
          MaxEcho,    \* the longest echo
          MaxDelay,   \* bound on what happens before a due handler runs
          MaxOpens,   \* bound on the number of opens
          CountCap    \* where the model stops counting near echoes

ULTRA_AFTER == 5      \* near echoes it takes more than to report

ASSUME ClockAssumption == /\ {Wrap, Near, MaxEcho, MaxDelay} \subseteq Nat
                          /\ 0 < Near /\ Near <= MaxEcho
                          /\ MaxEcho + MaxDelay < Wrap \div 2
ASSUME CapAssumption == CountCap \in Nat /\ CountCap > ULTRA_AFTER
ASSUME OpensAssumption == MaxOpens \in Nat

VARIABLES near,       \* the object ahead is near
          level,      \* the echo pin
          age,        \* how long it has been high
          latched,    \* an edge waits on the interrupt line
          running,    \* the handler has been entered and not yet read the pin
          delay,      \* what has happened since it became due
          now,        \* the clock
          before,     \* the time stamp of the rising edge; 0 is none
          cnt,        \* ultra_cnt
          timers,     \* kernel timers armed; no one ever stops them
          isOpen,     \* the device is open
          farEcho,    \* history: the rising edge of a far echo was stamped at once
          doubt       \* history: falling edges handled since the last such echo

vars == <<near, level, age, latched, running, delay, now, before, cnt, timers,
          isOpen, farEcho, doubt>>

TypeOK == /\ near \in BOOLEAN /\ latched \in BOOLEAN /\ running \in BOOLEAN
          /\ isOpen \in BOOLEAN /\ farEcho \in BOOLEAN
          /\ level \in {0, 1}
          /\ age \in 0 .. MaxEcho
          /\ delay \in 0 .. MaxDelay
          /\ now \in 0 .. Wrap - 1
          /\ before \in 0 .. Wrap - 1
          /\ cnt \in 0 .. CountCap
          /\ doubt \in 0 .. CountCap
          /\ timers \in 0 .. MaxOpens
          /\ running => isOpen
          /\ isOpen => timers > 0

Init == /\ near \in BOOLEAN
        /\ level = 0
        /\ age = 0
        /\ latched = FALSE
        /\ running = FALSE
        /\ delay = 0
        /\ now \in 0 .. Wrap - 1
        /\ before = 0
        /\ cnt = 0
        /\ timers = 0
        /\ isOpen = FALSE
        /\ farEcho = FALSE
        /\ doubt = 0

-----------------------------------------------------------------------------
(* The sensor, the object, the clock. *)

\* The handler is due: an edge waits for it or it has just been entered.
Due == isOpen /\ (latched \/ running)

\* The world goes on before the handler does, but not for ever.
Meanwhile == IF Due THEN delay < MaxDelay /\ delay' = delay + 1
                    ELSE delay' = delay

\* A faulty variant: the timer does not register itself again.
Rise_OneShot == /\ timers > 0
                /\ level = 0
                /\ level' = 1
                /\ age' = 0
                /\ latched' = TRUE
                /\ Meanwhile
                /\ timers' = timers - 1
                /\ UNCHANGED <<near, running, now, before, cnt, isOpen, farEcho, doubt>>
\* A timer runs out and registers itself again; its pulse makes an idle sensor
\* begin an echo.  During an echo the sensor ignores the pulse.
Rise == /\ timers > 0
        /\ level = 0
        /\ level' = 1
        /\ age' = 0
        /\ latched' = TRUE
        /\ Meanwhile
        /\ UNCHANGED <<near, running, now, before, cnt, timers, isOpen, farEcho, doubt>>

\* The echo ends: the line latches the edge whether or not someone listens.
Fall == /\ level = 1
        /\ IF near THEN age \in 1 .. Near - 1 ELSE age >= Near
        /\ level' = 0
        /\ age' = 0
        /\ latched' = TRUE
        /\ Meanwhile
        /\ UNCHANGED <<near, running, now, before, cnt, timers, isOpen, farEcho, doubt>>

Tick == /\ IF level = 1 THEN /\ age < IF near THEN Near - 1 ELSE MaxEcho
                             /\ age' = age + 1
                        ELSE age' = age
        /\ now' = (now + 1) % Wrap
        /\ Meanwhile
        /\ UNCHANGED <<near, level, latched, running, before, cnt, timers,
                       isOpen, farEcho, doubt>>

\* The object moves between two echoes.
Move == /\ level = 0
        /\ near' = ~near
        /\ UNCHANGED <<level, age, latched, running, delay, now, before, cnt,
                       timers, isOpen, farEcho, doubt>>

-----------------------------------------------------------------------------
(* The driver. *)

\* ultrasonic_open: another timer, whatever earlier opens have left running,
\* and the counter as they left it.
Open == /\ ~isOpen
        /\ timers < MaxOpens
        /\ timers' = timers + 1
        /\ isOpen' = TRUE
        /\ UNCHANGED <<near, level, age, latched, running, delay, now, before,
                       cnt, farEcho, doubt>>

\* A faulty variant: the interrupt is freed under a running handler.
Release_NoSync == /\ isOpen
                  /\ isOpen' = FALSE
                  /\ delay' = 0
                  /\ farEcho' = FALSE
                  /\ UNCHANGED <<near, level, age, latched, running, now, before,
                                 cnt, timers, doubt>>
\* ultrasonic_release: free_irq, which waits for the handler; nothing else.
Release == /\ isOpen
           /\ ~running
           /\ isOpen' = FALSE
           /\ delay' = 0
           /\ farEcho' = FALSE
           /\ UNCHANGED <<near, level, age, latched, running, now, before, cnt,
                          timers, doubt>>

\* The kernel takes the edge off the line and enters the handler.
Enter == /\ isOpen
         /\ latched
         /\ ~running
         /\ latched' = FALSE
         /\ running' = TRUE
         /\ UNCHANGED <<near, level, age, delay, now, before, cnt, timers,
                        isOpen, farEcho, doubt>>

\* A faulty variant: the seconds are left out, the clock starts again at 0 in
\* the middle of an echo.
Elapsed_NoCarry(t, s) == t - s
\* after - before in a 32-bit long.
Elapsed(t, s) == LET d == (t - s) % Wrap
                 IN  IF d >= Wrap \div 2 THEN d - Wrap ELSE d

Count(n) == IF n < CountCap THEN n + 1 ELSE n

\* A faulty variant: a far echo does not end the series.
HandleLow_NoReset == /\ running
                     /\ level = 0
                     /\ cnt' = IF Elapsed(now, before) < Near THEN Count(cnt) ELSE cnt
                     /\ before' = 0
                     /\ doubt' = IF farEcho THEN 0 ELSE Count(doubt)
                     /\ farEcho' = FALSE
                     /\ running' = FALSE
                     /\ delay' = 0
                     /\ UNCHANGED <<near, level, age, latched, now, timers, isOpen>>
\* The handler finds the pin low: it takes the time since the last stamp,
\* even if there is none, for the length of an echo.
HandleLow == /\ running
             /\ level = 0
             /\ cnt' = IF Elapsed(now, before) < Near THEN Count(cnt) ELSE 0
             /\ before' = 0
             /\ doubt' = IF farEcho THEN 0 ELSE Count(doubt)
             /\ farEcho' = FALSE
             /\ running' = FALSE
             /\ delay' = 0
             /\ UNCHANGED <<near, level, age, latched, now, timers, isOpen>>

\* It finds the pin high: a time stamp.
HandleHigh == /\ running
              /\ level = 1
              /\ before' = now
              /\ farEcho' = (age = 0 /\ ~near)
              /\ running' = FALSE
              /\ delay' = 0
              /\ UNCHANGED <<near, level, age, latched, now, cnt, timers, isOpen, doubt>>

Handler == Enter \/ HandleLow \/ HandleHigh

\* What ultrasonic_read gives its caller.
Reports == cnt > ULTRA_AFTER

Next == \/ Rise \/ Fall \/ Tick \/ Move
        \/ Open \/ Release
        \/ Enter \/ HandleLow \/ HandleHigh

\* Time passes, sound comes back, timers run out, interrupts are served.
Fairness == WF_vars(Tick) /\ WF_vars(Fall) /\ WF_vars(Rise) /\ WF_vars(Handler)

Spec == Init /\ [][Next]_vars /\ Fairness

-----------------------------------------------------------------------------

\* A near echo is only ever counted on top of echoes in doubt: once a far echo
\* whose rising edge was stamped at once has been handled, everything counted
\* before it is gone, however late its falling edge was handled, wherever the
\* clock wraps and whoever opened the device in between.
CountsOnlyDoubt == cnt <= doubt

\* From some time on nothing happens before a due handler has run.
Prompt == isOpen /\ delay = 0

\* Slide 24: an object within 15 cm is detected.  If it stays, the device stays
\* open and interrupts are served in time, it is reported in the end and
\* for good, after any history of late interrupts, opens and releases.
NearIsReported == <>[](Prompt /\ near) => <>[]Reports

\* In the same way an object that has gone is no longer reported.
FarIsForgotten == <>[](Prompt /\ ~near) => <>[]~Reports
=============================================================================
