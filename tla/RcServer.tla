------------------------------ MODULE RcServer ------------------------------
(***************************************************************************)
(* The server process: its main thread (rc_server.c) reads commands, calls *)
(* moter_func and starts a light thread (th_led.c) after every read.  The  *)
(* module composes CommandStream, Motor and LedDriver and adds what lies   *)
(* between them: the variable cmd, which main assigns and every light      *)
(* thread reads through the same pointer, and the threads, which nobody    *)
(* joins or detaches, so that their number is used up for good.            *)
(***************************************************************************)
EXTENDS Integers, Sequences, FiniteSetsExt

CONSTANTS Buttons,      \* the buttons pressed, a subset of "1" .. "5"
          MaxPresses,   \* bound on the number of presses
          Grain,        \* segmentation of the stream
          MaxThreads,   \* light threads pthread_create can make in all
          LedLoaded     \* whether led.ko is loaded: the possibilities

Nul       == "0"
NoCommand == "none"
Threads   == 1 .. MaxThreads

ASSUME ButtonsAssumption == Buttons \subseteq {"1", "2", "3", "4", "5"}
ASSUME LedLoadedAssumption == LedLoaded \subseteq BOOLEAN
ASSUME BoundsAssumption == /\ MaxPresses \in Nat /\ MaxThreads \in Nat
                           /\ Grain \in 1 .. 30 /\ 30 % Grain = 0

VARIABLES written, arrived, taken, handled, current, count, open, up,          \* stream
          at, order, step, held, oops, pin,                             \* motor
          flag, hilo, ledpin, todo,                                     \* lights
          pc,       \* where main is: "reading", "driving", "spawning"
          cmd,      \* main's variable cmd
          thread,   \* state of each light thread
          arg,      \* the command a light thread has loaded
          loaded,   \* led.ko is loaded; never changes
          manners   \* history: how the driver has pressed, see Pressed

streamVars == <<written, arrived, taken, handled, current, count, open, up>>
motorVars  == <<at, order, step, held, oops, pin>>
lightVars  == <<flag, hilo, ledpin, todo>>
vars       == <<streamVars, motorVars, lightVars, pc, cmd, thread, arg, loaded, manners>>

S == INSTANCE CommandStream WITH Commands <- Buttons, paced <- TRUE, whole <- TRUE
M == INSTANCE Motor
L == INSTANCE LedDriver WITH pin <- ledpin

\* The switch of main: what a command byte makes of cmd, ...
CmdOf(b) == CASE b = "3" -> 5 [] b = "4" -> 6 [] OTHER -> 0
\* ... and the order it passes to moter_func (1, 8, 5, 6, 7 in pwm_dev.h).
\* A faulty variant: back and stop the wrong way round.
OrderOf_BackStops(b) == CASE b = "1" -> "FRONT" [] b = "2" -> "STOP"
                          [] b = "3" -> "LEFT"  [] b = "4" -> "RIGHT"
                          [] b = "5" -> "BACK"
OrderOf(b) == CASE b = "1" -> "FRONT" [] b = "2" -> "BACK"
                [] b = "3" -> "LEFT"  [] b = "4" -> "RIGHT"
                [] b = "5" -> "STOP"
\* The switch of led_func.
LightOf(c) == IF c \in {5, 6} THEN c ELSE 1

TypeOK == /\ S!TypeOK
          /\ M!TypeOK
          /\ L!TypeOK
          /\ pc \in {"reading", "driving", "spawning"}
          /\ cmd \in {0, 5, 6}
          /\ thread \in [Threads -> {"none", "started", "loaded", "called"}]
          /\ arg \in [Threads -> {0, 5, 6}]
          /\ loaded \in LedLoaded
          /\ at # "out" => pc = "driving"
          /\ manners \in {"patient", "hurried", "hasty"}

Init == /\ S!Init
        /\ M!Init
        /\ L!Init
        /\ pc = "reading"
        /\ cmd = 0
        /\ thread = [t \in Threads |-> "none"]
        /\ arg = [t \in Threads |-> 0]
        /\ loaded \in LedLoaded
        /\ manners = "patient"

\* The client and the network.
Environment == /\ \/ \E b \in Buttons : S!Press(b)
                  \/ S!Deliver
                  \/ S!Hangup
               /\ UNCHANGED <<motorVars, lightVars, pc, cmd, thread, arg, loaded>>

\* A faulty variant: cmd keeps its value on FRONT, BACK and STOP.
ReadCommand_KeepsCmd ==
    /\ pc = "reading"
    /\ S!Read
    /\ LET b == S!ByteAt(taken)
       IN  IF b \in Buttons
              THEN /\ cmd' = IF b \in {"3", "4"} THEN CmdOf(b) ELSE cmd
                   /\ M!Open(OrderOf(b))
                   /\ pc' = "driving"
              ELSE /\ pc' = "spawning"
                   /\ UNCHANGED <<motorVars, cmd>>
    /\ UNCHANGED <<lightVars, thread, arg, loaded>>

\* read returns bytes: main assigns cmd and enters moter_func, or finds no
\* command in buff[0].
ReadCommand ==
    /\ pc = "reading"
    /\ S!Read
    /\ LET b == S!ByteAt(taken)
       IN  IF b \in Buttons
              THEN /\ cmd' = CmdOf(b)
                   /\ M!Open(OrderOf(b))
                   /\ pc' = "driving"
              ELSE /\ pc' = "spawning"
                   /\ UNCHANGED <<motorVars, cmd>>
    /\ UNCHANGED <<lightVars, thread, arg, loaded>>

\* A faulty variant: moter_func returns without closing the device.
Drive_NoClose == /\ up
                 /\ pc = "driving"
                 /\ \/ (M!Configure \/ M!Write \/ M!Enable) /\ UNCHANGED pc
                    \/ at = "close" /\ pc' = "spawning" /\ UNCHANGED motorVars
                 /\ UNCHANGED <<streamVars, lightVars, cmd, thread, arg, loaded>>
\* A faulty variant: it asks again until the ioctl returns something else than 0,
\* which pwm_ioctl never does.
Drive_AsksAgain == /\ up
                   /\ pc = "driving"
                   /\ \/ M!Configure \/ M!Write
                      \/ /\ at = "order" /\ step = M!Writes(order)
                         /\ step' = 0
                         /\ UNCHANGED <<at, order, held, oops, pin>>
                   /\ UNCHANGED <<streamVars, lightVars, pc, cmd, thread, arg, loaded>>
\* moter_func goes on; when it has closed the device it returns.
Drive == /\ up
         /\ pc = "driving"
         /\ \/ (M!Configure \/ M!Write \/ M!Enable) /\ UNCHANGED pc
            \/ M!Close /\ pc' = "spawning"
         /\ UNCHANGED <<streamVars, lightVars, cmd, thread, arg, loaded>>

\* pthread_create, whose result main ignores: the next thread, if there can
\* be another one.
Spawn == /\ up
         /\ pc = "spawning"
         /\ LET new == {t \in Threads : thread[t] = "none"}
            IN  thread' = IF new = {} THEN thread
                          ELSE [thread EXCEPT ![Min(new)] = "started"]
         /\ pc' = "reading"
         /\ UNCHANGED <<streamVars, motorVars, lightVars, cmd, arg, loaded>>

\* read finds the connection closed and main calls exit.
EndOfStream == /\ pc = "reading"
               /\ S!ReadEnd
               /\ UNCHANGED <<motorVars, lightVars, pc, cmd, thread, arg, loaded>>

Main == ReadCommand \/ Drive \/ Spawn \/ EndOfStream

\* A light thread opens /dev/LED and then loads *cmd, whatever main has made
\* of it since it created the thread.
LoadCmd(t) == /\ up
              /\ thread[t] = "started"
              /\ loaded
              /\ thread' = [thread EXCEPT ![t] = "loaded"]
              /\ arg' = [arg EXCEPT ![t] = cmd]
              /\ UNCHANGED <<streamVars, motorVars, lightVars, pc, cmd, loaded>>

\* Another thread than main ends the process, main completing the ioctl it may be in.
Die == /\ up
       /\ up' = FALSE
       /\ IF at # "out" THEN M!Exit ELSE UNCHANGED motorVars
       /\ pc' = "reading"
       /\ UNCHANGED <<written, arrived, taken, handled, current, count, open,
                      lightVars, cmd, thread, arg, loaded>>

\* Without led.ko the open fails and the light thread calls exit.
LedMissing(t) == /\ thread[t] = "started"
                 /\ ~loaded
                 /\ Die

\* When the client has gone, a write of the obstacle thread is answered by a reset,
\* and the next one by SIGPIPE, which nobody ignores or handles.
BrokenPipe == ~open /\ Die

CallIoctl(t) == /\ up
                /\ thread[t] = "loaded"
                /\ L!Ioctl(t, LightOf(arg[t]))
                /\ thread' = [thread EXCEPT ![t] = "called"]
                /\ UNCHANGED <<streamVars, motorVars, pc, cmd, arg, loaded>>

\* The rest of the ioctl, in the kernel.
InDriver(t) == /\ L!Clear(t)
               /\ UNCHANGED <<streamVars, motorVars, pc, cmd, thread, arg, loaded>>

LightThread(t) == LoadCmd(t) \/ LedMissing(t) \/ CallIoctl(t) \/ InDriver(t)

Blink == L!Timer /\ UNCHANGED <<streamVars, motorVars, pc, cmd, thread, arg, loaded>>

-----------------------------------------------------------------------------
(* The driver: patient as long as every press has waited until car and     *)
(* lights have changed, hurried if one has waited for the car only, that   *)
(* is for the server to wait for the next command, hasty otherwise.        *)

Waiting == S!Drained /\ pc = "reading"

\* No light thread is on its way.
LightsDone == \A t \in Threads : thread[t] \in {"none", "called"} /\ todo[t] = {}

\* Nothing more happens without a press; a driver also presses the buttons of
\* a car whose server has ended.
AtRest == ~up \/ (Waiting /\ LightsDone)

Pressed == manners' = IF AtRest THEN manners
                      ELSE IF Waiting /\ manners # "hasty" THEN "hurried"
                      ELSE "hasty"

Next == \/ Environment /\ IF written' # written THEN Pressed ELSE UNCHANGED manners
        \/ /\ Main \/ (\E t \in Threads : LightThread(t)) \/ BrokenPipe \/ Blink
           /\ UNCHANGED manners

\* The network delivers and the kernel schedules every thread and timer.
Spec == /\ Init
        /\ [][Next]_vars
        /\ WF_vars(Main /\ UNCHANGED manners)
        /\ WF_vars(S!Deliver /\ Environment /\ UNCHANGED manners)
        /\ \A t \in Threads : WF_vars(LightThread(t) /\ UNCHANGED manners)

-----------------------------------------------------------------------------

\* What the buttons ask for: 1, 2 and 5 set the drive, ...
DriveOf(b) == CASE b = "1" -> "forward" [] b = "2" -> "backward" [] b = "5" -> "off"
\* ... 3 and 4 the steering, which all others straighten.
SteerOf(b) == CASE b = "3" -> "left" [] b = "4" -> "right" [] OTHER -> "straight"

\* What the car should do after it was asked for the presses in K.
Drives(K)     == {k \in K : written[k] \in {"1", "2", "5"}}
DriveAfter(K) == IF Drives(K) = {} THEN "off" ELSE DriveOf(written[Max(Drives(K))])
SteerAfter(K) == IF K = {} THEN "straight" ELSE SteerOf(written[Max(K)])

CarObeys(K) == M!Drive = DriveAfter(K) /\ M!Steer = SteerAfter(K)

\* Whenever main waits for the next command, even in a burst, the car
\* does what the commands dispatched so far ask for: the drive as the last command
\* that sets it, the steering as the last of all.
CarObeysDispatched == pc = "reading" /\ up => CarObeys(handled)

\* From the buttons to the pins: when a driver who waits for the server has
\* it waiting again, the car does what all the presses made ask for.
CarFollowsButtons == manners # "hasty" /\ Waiting /\ up => CarObeys(DOMAIN written)

\* The flag of the light driver is the one of the last press.
FlagOfLastPress == AtRest /\ up /\ written # <<>>
                      => flag = LightOf(CmdOf(written[Len(written)]))

\* Slide 14 of docs/_PPT_report_A__.pptx: the lights work as the car moves.
\* For a driver who waits for car and lights they do, once all is at rest.
LightsFollowButtons == manners = "patient" => FlagOfLastPress

\* The same for a driver who waits for the car, as the slide has it.
LightsFollowCar == manners # "hasty" => FlagOfLastPress

\* Press k has been carried out: dispatched (one of a hasty driver may have been
\* lost), moter_func has returned, all that came is read, main waits in the next
\* read, and the car does what the dispatched presses ask for.
Served(k) == /\ k \in handled \/ manners = "hasty"
             /\ up /\ Waiting
             /\ CarObeys(handled)

\* The process has ended, and for one of two reasons: the client has gone, or a
\* light thread has found no driver.
Ended == ~up /\ (~open \/ ~loaded)

\* Slide 20: every press is carried out, unless the process ends before.
EachPressServed == \A k \in 1 .. MaxPresses : Len(written) >= k ~> Served(k) \/ Ended

\* After every press the server and its light threads come to rest.
ComesToRest == []<>(AtRest \/ ~open)

\* Wherever in main's work another thread ends the process, the car, which goes on
\* driving, is left with no bridge shorted, and the PWM channels are free for the
\* next process.
DeathLeavesCarSane == ~up => /\ M!HBridgeSettled
                             /\ ~held
                             /\ ~M!InIoctl
=============================================================================
