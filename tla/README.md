# MDS_BLACKBOX: a verification development

MDS_BLACKBOX is a remote-controlled car with a video recorder. The **client** (`src/CLIENT/rc_client`) runs on a board
with a touch panel: it shows the car's video, sends button presses, sounds a buzzer and saves a clip when the car reports
an obstacle. The **server** (`src/SERVER/rc_server`) runs on a board in the car: it receives the commands, drives the
motors and lights through three kernel drivers of its own, and watches an ultrasonic sensor. Both boards have a single
ARM926 processor and a preemptible Linux 3.0 kernel. The only documents are the slides in
`src/docs/_PPT_report_A__.pptx`; "slide n" below refers to them.

This directory holds TLA+ models of that code, TLC configurations that check them on small instances, and theorems that
TLAPS checks for every value of the parameters.

## 1. Inventory

| component | source | state it keeps | operations |
|---|---|---|---|
| Command panel | `rc_client.c` main loop, 368-505 | the socket, the frame buffer | press of one of five buttons: clear the buffer, one character, `write` of 30 bytes; `SDL_QUIT` |
| Command reader | `rc_server.c` main, 108-156 | `cmd`, `buff`, the socket | `read` of at most 20 bytes, switch on `buff[0]`, `moter_func`, `pthread_create`; exit at the end of the stream |
| Motor control | `pwm_app.c` | position in `moter_func` | open, `LEFTPWM`, `RIGHTPWM`, the order's ioctl, close |
| Motor driver | `pwm_dev.c` | PWM channels 2 and 3, pins 4-7 of port G | open, ioctl (one case per command), release |
| Light thread | `th_led.c` | the loaded `*cmd` | open, load, ioctl, or `exit(-1)` of the whole process |
| Light driver | `led.c` | `led_flag`, `led_high_low`, pins 11 and 12, a timer | ioctl, timer handler |
| Obstacle sensor driver | `ultrasonic.c` | `before`, `after`, `ultra_cnt`, timers | open, release, read, edge interrupt, timer handler |
| Obstacle thread | `th_ultra.c` | - | busy loop of `read` and `write` to the socket; `exit(-1)` without the sensor's driver |
| Obstacle alarm | `rc_client.c` 132-182, 218-262 | `cnt`, `buzzer_onoff` | reader thread; signal handler run by a POSIX timer each second |
| Buzzer driver | `buzzer.c` | PWM channel 1 | open, ioctl (sounds for 200 ms), release |
| Recorder | `rc_client.c` 57-130 | `dumping`, the players' processes and files | dump thread, resume thread, on fixed sleeps |
| Session | both `main`s up to the connection, `etc/profile` of both file systems | processes, sockets, loaded modules | connect with retry every 5 s, one accept, exit |
| Touch panel geometry, `itoa` | `rc_client.c` 186-216, 379-501 | - | pure |
| Video sender | `rc_server.c` `ffmpeg_stream_thread` | - | one `system()` |

How they interact:

    press -> 30-byte frame -> TCP -> read of <= 20 bytes -> moter_func -> pwm_ioctl -> pins 4..7
                                         |
                                         +-> cmd (shared variable) <- light threads -> led_ioctl -> led_flag, pins 11, 12
                                                                                          ^ timer, every second
    sensor -> interrupt -> ultra_cnt -> obstacle thread -> same TCP connection -> reader thread -> cnt
                                                             -> buzzer_onoff -> SIGRTMIN handler -> buzzer
                                                             -> dumping -> dump and resume threads -> player

What is hard in it, and what makes each part correct:

* **Command stream.** Frames of 30 bytes, reads of 20, only `buff[0]` looked at, any segmentation by TCP. Correct: what
  is dispatched are presses, in order, none twice; every press, if the driver paces himself; a bound on the loss if not.
* **Motor.** Four pins set by up to four separate writes, of which LEFT and RIGHT make only two, levels that outlive the
  process, a process that another thread may end between two ioctls. Correct: the car goes from one command to the next
  as if each were a single step, no bridge is left with both inputs high, and the PWM channels can always be requested.
* **Lights.** Threads without number in an unlocked ioctl that sets a flag and then clears pins, a timer between their
  steps. Correct: only the light of the flag stays on, and it blinks.
* **Server.** One `cmd` variable read late by threads nobody joins. Correct: motors and lights follow the presses.
* **Obstacle sensor.** Two time stamps and a counter shared by an interrupt and a reader, a timer per open that nothing
  stops. Correct: a near object is reported within a bounded number of echoes, a far one never, whatever was opened
  before.
* **Obstacle alarm.** A sender in a busy loop, a receiver that counts reads (not bytes), an uninitialised counter, a
  flag shared with a signal handler. Correct: an object that stays near sounds the buzzer again and again; no alarm
  without one.
* **Recorder.** Two threads and two players on fixed sleeps, a fifo that blocks without a reader, a scan for a process by
  the beginning of its name, and a flag cleared before the next player runs. Correct: every dump is stopped by its own
  recording, what is copied is finished and whole, and the video comes back.
* **Session.** The server takes one connection in its life, the client makes one, neither looks at errors, and forked
  players and ffmpeg inherit sockets. Correct: a driver who restarts the client reaches a server that listens again.
* **Touch panel.** Boxes and pictures are separate constants. Correct: a touch of a picture is taken for that button only.

`PROJECT.json` lists every hazard at its line.

## 2. Plan

Modules in the order of their importance to the system; all are done except what 10 names.

1. `RemoteControl` (abstract) and `CommandStream`, which refines it. Proofs: `CommandStreamProofs`.
2. `Car` (abstract) and `Motor`, which refines it down to single pin writes. Proofs: `MotorProofs`.
3. `LedDriver`. Proofs: `LedDriverProofs`.
4. `RcServer`, the composition of 1-3 with the shared variable and the threads. Proofs, from those of the parts:
   `RcServerProofs`.
5. `Ultrasonic`: the sensor, its interrupt line and the driver. Proofs: `UltrasonicProofs`.
6. `ObstacleAlarm`: obstacle thread, connection, reader thread, signal handler, buzzer. Proofs: `ObstacleAlarmProofs`.
7. `Recorder`: the dump and resume threads, the players, the fifo and the dump file, under a clock. Proofs:
   `RecorderProofs`.
8. `Session`: connect, accept, exit and restart of both processes, sockets that players and ffmpeg inherit. Proofs:
   `SessionProofs`.
9. `Panel`: the buttons as areas. The theorems about them are in `CommandStreamProofs`.
10. Left: `DumpIsStopped` and `VideoIsBack` of 7 after a player has failed (`Healthy`), which take the phases of a
    recording that meets a player too many or too few.

## 3. The modules and the code

**`RemoteControl`** says what the path from the panel to the car promises with no bytes in it: commands are issued;
commands are executed, in the order of issue and none twice (`Spec`), or none left out either (`ExactNext`).

**`CommandStream`** has the stream as byte offsets: `written` (one command per frame), `arrived` (bytes in the server's
socket), `taken` (bytes read). `Press` is the client's handler, from the hit test to `write`. `Read` is one turn of
the server's loop: `read(newsockfd, buff, 20)` and the switch on `buff[0]`, which is the first byte of the read and
a command only when the read starts where a frame starts. `Deliver` is TCP handing over bytes in order, in multiples of
`Grain`. `Hangup` and `ReadEnd` are the two ends of the connection. `handled` (frames dispatched) and `current` are
history for the properties, and so are `paced` (every press has found everything before it read: a driver who waits) and
`whole` (TCP has delivered whole frames only). The properties that need such a driver or such a network name them, and
hold up to the step that ends it. *Assumption:* `write` of 30 bytes on the blocking socket writes them all.

**`Car`** and **`Motor`**. `Motor` has one action per system call of `moter_func`, and within the order's ioctl one per
`gpio_set_value`, since that is where another party can see the pins. `Rank`, `Writes` and `Level` are the table that the
cases of `pwm_ioctl` make up. `oops` records that `pwm_open` went on with a channel `pwm_request` refused: its test is
for NULL and the refusal is an `ERR_PTR`. `Exit` is the death of the process outside the driver; the pins stay. The
*refinement mapping* reads off what the car does from the levels the pins will have when the ioctl in progress returns
(`Settled`), so that the first write of an ioctl is where `Car` carries out the command.

**`LedDriver`**. `Ioctl` sets `led_flag`, `Clear` clears a pin, and any threads and the timer may step in between;
`Timer` is the handler as a whole, because it is a softirq on one processor.

**`RcServer`** instantiates the three and adds `main`'s program counter, `cmd`, and the threads. A light thread is
`"started"`, has `"loaded"` `*cmd`, or has `"called"` the ioctl. `Spawn` uses up a member of `Threads` for good.
`LedMissing` is the `exit(-1)` of `led_func` when there is no driver behind `/dev/LED`, `BrokenPipe` the SIGPIPE that
the obstacle thread's `write` meets when the client has gone; both end the process wherever main is (`Die`). `manners`
is history: the driver has been `"patient"` (waited for car and lights), `"hurried"` (for the car only), or `"hasty"`.

**`Ultrasonic`** has the sensor (`level` of the echo pin, `age` of the echo), the interrupt line, and the driver.
The line latches one edge; the handler reads the *level* of the pin after it was entered. So edges that
come while interrupts are off are one interrupt, and a handler that is late finds the level of the next edge. `Meanwhile`
lets up to `MaxDelay` other steps go before a due handler. `HandleHigh` stamps `before`; `HandleLow` measures, counts or
resets, whether or not there is a stamp, and sets `before` to zero. `Elapsed` is `after - before`, a `long` of 32 bits,
over a clock that is itself computed modulo 2^32 microseconds (`Wrap`); it is signed, and a negative one is near.
`Open` adds a timer, `Release` stops none: `timers` only grows, and `Rise` is the echo that follows any timer's pulse.
`farEcho` and `doubt` are history: doubt counts the falling edges handled since a far echo whose rising edge was stamped
in time. `Enter` is separate from `HandleLow`/`HandleHigh`, since the pin may change in between.

**`ObstacleAlarm`**. `Ask` and `Write` are the busy loop of the obstacle thread, `queue` the bytes TCP holds. `Read` is
a turn of the client's reader: `Counted` is the test of `size` and `buf[0]`, `Alarm` the branch of the fiftieth *read*,
which may be of any number of bytes. `Garbage` are the values the uninitialised `cnt` may start with; above `AlarmAfter`
it makes the first report an alarm, a negative one delays the first (`MCObstacleAlarm` has some of each). The signal
handler is cut where the reader can see it: `Test` of `buzzer_onoff`, `Clear`, and the ioctl of the buzzer, `Sound` and
`Hush`, 200 ms apart. The thread in the handler blocks the signal; as it is sent to the process, another one could run a
second handler, if the first began more than 800 ms late (*assumption:* it does not). `dumping` is set by `Alarm`;
`Resume`, its reset, stands for the whole recorder and may never happen. In the code `MAXLINE` is 30 and
`AlarmAfter` 50.

**`Recorder`** has the two threads of every alarm (`job`), the processes `system` forks (`proc`, in the order of their
pids), the fifo (`quits`: commands in it), the dump file (`writer`, `tape`), and time in ticks. `Quit`, `Echo` and
`Dump` are `mplayer_dump_thread`; `Close`, `Copy` and `Play` are `mplayer_resume_thread` with `mplayer_close` and
`mplayer_dump_copy`. `sleep` sets a number of ticks (`dleft`, `rleft`); whatever is due may take up to `Lag` of them.
`Found` is the scan of `/proc`: the first process from the client's pid on whose name begins with `mplayer` - also
`mplayer_cmd`, also a player of another recording; one that was just forked may still bear the name of its shell. The
players are external, as `rc_client.c` uses them: one that plays obeys `quit` (`ObeyQuit`), one that dumps does not,
`SIGINT` ends either, and one that finds the port of the video taken ends (`Bind`). A writer of the fifo waits until a
player has it open (`Echo`), and what is in the fifo goes with its last reader (`End`). `Fail` is a player that ends by
itself. `Copy` is `cp`, `rm` and `dumping = 0` in one step: `dumping` is set until its end, so that no new recording
comes between. *Assumptions:* the first player's `mkfifo` came before the first alarm; the fifo's reader polls it while
it plays only; `sleep` is not cut short by the timer's SIGRTMIN, which the kernel gives to the main thread unless that
is in the handler still. A recording of "10 seconds" is of less, since the dump begins after the `quit` and the second's
sleep: `Enough` is what the sleeps leave.

**`Session`** has the server's process, the client's, and the connections by where they stand at the server: waiting for
`accept` (`queue`, the oldest first), accepted (`served`), or no more known to it (`gone`); `near` says which of the
client's processes have an end open, and a connection nobody has open is dropped from the state. `Connect` needs a
listening socket and room in the backlog, no `accept`. `Accept` is the only one of a server's life; `AcceptFails` is the
one with a bad `clilen`, which `main` initialises after the call: `accept` closes the connection it took. `Exit` leaves
queued connections to be reset, or, if ffmpeg was forked after `socket()`, a listening socket nobody accepts on
(`stale`) until the hangup of the terminal ends ffmpeg. The client hears nothing of that before it writes: `Press` on a
dead connection is answered by a reset, and the press after the reset is `SIGPIPE`. `StartPlayer` gives a player the
client's socket, which keeps the connection open when the client has gone; `Renew` applies what happens to the client's
processes to all its connections. `init` starts the server again (`getty` with autologin, `profile`: `exec rc_server`),
the driver the client.

**`Panel`** has no state: `Box` and `Hit` are the tests of the chain of else-ifs, `Taken` is their first success,
`Drawn` is where the pictures are, which are 65 pixels square (`dstrect_stop` says 130, but SDL takes the size from the
picture).

## 4. What the runs show

| run | module, specification | question | result |
|---|---|---|---|
| `stream` | `CommandStream`, `Spec` | What is left of the promise for a driver who presses at any time, and what for one who waits, however TCP cuts the frames? | order is kept, nothing twice (`InOrderAtMostOnce`, the refinement of `RemoteControl`); of two consecutive frames delivered whole at least one is dispatched (`NoTwoInARow`); as long as the driver waits nothing is skipped (`NothingSkipped`) and each press is dispatched (`EachPressDispatched`) |
| `stream_burst` | `CommandStream`, `Spec` | Is slide 20 ("the car carries out what it is sent") true of bursts? | **no**: two queued frames are read as 20+20+20, and the second command is inside the second read |
| `motor` | `Motor`, `Spec` | Do sequences of ioctls, cut off by deaths, ever leave the motors in a state the commands did not ask for? | no: `DrivesTheCar`, `HBridgeSettled`, `ChannelsFree`; both inputs of a bridge are high only within an ioctl, for one write (`OverlapIsBrief`) |
| `led` | `LedDriver`, `FairSpec` | Can unlocked ioctls and the timer leave a wrong light on? | not when all have returned (`LightsFollowFlag`); stale lights go out, the right one blinks |
| `server` | `RcServer`, `Spec` | Do pins and lights follow the buttons end to end, in bursts, and when another thread ends the process? | the car does what was dispatched (`CarObeysDispatched`), and what was pressed if the driver waits for it (`CarFollowsButtons`); after every press main comes back to `read` with the car doing what was dispatched, the press itself if the driver waits, unless the process ends for one of its two reasons (`EachPressServed`, `Ended`); the lights follow one who waits for both (`LightsFollowButtons`); the server comes to rest (`ComesToRest`); a death leaves no bridge shorted and the PWM channels free (`DeathLeavesCarSane`), but nothing stops the car: it drives on as the last command has it |
| `server_led_race` | `RcServer`, `Spec` | Do the lights work "according to the direction of travel" (slide 14) for a driver who only waits for the car? | **no**: a thread that loaded the old `cmd` may make its ioctl last |
| `server_threads` | `RcServer`, `Spec` | And for a patient driver, in the long run? | **no**: threads are never joined or detached; when no more can be made, the lights stay as they are |
| `ultrasonic` | `Ultrasonic`, `Spec` | Can late interrupts, reopening or the wrap of the clock make the sensor wrong for good? | no: only echoes in doubt are ever counted after a far one (`CountsOnlyDoubt`); served in time, a near object is reported and stays so (`NearIsReported`), a far one is not (`FarIsForgotten`), after any history |
| `alarm` | `ObstacleAlarm`, `Spec` | Is an alarm lost, or raised without reports, between the server's loop, the reader and the signal? | no: `CountsReports` (from the second alarm on), `AlarmKept`; a steady report sounds again and again, also while a recording never ends (`NearSounds`); silence afterwards (`FallsSilent`). The first alarm itself may come at once, or late, as `cnt` begins with anything |
| `recorder` | `Recorder`, `Spec` | Do the sleeps and the scan do what slide 23 promises, with every step as late as half a second and players that fail? | while none fails, a dump only runs while its recording sleeps before stopping it (`DumpIsStopped`), what is saved is finished and whole (`SavedWhole`) and the video is back when all is done (`VideoIsBack`); after a failure the first and the last hold again from the second recording on. Every recording comes to an end (`Ends`): both threads return, also a dump thread that `mplayer_cmd` blocked in the fifo, and no dump goes on but the last recording's, and that only after a failure: `mplayer_close` has then hit `mplayer_cmd`, the dump begins later and runs until the next recording stops it, if there is one |
| `recorder_window` | `Recorder`, `Spec` | And in the long run? | **no**: `mplayer_close` looks at a thousand pids from its own; the players of later recordings are beyond them |
| `session` | `Session`, `Spec` | Is there always a way back to a car that listens, whatever exits, restarts, is refused or loses power? | yes (`Recovers`), with two exceptions it names (`HeldUp`): a player that outlives the client keeps the server reading, and so does a client's board that loses power, until the obstacle thread writes |

Bounds, and why they are enough:

* `MaxPresses` (5 in `stream`, 2 in `server`): the phase of the reads in a frame is 0, 10 or 20 and returns to 0 after
  three reads, so every pattern of loss shows within two frames of any point of a burst; five frames hold each twice. In
  `server` two presses give every pair of commands, which is what the pins and lights can mix up.
* `Grain` (5 in `stream`, 30 in `server`): reads of 20 bytes on frames of 30 meet every boundary a divisor of both can
  place at multiples of 10; 5 adds ends of segments between them. 30 is delivery of whole frames; the theorems about
  `RcServer` are for every `Grain`.
* `Commands` has two members where only their being different matters; `server` uses real characters, one for each drive
  and one that turns: `"4"` mirrors `"3"`, `"5"` differs from `"1"` and `"2"` in the level of one pin. `server_led_race`
  and `server_threads` use the two that show the trouble. The theorems are for all five.
* `Threads` (3 in `led`): the invariant relates a pin to one thread that will clear it; the third is a thread that
  interferes with both. The theorem has no bound.
* `MaxThreads` (4): two presses make four reads, so in `server` no thread is ever missing. In `server_threads`, with
  three presses, the bound *is* the subject. It stands for the number of unjoined stacks that fit the address space,
  which is finite on every build.
* `Wrap` 16, `Near` 2, `MaxEcho` 3, `MaxDelay` 2: the clock wraps within any six echoes; a near echo lasts one tick, a
  far one two or three; two steps before the handler hide one whole echo, or stretch a near one to a far one. What
  matters of the real numbers is that an echo and the delay of its handler are shorter than half the clock (35 minutes),
  which is `ClockAssumption`. `MaxOpens` 2: one more timer than an open driver has; timers are only ever counted.
  `CountCap` 6 is the first value that reports; the code compares with nothing above it.
* `MAXLINE` 2, `AlarmAfter` 3, `Room` 4: reads of one byte and of more than one, a read in which the alarm falls between
  two bytes, a queue that makes the sender wait. `Garbage` {-2, 0, 2, 9}: below zero, as if initialised,
  one short of an alarm, beyond it. The theorems have no such bounds.
* `Recorder`: a tick is half a second, so that the sleeps of 1, 10 and 3 s are `Pause` 2, `Length` 20, `Grace` 6, and
  `Lag` 1 lets every chain of things due take up to half a second: less than the shortest sleep, as on an idle board.
  `MaxAlarms` 4 and `MaxFailures` 2: a recording meets only what the one before it left, a failure is made good by the
  second recording after it, and a second failure may come before or after that. `Window` 100 is more processes than
  four recordings make; `recorder_window` has 4, which the first recording uses up, for the code's thousand pids and
  about twelve per recording.
* `Backlog` 3 for the code's 5 (`listen(sockfd, 5)`): one connection at the head of the queue, one behind it, and one that
  meets a full queue; the theorem is for every backlog. Mishaps are not bounded.

Fairness: TCP retransmits until bytes arrive (`Deliver`); the Linux scheduler runs a runnable thread again and again
(`Main` of `RcServer`, `ServerNext` of `CommandStream`, the light threads, `Clear`, `Work` of `Recorder`); the kernel
runs expired timers (`Timer`) and time passes (`Tick`). In `Ultrasonic` echoes end, the timers go off and interrupts are
served; in `ObstacleAlarm` the threads and the timer's signal run; nothing makes the recorder end there. All weak, and
none of these on what the driver or the client does: presses and hang-ups may stop at any time, and the liveness
properties say "or the client is gone". `Session` is the exception: its `WF_vars(Driver)` is a driver who starts the
client again when it has ended and goes on pressing when the car does not react, for nothing in the code does either;
`WF_vars(Server)` is `init` and the server's own steps, `WF_vars(Client)` the client's `connect` and the answers of the
kernels. `ReadError`, `StartPlayer`, `EndPlayer` and the mishaps are not fair.

## 5. What is proved

Module by module, for every value of the constants (any set of commands or threads, any number of presses, behaviours
of any length):

* `CommandStreamProofs`: `TypeCorrect`; `RefinesRemoteControl`, by the invariant `HandledArePassed` (the server has read
  past the start of every dispatched frame), without which nothing says that the frame now read is a later one;
  `WholeFramesLoseNoTwo`, by `PhaseInv`: as long as whole frames were delivered the reads stand at byte 0, 10 or 20 of a
  frame, at 20 its command was dispatched, at 10 that of the frame before was. (In smaller segments a burst can lose two
  commands in a row.) `PacedLosesNothing`, by `PacedInv`: a driver who waits leaves one frame unread at most, and every
  frame whose first byte was read was dispatched.
* `MotorProofs`: `TypeCorrect`; `BridgesSettle` and `OverlapsAreBrief`, by `BridgeInv` (the pins written so far have the
  command's levels, and both inputs are high only at one step of FRONT and one of LEFT), since the plain statement
  says nothing of the inside of an ioctl; `ChannelsAreFree`, by `ChannelInv`; `RefinesCar`, by showing that
  the first write of an ioctl decides what all pins will be and the others do not change that.
* `LedDriverProofs`: `TypeCorrect`; `LightsFollow`, by `LightsAccountedFor`: a light that is on is the flag's or some
  thread is in the middle of an ioctl that will clear it.
* `UltrasonicProofs`: `TypeCorrect`; `FarEchoEndsSeries`, by `FarInv`: as long as a far echo's stamp stands, the time
  since it, modulo `Wrap`, is at least the echo's age, at least `Near` once it is over, and small enough that the signed
  difference is not negative. `CountsOnlyDoubt` alone says nothing of the clock. It rests on `SinceTicks`, the
  arithmetic of one tick around the wrap, and holds for every length of echo, delay and number of opens.
* `ObstacleAlarmProofs`: `TypeCorrect`; `CountStandsForReports`, since a read that counts brings a byte at least;
  `AlarmsAreKept`, by `FlagStays`: between its test and its clearing of the flag the handler finds nobody else clears it.
* `RcServerProofs`, from the lemmas of the parts, of which each step of the server is a step or a stutter
  (`StreamSteps`, `MotorSteps`, `LightSteps`): `TypeCorrect`; `DeathIsSane`, by `BridgeInv` and the fact that a dead
  process has the device closed; `CarObeysItsOrders`, by `ObeyInv`: from the call of `moter_func` to the first write of
  the order's ioctl the car obeys all commands but the last, and from then on all of them; `CarFollowsItsDriver`, by
  `PatienceInv`, the `PacedInv` of this module. What a set of presses asks for is a matter of its greatest member; that
  there is one is `MaxOfBounded`, from the well-foundedness of the order on numbers. `LightsFollowTheirDriver`, by
  `LightsInv`: if the last press of a patient driver is not dispatched yet, main is still in `read` and no light thread
  is on its way (`PressPending`); if it is, `cmd` is its command, no light thread carries another one, and the flag has
  changed or somebody is on the way to change it (`PressServed`). `LightsFollowButtons` speaks of states at rest only
  and says nothing of what a thread on its way has loaded. Its hypothesis `Spare`, that `pthread_create` can make
  another thread, is what `server_threads` shows to be necessary; it is about the state, so nothing is assumed of the
  numbers of presses or reads. `ServerDrivesTheCar`, `ServerKeepsTheOrder` and `ServerLightsFollowFlag` carry the
  refinements of `Car` and `RemoteControl` and the invariant of `LedDriver` over to the whole server, where a light
  thread can end the process at any step.
* `RecorderProofs`: `TypeCorrect`, for any sleeps and failures, by `TypeInv`: `TypeOK` speaks of `dumping` and the
  resume threads, and that an alarm finds none of them at work takes `OneRecording`; that `mplayer_cmd`'s end finds its
  thread takes `AskersAreKnown`. `SavesWholeRecordings`, `DumpsAreStopped`, `VideoComesBack`, for players that do not
  fail (`failures = 0`), by `UnfailedInv`: the recorder is in one of six phases, from `Showing` (a player plays or will)
  through `Asking`, `Quitting`, `Pausing` and `Dumping` to `Settling`, and in each it is said which processes are there,
  what the fifo and the file hold, and how far the second thread's sleep has got against the first's. None of the three
  invariants is inductive, as none speaks of time. One lemma per phase shows where each step leads. The hypotheses are
  `Timely`, that what is due is done before the shorter sleeps are over and that a dump has begun before it is ended
  (`Lag < Pause`, `Lag < Grace`, `Pause + 2 * Lag < Length`; the code's sleeps are 1, 3 and 10 s, so that any delays
  below one second meet it), and `Sighted`, that all processes of the recordings are within the scan of `mplayer_close`,
  which `recorder_window` shows to be necessary. Without `Timely` they are false: a dump started too late is never
  ended.
* `SessionProofs`: `TypeCorrect`, for every backlog. `TypeOK` is inductive there, since it relates the two processes to
  the connections; `RenewRanges`, `RenewMine`, `LostLeft` and `LostMine` say what the client's processes and the end of
  the server do to those.
* In `CommandStreamProofs`, on `Panel`: `BoxesDisjoint` and `PictureIsTaken`, by arithmetic.

The named assumptions on constants are those a configuration must meet anyway: `Nul` is no command, `Grain` divides
a frame, `MaxPresses` is a number, the buttons are characters the server knows, `NoCommand` is no order, echoes and delays
are shorter than half the clock, `CountCap` is above the five echoes of the driver, sizes and sleeps are numbers.

Only model-checked: all liveness (TLAPS proves none under fairness), and in `Recorder` what `DumpIsStopped` and
`VideoIsBack` say after a player has failed. Every other safety property of a passing run is proved.

## 6. Not modelled

* Registration of the drivers: calls into the kernel at `insmod` and `rmmod`; no script unloads a module.
* The video sender, one `system` call; that its ffmpeg may inherit the listening socket is in `Session`.
* An `open` of `/dev/PWM` or `/dev/ultrasonic` that fails: `moter_func` and the obstacle thread end the process then
  (`pwm_app.c:51-54`, `th_ultra.c:39-43`). The profile loads both drivers before the server; `pwm_open` itself returns
  -1 only where a request gives NULL (`pwm_dev.c:80`), which it never does. Either end would be one more `Die` of
  `RcServer`.
* The opening of the buzzer's device: it is opened once, before anything else, and nobody else uses it.
* `itoa`: called once, with the time since the start, into a string nobody reads.
* Drawing and wording, the third-party file systems, headers and tools under both `nfsroot`s. They are most of the
  files of the repository, so that the share of all its lines the map names is small; of the sources under
  `rc_client` and `rc_server` it names nearly all that compute anything.
* In `Recorder`, pids that wrap around at 32768 and other programs whose names begin with `mplayer`; a card that is
  full. In `Session`, what is sent on a living connection (`CommandStream`, `ObstacleAlarm`).

Contradictions in the repository that no run states, because they are visible on one line or two and no later state
depends on them:

* Slide 17 says that the motors' speed is set by the PWM value. `copy_from_user` is commented out in `LEFTPWM` and
  `RIGHTPWM` (`pwm_dev.c:157`, `:161`), so `pwm_config` is given zero pulses; `Motor!Configure` therefore changes nothing.
* `src/SERVER/nfsroot/etc/profile:8-10` loads `pwm_dev.ko` and `ultrasonic.ko`, not `led.ko`. Without it the first light
  thread ends the server (`th_led.c:46-50`), which is `LedMissing`.
* The button the client calls "Right" sends `'3'`, the server prints "right" and runs command 5, which is `LEFT`
  (`rc_client.c:432`, `rc_server.c:134-137`, `pwm_dev.h:15`). The models keep the driver's names; which way the car
  turns depends on the wiring.
* Slide 24 has the driver send one pulse every 1/100 s. `ultrasonic_open` adds a timer that registers itself again
  (`ultrasonic.c`), `ultrasonic_release` deletes none, so there is one such series for each open since the module
  was loaded; `ultra_cnt` survives a release too. `Ultrasonic` has both, and its properties hold with them: a pulse
  during an echo is ignored by the sensor.
* Slides 18 (item 5) and 19 (item 6) end server and client with `close()`. Neither calls it on its socket: the client
  returns from `main` or dies, and its players keep the socket open (`rc_client.c:37`, `:60`), which is `Session!HeldUp`.
* Slide 23 has ten seconds recorded. The dump begins after `quit` and a second's sleep and ends ten seconds after the
  alarm, so a recording is of nine at most (`rc_client.c:58-60`, `:121`), which is `Recorder!Enough`.
