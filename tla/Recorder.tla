------------------------------ MODULE Recorder ------------------------------
(***************************************************************************)
(* The recorder of the client (rc_client.c).  An alarm makes two threads:  *)
(* one replaces the video player by a dumping one, one ends the dump,      *)
(* copies the file and starts a video player again.  They do not wait for  *)
(* one another, nor for the players: they sleep.                           *)
(*                                                                         *)
(* Time passes in ticks; what is due is done within Lag ticks.  Processes  *)
(* are in the order of their pids.  The players are external: one that     *)
(* plays reads quit from the fifo, one that dumps does not, and one that   *)
(* finds the port of the video taken ends.                                 *)
(***************************************************************************)
EXTENDS Integers, Sequences, FiniteSetsExt

CONSTANTS Pause,        \* the sleep before a dump (1 s)
          Length,       \* the sleep before it is ended (10 s)
          Grace,        \* the sleep before the file is copied (3 s)
          Lag,          \* ticks the system takes for what is due
          Window,       \* how many processes mplayer_close looks at (1000 pids)
          MaxAlarms,    \* bound on the recordings
          MaxFailures   \* bound on the players that end by themselves

ASSUME SleepsAssumption == {Pause, Length, Grace, Lag} \subseteq Nat
ASSUME BoundsAssumption == {Window, MaxAlarms, MaxFailures} \subseteq Nat

VARIABLES dumping,      \* a recording is under way
          job,          \* the two threads of each alarm, and what it has saved
          proc,         \* mplayer and mplayer_cmd processes
          quits,        \* quit commands in the fifo
          writer,       \* the process that made /root/test.mp4; 0: there is no file
          tape,         \* ticks of video in the file
          late,         \* how long something has been due
          failures,     \* players that have ended by themselves
          failedAt      \* history: alarms there had been at the last failure

vars == <<dumping, job, proc, quits, writer, tape, late, failures, failedAt>>

Jobs  == DOMAIN job
Procs == DOMAIN proc

TypeOK ==
    /\ dumping \in BOOLEAN
    /\ job \in Seq([dumper : {"quit", "echo", "pause", "done"}, dleft : 0 .. Pause,
                    resumer : {"record", "settle", "play", "done"},
                    rleft : 0 .. Length + Grace,
                    saved : {"not yet", "nothing", "cut", "short", "whole"}])
    /\ proc \in Seq([kind : {"play", "dump", "cmd"}, of : 0 .. Len(job),
                     phase : {"starting", "opened", "running", "leaving", "gone"}])
    /\ quits \in Nat
    /\ writer \in {0} \cup Procs
    /\ tape \in 0 .. Length
    /\ late \in 0 .. Lag
    /\ failures \in 0 .. MaxFailures
    /\ failedAt \in 0 .. Len(job)
    /\ dumping <=> \E a \in Jobs : job[a].resumer \in {"record", "settle"}

\* system forks a process of this kind for the thread of alarm a.
Fork(kind, a) == proc' = Append(proc, [kind |-> kind, of |-> a,
                     phase |-> IF kind = "cmd" THEN "running" ELSE "starting"])

\* The player has opened the fifo, and the stream, whose port no other can have.
HasFifo(p) == proc[p].kind # "cmd" /\ proc[p].phase \in {"opened", "running", "leaving"}
HasPort(p) == proc[p].kind # "cmd" /\ proc[p].phase \in {"running", "leaving"}

Advance(p, phase) == proc' = [proc EXCEPT ![p].phase = phase]

\* Process p ends; what is in the fifo is gone with the last that has it open.
End(p) == /\ Advance(p, "gone")
          /\ quits' = IF \E q \in Procs \ {p} : HasFifo(q) THEN quits ELSE 0

\* mplayer_stream_thread has made the fifo and starts the first player.
Init == /\ dumping = FALSE
        /\ job = <<>>
        /\ proc = <<[kind |-> "play", of |-> 0, phase |-> "starting"]>>
        /\ quits = 0
        /\ writer = 0
        /\ tape = 0
        /\ late = 0
        /\ failures = 0
        /\ failedAt = 0

-----------------------------------------------------------------------------
(* The threads. *)

\* A faulty variant: only the second thread clears dumping, nobody sets it.
Alarm_NoFlag == /\ ~dumping
                /\ Len(job) < MaxAlarms
                /\ job' = Append(job, [dumper |-> "quit", dleft |-> 0, resumer |-> "record",
                                       rleft |-> Length, saved |-> "not yet"])
                /\ UNCHANGED <<dumping, proc, quits, writer, tape, late, failures, failedAt>>
\* tcp_read_thread counts its last report: unless dumping is set, it sets it
\* and makes the two threads.
Alarm == /\ ~dumping
         /\ Len(job) < MaxAlarms
         /\ dumping' = TRUE
         /\ job' = Append(job, [dumper |-> "quit", dleft |-> 0, resumer |-> "record",
                                rleft |-> Length, saved |-> "not yet"])
         /\ UNCHANGED <<proc, quits, writer, tape, late, failures, failedAt>>

\* mplayer_dump_thread runs "mplayer_cmd quit".
Quit(a) == /\ job[a].dumper = "quit"
           /\ job' = [job EXCEPT ![a].dumper = "echo"]
           /\ Fork("cmd", a)
           /\ UNCHANGED <<dumping, quits, writer, tape, late, failures, failedAt>>

\* It starts the dumping player.
Dump(a) == /\ job[a].dumper = "pause"
           /\ job[a].dleft = 0
           /\ job' = [job EXCEPT ![a].dumper = "done"]
           /\ Fork("dump", a)
           /\ UNCHANGED <<dumping, quits, writer, tape, late, failures, failedAt>>

\* mplayer_close looks at the pids from its own on, for a name that begins with
\* mplayer: mplayer_cmd has one, a player from some point of its start on.
\* A faulty variant: the whole name is compared, the newline at its end too.
InSight_WholeName(p) == FALSE
InSight(p)  == p <= Window

Named(p)    == InSight(p) /\ proc[p].phase \in {"opened", "running", "leaving"}
MayBeSeen(p) == InSight(p) /\ proc[p].phase = "starting"

\* The first one it finds.
Found(p)    == /\ Named(p) \/ MayBeSeen(p)
               /\ ~\E q \in 1 .. p - 1 : Named(q)

\* SIGINT ends mplayer_cmd and a player that is not yet set up at once.
AfterSignal(p) == IF proc[p].kind = "cmd" \/ proc[p].phase = "starting" THEN "gone"
                                                                      ELSE "leaving"

\* A faulty variant: it does not sleep again before the copy.
Close_Hasty(a) ==
    /\ job[a].resumer = "record"
    /\ job[a].rleft = 0
    /\ LET settled == [job EXCEPT ![a].resumer = "settle"]
       IN  \/ \E p \in Procs :
                 /\ Found(p)
                 /\ Advance(p, AfterSignal(p))
                 /\ job' = IF proc[p].kind = "cmd"
                              THEN [settled EXCEPT ![proc[p].of].dumper = "pause",
                                                   ![proc[p].of].dleft = Pause]
                              ELSE settled
           \/ /\ ~\E p \in Procs : Named(p)
              /\ job' = settled
              /\ UNCHANGED proc
    /\ UNCHANGED <<dumping, quits, writer, tape, late, failures, failedAt>>
\* mplayer_resume_thread has slept and ends the dump.
Close(a) == /\ job[a].resumer = "record"
            /\ job[a].rleft = 0
            /\ LET settled == [job EXCEPT ![a].resumer = "settle", ![a].rleft = Grace]
               IN  \/ \E p \in Procs :
                         /\ Found(p)
                         /\ Advance(p, AfterSignal(p))
                         /\ job' = IF proc[p].kind = "cmd"
                                      THEN [settled EXCEPT ![proc[p].of].dumper = "pause",
                                                           ![proc[p].of].dleft = Pause]
                                      ELSE settled
                   \/ /\ ~\E p \in Procs : Named(p)
                      /\ job' = settled
                      /\ UNCHANGED proc
            /\ UNCHANGED <<dumping, quits, writer, tape, late, failures, failedAt>>

\* What the copy of the file is worth.
Enough == Length - Pause - 2 * Lag
Copied == CASE writer = 0 -> "nothing"
            [] writer # 0 /\ proc[writer].phase # "gone" -> "cut"
            [] OTHER -> IF tape >= Enough THEN "whole" ELSE "short"

\* mplayer_dump_copy (cp and rm, in one step with what follows: no alarm can come
\* between), then dumping = 0: from here on a new alarm is recorded.
Copy(a) == /\ job[a].resumer = "settle"
           /\ job[a].rleft = 0
           /\ job' = [job EXCEPT ![a].resumer = "play", ![a].saved = Copied]
           /\ writer' = 0
           /\ tape' = 0
           /\ dumping' = FALSE
           /\ UNCHANGED <<proc, quits, late, failures, failedAt>>

\* A faulty variant: it returns at once when there was nothing to copy.
Play_IfSaved(a) == /\ job[a].resumer = "play"
                   /\ job' = [job EXCEPT ![a].resumer = "done"]
                   /\ IF job[a].saved = "nothing" THEN UNCHANGED proc ELSE Fork("play", a)
                   /\ UNCHANGED <<dumping, quits, writer, tape, late, failures, failedAt>>
\* It starts the video player.
Play(a) == /\ job[a].resumer = "play"
           /\ job' = [job EXCEPT ![a].resumer = "done"]
           /\ Fork("play", a)
           /\ UNCHANGED <<dumping, quits, writer, tape, late, failures, failedAt>>

-----------------------------------------------------------------------------
(* The processes. *)

\* mplayer_cmd writes quit, as soon as someone has the fifo open to read; the
\* dump thread goes to sleep.
Echo(p) == /\ proc[p].kind = "cmd"
           /\ proc[p].phase = "running"
           /\ \E q \in Procs : HasFifo(q)
           /\ quits' = quits + 1
           /\ Advance(p, "gone")
           /\ job' = [job EXCEPT ![proc[p].of].dumper = "pause", ![proc[p].of].dleft = Pause]
           /\ UNCHANGED <<dumping, writer, tape, late, failures, failedAt>>

\* A player opens the fifo ...
Open(p) == /\ proc[p].phase = "starting"
           /\ Advance(p, "opened")
           /\ UNCHANGED <<dumping, job, quits, writer, tape, late, failures, failedAt>>

\* ... and the stream; if it dumps, it makes the file.  If it cannot, it ends.
Bind(p) == /\ proc[p].phase = "opened"
           /\ IF \E q \in Procs : HasPort(q)
                 THEN End(p) /\ UNCHANGED <<writer, tape>>
                 ELSE /\ Advance(p, "running")
                      /\ quits' = quits
                      /\ IF proc[p].kind = "dump" THEN writer' = p /\ tape' = 0
                                                  ELSE UNCHANGED <<writer, tape>>
           /\ UNCHANGED <<dumping, job, late, failures, failedAt>>

\* A player that plays reads quit.
ObeyQuit(p) == /\ proc[p].kind = "play"
               /\ proc[p].phase = "running"
               /\ quits > 0
               /\ quits' = quits - 1
               /\ Advance(p, "leaving")
               /\ UNCHANGED <<dumping, job, writer, tape, late, failures, failedAt>>

Leave(p) == /\ proc[p].phase = "leaving"
            /\ End(p)
            /\ UNCHANGED <<dumping, job, writer, tape, late, failures, failedAt>>

\* A player ends by itself (Ctrl-C on the console, the end of memory).
Fail(p) == /\ proc[p].kind # "cmd"
           /\ proc[p].phase = "running"
           /\ failures < MaxFailures
           /\ failures' = failures + 1
           /\ failedAt' = Len(job)
           /\ End(p)
           /\ UNCHANGED <<dumping, job, writer, tape, late>>

-----------------------------------------------------------------------------

Thread(a)  == Quit(a) \/ Dump(a) \/ Close(a) \/ Copy(a) \/ Play(a)
Process(p) == Echo(p) \/ Open(p) \/ Bind(p) \/ ObeyQuit(p) \/ Leave(p)
Work       == (\E a \in Jobs : Thread(a)) \/ (\E p \in Procs : Process(p))

\* Someone is not asleep, playing, dumping, or blocked by the fifo.
Due == \/ \E a \in Jobs : \/ job[a].dumper = "quit"
                          \/ job[a].dumper = "pause" /\ job[a].dleft = 0
                          \/ job[a].resumer # "done" /\ job[a].rleft = 0
       \/ \E p \in Procs : \/ proc[p].phase \in {"starting", "opened", "leaving"}
                           \/ /\ proc[p].phase = "running"
                              /\ CASE proc[p].kind = "cmd"  -> \E q \in Procs : HasFifo(q)
                                   [] proc[p].kind = "play" -> quits > 0
                                   [] proc[p].kind = "dump" -> FALSE

Less(n) == IF n > 0 THEN n - 1 ELSE 0

Tick == /\ IF Due THEN late < Lag /\ late' = late + 1
                  ELSE late' = 0
        /\ job' = [a \in Jobs |-> [job[a] EXCEPT !.dleft = Less(@), !.rleft = Less(@)]]
        /\ tape' = IF writer # 0 /\ proc[writer].phase = "running" /\ tape < Length
                      THEN tape + 1 ELSE tape
        /\ UNCHANGED <<dumping, proc, quits, writer, failures, failedAt>>

Next == Alarm \/ Work \/ Tick \/ \E p \in Procs : Fail(p)

\* Time passes and what is due is done.
Spec == Init /\ [][Next]_vars /\ WF_vars(Tick) /\ WF_vars(Work)

-----------------------------------------------------------------------------

\* No player has failed, or not within the last two recordings.
Healthy == failures = 0 \/ Len(job) - failedAt >= 2

Dumps(p) == proc[p].kind = "dump" /\ proc[p].phase \in {"starting", "opened", "running"}

\* Slide 23: ten seconds later the dump is stopped.  A dumping player only ever
\* runs while a thread sleeps that will stop it.
DumpIsStopped ==
    Healthy => \A p \in Procs : Dumps(p) =>
                   \E a \in Jobs : job[a].resumer = "record"

\* What is copied to the card is a finished recording, of all the time between
\* the sleeps.
SavedWhole == failures = 0 => \A a \in Jobs : job[a].saved \in {"not yet", "whole"}

Playing(p) == proc[p].kind = "play" /\ proc[p].phase = "running"
AtRest     == ~dumping /\ ~Due

\* Slide 23: and the video is played again.  Whenever all threads have done
\* their work a player plays; a player that fails is replaced two alarms later.
VideoIsBack == AtRest /\ Healthy => \E p \in Procs : Playing(p)

\* Recording a is over: both threads have returned, so that neither is blocked
\* in mplayer_cmd, and its mplayer_cmd and its dump have ended.  The dump of the
\* last recording may go on if a player has failed: the scan found mplayer_cmd, and
\* the dump began only then.
IsOver(a) == /\ job[a].dumper = "done" /\ job[a].resumer = "done"
             /\ a < Len(job) \/ Healthy =>
                   \A p \in Procs : proc[p].of = a /\ proc[p].phase # "gone"
                                       => proc[p].kind = "play"

\* Every recording comes to an end, also one whose mplayer_cmd finds no player to
\* read the fifo; a dump its own recording has not stopped is by the next one.
Ends == \A a \in 1 .. MaxAlarms : []<>(a \in Jobs => IsOver(a))
=============================================================================
