--------------------------- MODULE ObstacleAlarm ---------------------------
(***************************************************************************)
(* From the obstacle report to the buzzer: the obstacle thread of the      *)
(* server (th_ultra.c), which writes a byte in every turn of a busy loop   *)
(* as long as the sensor's driver reports; the TCP connection; the reader  *)
(* thread of the client, which counts reads, not bytes; the handler of the *)
(* one-second timer signal, which shares the flag buzzer_onoff with the    *)
(* reader; and the buzzer.                                                 *)
(***************************************************************************)
EXTENDS Integers, FiniteSetsExt

CONSTANTS MAXLINE,      \* bytes the reader asks for (30)
          AlarmAfter,   \* reads that make an alarm (50)
          Room,         \* bytes the connection holds before write blocks
          Garbage       \* what the uninitialised cnt may start with

ASSUME SizesAssumption == /\ MAXLINE \in Nat \ {0}
                          /\ AlarmAfter \in Nat \ {0}
                          /\ Room \in Nat \ {0}
ASSUME GarbageAssumption == Garbage \subseteq Int

VARIABLES reports,      \* what ultrasonic_read gives
          serverUp,     \* the server still runs
          sender,       \* the obstacle thread: "asking", "writing"
          queue,        \* bytes written and not yet read
          cnt,          \* the reader's count
          onoff,        \* buzzer_onoff
          dumping,      \* a recording is under way
          handler,      \* the signal handler: "idle", "tested", "cleared"
          sounding,     \* the buzzer's PWM is enabled
          first,        \* history: no alarm yet
          fresh,        \* history: bytes read since the last alarm
          unheard       \* history: no sound has begun since the last alarm

vars == <<reports, serverUp, sender, queue, cnt, onoff, dumping, handler,
          sounding, first, fresh, unheard>>

TypeOK == /\ reports \in BOOLEAN /\ serverUp \in BOOLEAN
          /\ sender \in {"asking", "writing"}
          /\ queue \in 0 .. Room
          /\ cnt \in Int
          /\ cnt < AlarmAfter \/ first
          /\ onoff \in BOOLEAN /\ dumping \in BOOLEAN
          /\ handler \in {"idle", "tested", "cleared"}
          /\ sounding \in BOOLEAN
          /\ sounding => handler = "cleared"
          /\ first \in BOOLEAN /\ unheard \in BOOLEAN
          /\ fresh \in 0 .. AlarmAfter

Init == /\ reports \in BOOLEAN
        /\ serverUp = TRUE
        /\ sender = "asking"
        /\ queue = 0
        /\ cnt \in Garbage
        /\ onoff = FALSE
        /\ dumping = FALSE
        /\ handler = "idle"
        /\ sounding = FALSE
        /\ first = TRUE
        /\ fresh = 0
        /\ unheard = FALSE

clientVars == <<cnt, onoff, dumping, handler, sounding, first, fresh, unheard>>

-----------------------------------------------------------------------------
(* The server. *)

\* The driver begins or ceases to report.
Change == /\ reports' = ~reports
          /\ UNCHANGED <<serverUp, sender, queue, clientVars>>

\* read(fd, buff, 1) of the obstacle thread: it asks again, or goes on to write.
Ask == /\ serverUp
       /\ sender = "asking"
       /\ reports
       /\ sender' = "writing"
       /\ UNCHANGED <<reports, serverUp, queue, clientVars>>

\* write of one byte: strlen(buff) is 1.  It blocks while there is no room.
Write == /\ serverUp
         /\ sender = "writing"
         /\ queue < Room
         /\ queue' = queue + 1
         /\ sender' = "asking"
         /\ UNCHANGED <<reports, serverUp, clientVars>>

\* The server's process ends, by the exit of main, or that of the obstacle thread
\* when it cannot open the sensor; what was written still arrives.
ServerEnds == /\ serverUp
              /\ serverUp' = FALSE
              /\ UNCHANGED <<reports, sender, queue, clientVars>>

-----------------------------------------------------------------------------
(* The client. *)

\* A faulty variant: the reader does not look at size, and goes on counting
\* the reads of 0 bytes that follow each other when the server is gone.
Counted_Zero(n) == \/ n \in 1 .. Min({MAXLINE, queue})
                   \/ n = 0 /\ queue = 0 /\ ~serverUp
\* What a read that counts may return: some of the bytes written, at most
\* MAXLINE.  buf[0] is then a report, the server writes nothing else.
Counted(n) == n \in 1 .. Min({MAXLINE, queue})

\* A faulty variant: cnt goes on from where it is.
Alarm_NoReset == /\ cnt' = cnt + 1
                 /\ onoff' = TRUE
                 /\ dumping' = TRUE
                 /\ first' = FALSE /\ fresh' = 0 /\ unheard' = TRUE
\* A faulty variant: no sound while a recording is under way.
Alarm_SilentDump == /\ cnt' = 0
                    /\ onoff' = (onoff \/ ~dumping)
                    /\ dumping' = TRUE
                    /\ first' = FALSE /\ fresh' = 0 /\ unheard' = TRUE
\* The AlarmAfter-th read: a recording is started unless one is under way,
\* and the buzzer's flag is set.
Alarm == /\ cnt' = 0
         /\ onoff' = TRUE
         /\ dumping' = TRUE
         /\ first' = FALSE /\ fresh' = 0 /\ unheard' = TRUE

\* One turn of tcp_read_thread with data: however many bytes the read
\* returns, it counts one.  A turn without data changes nothing.
Read == \E n \in 0 .. MAXLINE :
           /\ Counted(n)
           /\ queue' = queue - n
           /\ IF cnt + 1 >= AlarmAfter
                 THEN Alarm
                 ELSE /\ cnt' = cnt + 1
                      /\ fresh' = Min({AlarmAfter, fresh + n})
                      /\ UNCHANGED <<onoff, dumping, first, unheard>>
           /\ UNCHANGED <<reports, serverUp, sender, handler, sounding>>

\* The resume thread of the recorder is done with the recording.
Resume == /\ dumping
          /\ dumping' = FALSE
          /\ UNCHANGED <<reports, serverUp, sender, queue, cnt, onoff, handler,
                         sounding, first, fresh, unheard>>

\* The timer's signal, once a second, finds the flag set ...
Test == /\ handler = "idle"
        /\ onoff
        /\ handler' = "tested"
        /\ UNCHANGED <<onoff, sounding, unheard>>

\* ... clears it ...
Clear == /\ handler = "tested"
         /\ onoff' = FALSE
         /\ handler' = "cleared"
         /\ UNCHANGED <<sounding, unheard>>

\* ... and makes the buzzer's ioctl, which enables the PWM,
Sound == /\ handler = "cleared"
         /\ ~sounding
         /\ sounding' = TRUE
         /\ unheard' = FALSE
         /\ UNCHANGED <<handler, onoff>>

\* A faulty variant: the flag is cleared when the sound is over.
Hush_Clears == /\ sounding
               /\ sounding' = FALSE
               /\ handler' = "idle"
               /\ onoff' = FALSE
               /\ UNCHANGED unheard
\* waits 200 ms and disables it.  The thread that runs the handler blocks the signal
\* all that time; the timer's next one, which goes to the process, comes later, since
\* a handler is taken to begin less than 800 ms late.
Hush == /\ sounding
        /\ sounding' = FALSE
        /\ handler' = "idle"
        /\ UNCHANGED <<onoff, unheard>>

Signal == /\ Test \/ Clear \/ Sound \/ Hush
          /\ UNCHANGED <<reports, serverUp, sender, queue, cnt, dumping, first, fresh>>

Next == Change \/ Ask \/ Write \/ ServerEnds \/ Read \/ Resume \/ Signal

\* Both kernels schedule the threads, TCP delivers, the timer's signal comes
\* every second.  Nothing makes the recorder end.
Fairness == /\ WF_vars(Ask) /\ WF_vars(Write)
            /\ WF_vars(Read)
            /\ WF_vars(Signal)

Spec == Init /\ [][Next]_vars /\ Fairness

-----------------------------------------------------------------------------

\* No alarm without reports: after the first alarm, which the uninitialised
\* cnt may bring early, the count stands for as many bytes at least that the
\* server wrote since, however TCP gathers them and whether or not the server
\* still runs.
CountsReports == first \/ cnt <= fresh

\* An alarm raised at any point of the signal handler, between its test and
\* its clearing of the flag too, is not lost: as long as no sound has begun
\* since, the flag is set or the handler is about to sound.
AlarmKept == unheard => onoff \/ (handler = "cleared" /\ ~sounding)

\* Slide 24: the buzzer sounds when reports arrive.  While the driver goes on
\* reporting, it sounds again and again, whether or not recordings end.
NearSounds == <>[](reports /\ serverUp) => []<>sounding

\* When the reports end, or the server, the buzzer falls silent for good.
FallsSilent == <>[](~reports \/ ~serverUp) => <>[]~sounding
=============================================================================
