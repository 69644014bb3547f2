------------------------ MODULE ObstacleAlarmProofs ------------------------
(***************************************************************************)
(* Proofs about ObstacleAlarm: any sizes of the read and of the buffers,   *)
(* any number of reads to an alarm, any value of the uninitialised count.  *)
(***************************************************************************)
EXTENDS ObstacleAlarm, FiniteSetTheorems, TLAPS

LEMMA MinOfTwo ==
  ASSUME NEW a \in Int, NEW b \in Int
  PROVE  Min({a, b}) = IF a <= b THEN a ELSE b
  BY DEF Min

\* A read that counts takes bytes that are there, one at least.
LEMMA CountedBytes ==
  ASSUME TypeOK, NEW n, Counted(n)
  PROVE  n \in Nat /\ 1 <= n /\ n <= queue
<1>1. MAXLINE \in Int /\ queue \in Int
  BY SizesAssumption DEF TypeOK
<1>2. Min({MAXLINE, queue}) = IF MAXLINE <= queue THEN MAXLINE ELSE queue
  BY <1>1, MinOfTwo
<1> QED
  BY <1>1, <1>2 DEF Counted

-----------------------------------------------------------------------------
(* Type correctness. *)

LEMMA TypeInit == Init => TypeOK
<1> SUFFICES ASSUME Init PROVE TypeOK
  OBVIOUS
<1>1. /\ reports \in BOOLEAN /\ serverUp \in BOOLEAN /\ onoff \in BOOLEAN
      /\ dumping \in BOOLEAN /\ sounding \in BOOLEAN /\ first \in BOOLEAN
      /\ unheard \in BOOLEAN
  BY DEF Init
<1>2. /\ sender \in {"asking", "writing"}
      /\ handler \in {"idle", "tested", "cleared"}
      /\ sounding => handler = "cleared"
  BY DEF Init
<1>3. queue \in 0 .. Room /\ fresh \in 0 .. AlarmAfter
  BY SizesAssumption DEF Init
<1>4. cnt \in Int /\ (cnt < AlarmAfter \/ first)
  BY GarbageAssumption DEF Init
<1> QED
  BY <1>1, <1>2, <1>3, <1>4 DEF TypeOK

LEMMA TypeRead == TypeOK /\ Read => TypeOK'
<1> SUFFICES ASSUME TypeOK, NEW n \in 0 .. MAXLINE, Counted(n),
                    queue' = queue - n,
                    IF cnt + 1 >= AlarmAfter
                       THEN Alarm
                       ELSE /\ cnt' = cnt + 1
                            /\ fresh' = Min({AlarmAfter, fresh + n})
                            /\ UNCHANGED <<onoff, dumping, first, unheard>>,
                    UNCHANGED <<reports, serverUp, sender, handler, sounding>>
             PROVE  TypeOK'
  BY DEF Read
<1>1. queue' \in 0 .. Room
  BY CountedBytes, SizesAssumption DEF TypeOK
<1>2. CASE cnt + 1 >= AlarmAfter
  <2>1. /\ cnt' \in Int /\ cnt' < AlarmAfter /\ fresh' \in 0 .. AlarmAfter
    BY <1>2, SizesAssumption DEF Alarm
  <2>2. /\ onoff' \in BOOLEAN /\ dumping' \in BOOLEAN
        /\ first' \in BOOLEAN /\ unheard' \in BOOLEAN
    BY <1>2 DEF Alarm
  <2> QED
    BY <1>1, <2>1, <2>2 DEF TypeOK
<1>3. CASE ~(cnt + 1 >= AlarmAfter)
  <2>1. fresh' \in 0 .. AlarmAfter
    <3>1. fresh + n \in Nat /\ AlarmAfter \in Nat
      BY CountedBytes, SizesAssumption DEF TypeOK
    <3> QED
      BY <1>3, <3>1, MinOfTwo
  <2>2. cnt' \in Int /\ cnt' < AlarmAfter
    BY <1>3, SizesAssumption DEF TypeOK
  <2>3. UNCHANGED <<onoff, dumping, first, unheard>>
    BY <1>3
  <2> QED
    BY <1>1, <2>1, <2>2, <2>3 DEF TypeOK
<1> QED
  BY <1>2, <1>3

LEMMA TypeSignal == TypeOK /\ Signal => TypeOK'
<1> SUFFICES ASSUME TypeOK, Signal
             PROVE  TypeOK'
  OBVIOUS
<1>1. /\ onoff' \in BOOLEAN /\ sounding' \in BOOLEAN /\ unheard' \in BOOLEAN
      /\ handler' \in {"idle", "tested", "cleared"}
      /\ sounding' => handler' = "cleared"
  <2>1. CASE Test
    BY <2>1 DEF TypeOK, Test
  <2>2. CASE Clear
    BY <2>2 DEF TypeOK, Clear
  <2>3. CASE Sound
    BY <2>3 DEF TypeOK, Sound
  <2>4. CASE Hush
    BY <2>4 DEF TypeOK, Hush
  <2> QED
    BY <2>1, <2>2, <2>3, <2>4 DEF Signal
<1>2. UNCHANGED <<reports, serverUp, sender, queue, cnt, dumping, first, fresh>>
  BY DEF Signal
<1> QED
  BY <1>1, <1>2 DEF TypeOK

LEMMA TypeStep == TypeOK /\ [Next]_vars => TypeOK'
<1> SUFFICES ASSUME TypeOK, [Next]_vars
             PROVE  TypeOK'
  OBVIOUS
<1>1. CASE Change \/ Ask \/ ServerEnds
  <2>1. reports' \in BOOLEAN /\ serverUp' \in BOOLEAN /\ sender' \in {"asking", "writing"}
    BY <1>1 DEF TypeOK, Change, Ask, ServerEnds
  <2>2. UNCHANGED <<queue, clientVars>>
    BY <1>1 DEF Change, Ask, ServerEnds
  <2> QED
    BY <2>1, <2>2 DEF TypeOK, clientVars
<1>2. CASE Write
  BY <1>2, SizesAssumption DEF TypeOK, Write, clientVars
<1>3. CASE Resume
  BY <1>3 DEF TypeOK, Resume
<1>4. CASE UNCHANGED vars
  BY <1>4 DEF TypeOK, vars
<1> QED
  BY <1>1, <1>2, <1>3, <1>4, TypeRead, TypeSignal DEF Next

\* The connection never holds more than its room, and the count stays below
\* the number of reads that make an alarm once there has been one.
THEOREM TypeCorrect == Spec => []TypeOK
  BY TypeInit, TypeStep, PTL DEF Spec

-----------------------------------------------------------------------------
(* No alarm without reports. *)

LEMMA CountsStep == TypeOK /\ CountsReports /\ [Next]_vars => CountsReports'
<1> SUFFICES ASSUME TypeOK, CountsReports, [Next]_vars
             PROVE  CountsReports'
  OBVIOUS
<1>1. CASE Read
  <2>1. PICK n \in 0 .. MAXLINE :
           /\ Counted(n)
           /\ IF cnt + 1 >= AlarmAfter
                 THEN Alarm
                 ELSE /\ cnt' = cnt + 1
                      /\ fresh' = Min({AlarmAfter, fresh + n})
                      /\ UNCHANGED <<onoff, dumping, first, unheard>>
    BY <1>1 DEF Read
  <2>2. n \in Nat /\ 1 <= n
    BY <2>1, CountedBytes
  <2>3. CASE cnt + 1 >= AlarmAfter
    BY <2>1, <2>3 DEF Alarm, CountsReports
  <2>4. CASE ~(cnt + 1 >= AlarmAfter)
    <3>1. fresh + n \in Int /\ AlarmAfter \in Int
      BY <2>2, SizesAssumption DEF TypeOK
    <3>2. fresh' = IF AlarmAfter <= fresh + n THEN AlarmAfter ELSE fresh + n
      BY <2>1, <2>4, <3>1, MinOfTwo
    <3>3. cnt' = cnt + 1 /\ first' = first
      BY <2>1, <2>4
    <3>4. fresh \in Int /\ cnt \in Int
      BY DEF TypeOK
    <3> QED
      BY <2>2, <2>4, <3>1, <3>2, <3>3, <3>4 DEF CountsReports
  <2> QED
    BY <2>3, <2>4
<1>2. CASE Change \/ Ask \/ Write \/ ServerEnds
  BY <1>2 DEF Change, Ask, Write, ServerEnds, clientVars, CountsReports
<1>3. CASE Resume \/ Signal
  BY <1>3 DEF Resume, Signal, CountsReports
<1>4. CASE UNCHANGED vars
  BY <1>4 DEF vars, CountsReports
<1> QED
  BY <1>1, <1>2, <1>3, <1>4 DEF Next

\* After the first alarm tcp_read_thread raises none for fewer than AlarmAfter
\* bytes from the server, however TCP gathers them.
THEOREM CountStandsForReports == Spec => []CountsReports
<1>1. Init => CountsReports
  BY DEF Init, CountsReports
<1> QED
  BY <1>1, TypeInit, TypeStep, CountsStep, PTL DEF Spec

-----------------------------------------------------------------------------
(* No alarm is lost between the reader thread and the signal handler. *)

\* The handler that has found the flag set still finds it set when it comes
\* to clear it: nobody else clears it.
FlagStays == handler = "tested" => onoff

LEMMA KeptStep == TypeOK /\ AlarmKept /\ FlagStays /\ [Next]_vars
                     => AlarmKept' /\ FlagStays'
<1> SUFFICES ASSUME TypeOK, AlarmKept, FlagStays, [Next]_vars
             PROVE  AlarmKept' /\ FlagStays'
  OBVIOUS
<1>1. CASE Read
  <2>1. handler' = handler /\ sounding' = sounding
    BY <1>1 DEF Read
  <2>2. \/ onoff' = TRUE
        \/ onoff' = onoff /\ unheard' = unheard
    BY <1>1 DEF Read, Alarm
  <2> QED
    BY <2>1, <2>2 DEF AlarmKept, FlagStays
<1>2. CASE Signal
  BY <1>2 DEF TypeOK, Signal, Test, Clear, Sound, Hush, AlarmKept, FlagStays
<1>3. CASE Change \/ Ask \/ Write \/ ServerEnds
  BY <1>3 DEF Change, Ask, Write, ServerEnds, clientVars, AlarmKept, FlagStays
<1>4. CASE Resume \/ UNCHANGED vars
  BY <1>4 DEF Resume, vars, AlarmKept, FlagStays
<1> QED
  BY <1>1, <1>2, <1>3, <1>4 DEF Next

\* Whenever the reader thread sets buzzer_onoff, between the handler's test
\* and its clearing of the flag too, a sound is still to come.
THEOREM AlarmsAreKept == Spec => []AlarmKept
<1>1. Init => AlarmKept /\ FlagStays
  BY DEF Init, AlarmKept, FlagStays
<1> QED
  BY <1>1, TypeInit, TypeStep, KeptStep, PTL DEF Spec
=============================================================================
