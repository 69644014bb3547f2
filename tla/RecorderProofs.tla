--------------------------- MODULE RecorderProofs ---------------------------
(***************************************************************************)
(* Proofs about Recorder for every number of recordings and every length   *)
(* of the sleeps: type correctness, whatever fails; and, as long as no     *)
(* player has failed by itself, what the recordings are worth.             *)
(***************************************************************************)
EXTENDS Recorder, SequenceTheorems, TLAPS

J == Len(job)
N == Len(proc)

-----------------------------------------------------------------------------
(* Type correctness. *)

JobRecord == [dumper : {"quit", "echo", "pause", "done"}, dleft : 0 .. Pause,
              resumer : {"record", "settle", "play", "done"},
              rleft : 0 .. Length + Grace,
              saved : {"not yet", "nothing", "cut", "short", "whole"}]

ProcRecord(n) == [kind : {"play", "dump", "cmd"}, of : 0 .. n,
                  phase : {"starting", "opened", "running", "leaving", "gone"}]

\* TypeOK says that dumping is set while some recording is under way; that the
\* copy of one may clear it needs that there is one at a time, the last.
OneRecording == \A a \in Jobs : job[a].resumer \in {"record", "settle"} => a = J

\* An mplayer_cmd is of the thread that waits for it.
AskersAreKnown == \A p \in Procs : proc[p].kind = "cmd" => proc[p].of \in Jobs

TypeInv == TypeOK /\ OneRecording /\ AskersAreKnown

\* A function on the indices of a sequence is a sequence of the same length.
LEMMA SeqOfSameLength ==
  ASSUME NEW S, NEW T, NEW s \in Seq(S), NEW t \in [DOMAIN s -> T]
  PROVE  t \in Seq(T) /\ Len(t) = Len(s) /\ DOMAIN t = DOMAIN s
<1>1. Len(s) \in Nat /\ DOMAIN s = 1 .. Len(s)
  BY LenProperties
<1>2. t \in Seq(T)
  BY <1>1, SeqDef
<1>3. Len(t) \in Nat /\ DOMAIN t = 1 .. Len(t) /\ DOMAIN t = 1 .. Len(s)
  BY <1>1, <1>2, LenProperties
<1> QED
  BY <1>1, <1>2, <1>3

\* What TypeOK says of the two sequences.
LEMMA Indices ==
  ASSUME TypeOK
  PROVE  /\ job \in Seq(JobRecord) /\ J \in Nat /\ Jobs = 1 .. J
         /\ \A a \in Jobs : job[a] \in JobRecord
         /\ proc \in Seq(ProcRecord(J)) /\ N \in Nat /\ Procs = 1 .. N
         /\ \A p \in Procs : proc[p] \in ProcRecord(J)
<1>1. job \in Seq(JobRecord) /\ proc \in Seq(ProcRecord(J))
  BY DEF TypeOK, JobRecord, ProcRecord, J
<1> QED
  BY <1>1, LenProperties, ElementOfSeq DEF Jobs, Procs, J, N

\* What is in the record of an alarm.
LEMMA JobFields ==
  ASSUME TypeOK, NEW a \in Jobs
  PROVE  /\ job[a].dumper \in {"quit", "echo", "pause", "done"}
         /\ job[a].resumer \in {"record", "settle", "play", "done"}
         /\ job[a].dleft \in 0 .. Pause /\ job[a].rleft \in 0 .. Length + Grace
         /\ job[a].saved \in {"not yet", "nothing", "cut", "short", "whole"}
BY Indices DEF JobRecord

\* The constants are numbers.
LEMMA Sleeps == /\ Pause \in Nat /\ Length \in Nat /\ Grace \in Nat /\ Lag \in Nat
                /\ Pause \in 0 .. Pause
                /\ Length \in 0 .. Length + Grace /\ Grace \in 0 .. Length + Grace
                /\ 0 \in 0 .. Pause
BY SleepsAssumption

\* An action that rewrites records of job leaves their number ...
LEMMA JobKeepsLength ==
  ASSUME TypeOK, job' \in [Jobs -> JobRecord]
  PROVE  job' \in Seq(JobRecord) /\ J' = J /\ Jobs' = Jobs
BY Indices, SeqOfSameLength DEF Jobs, J

\* ... and an alarm adds one.
LEMMA JobGrows ==
  ASSUME TypeOK, NEW r \in JobRecord, job' = Append(job, r)
  PROVE  /\ job' \in Seq(JobRecord) /\ J' = J + 1 /\ Jobs' = 1 .. J + 1
         /\ job'[J + 1] = r /\ \A a \in Jobs : job'[a] = job[a]
BY Indices DEF Jobs, J

\* An action rewrites the record of one recording.
LEMMA JobEffect ==
  ASSUME TypeOK, NEW a \in Jobs, NEW r \in JobRecord, job' = [job EXCEPT ![a] = r]
  PROVE  /\ job' \in Seq(JobRecord) /\ J' = J /\ Jobs' = Jobs
         /\ job'[a] = r /\ \A b \in Jobs : b # a => job'[b] = job[b]
<1>1. job' \in [Jobs -> JobRecord]
  BY Indices DEF Jobs
<1> QED
  BY <1>1, JobKeepsLength DEF Jobs

LEMMA QuitEffect ==
  ASSUME TypeOK, NEW a \in Jobs, Quit(a)
  PROVE  /\ job' \in Seq(JobRecord) /\ J' = J /\ Jobs' = Jobs
         /\ job'[a].dumper = "echo" /\ job'[a].resumer = job[a].resumer
         /\ job'[a].rleft = job[a].rleft /\ job'[a].saved = job[a].saved
         /\ \A b \in Jobs : b # a => job'[b] = job[b]
<1> DEFINE r == [job[a] EXCEPT !.dumper = "echo"]
<1>1. job[a] \in JobRecord
  BY Indices
<1>2. r \in JobRecord
  BY <1>1 DEF JobRecord
<1>3. job' = [job EXCEPT ![a] = r]
  BY DEF Quit
<1>4. /\ r.dumper = "echo" /\ r.resumer = job[a].resumer
      /\ r.rleft = job[a].rleft /\ r.saved = job[a].saved
  BY <1>1 DEF JobRecord
<1> HIDE DEF r
<1> QED
  BY <1>2, <1>3, <1>4, JobEffect

LEMMA DumpEffect ==
  ASSUME TypeOK, NEW a \in Jobs, Dump(a)
  PROVE  /\ job' \in Seq(JobRecord) /\ J' = J /\ Jobs' = Jobs
         /\ job'[a].dumper = "done" /\ job'[a].resumer = job[a].resumer
         /\ job'[a].rleft = job[a].rleft /\ job'[a].saved = job[a].saved
         /\ \A b \in Jobs : b # a => job'[b] = job[b]
<1> DEFINE r == [job[a] EXCEPT !.dumper = "done"]
<1>1. job[a] \in JobRecord
  BY Indices
<1>2. r \in JobRecord
  BY <1>1 DEF JobRecord
<1>3. job' = [job EXCEPT ![a] = r]
  BY DEF Dump
<1>4. /\ r.dumper = "done" /\ r.resumer = job[a].resumer
      /\ r.rleft = job[a].rleft /\ r.saved = job[a].saved
  BY <1>1 DEF JobRecord
<1> HIDE DEF r
<1> QED
  BY <1>2, <1>3, <1>4, JobEffect

LEMMA PlayEffect ==
  ASSUME TypeOK, NEW a \in Jobs, Play(a)
  PROVE  /\ job' \in Seq(JobRecord) /\ J' = J /\ Jobs' = Jobs
         /\ job'[a].resumer = "done" /\ job'[a].dumper = job[a].dumper
         /\ job'[a].saved = job[a].saved
         /\ \A b \in Jobs : b # a => job'[b] = job[b]
<1> DEFINE r == [job[a] EXCEPT !.resumer = "done"]
<1>1. job[a] \in JobRecord
  BY Indices
<1>2. r \in JobRecord
  BY <1>1 DEF JobRecord
<1>3. job' = [job EXCEPT ![a] = r]
  BY DEF Play
<1>4. /\ r.resumer = "done" /\ r.dumper = job[a].dumper
      /\ r.saved = job[a].saved
  BY <1>1 DEF JobRecord
<1> HIDE DEF r
<1> QED
  BY <1>2, <1>3, <1>4, JobEffect

\* A copy is worth one of four things.
LEMMA CopiedIs == Copied \in {"nothing", "cut", "short", "whole"}
  BY Zenon DEF Copied

LEMMA CopyEffect ==
  ASSUME TypeOK, NEW a \in Jobs, Copy(a)
  PROVE  /\ job' \in Seq(JobRecord) /\ J' = J /\ Jobs' = Jobs
         /\ job'[a].resumer = "play" /\ job'[a].dumper = job[a].dumper
         /\ job'[a].rleft = job[a].rleft /\ job'[a].saved = Copied
         /\ \A b \in Jobs : b # a => job'[b] = job[b]
<1> DEFINE r == [job[a] EXCEPT !.resumer = "play", !.saved = Copied]
<1>1. job[a] \in JobRecord
  BY Indices
<1>2. r \in JobRecord
  BY <1>1, CopiedIs DEF JobRecord
<1>3. job' = [job EXCEPT ![a] = r]
  BY DEF Copy
<1>4. /\ r.resumer = "play" /\ r.dumper = job[a].dumper
      /\ r.rleft = job[a].rleft /\ r.saved = Copied
  BY <1>1 DEF JobRecord
<1> HIDE DEF r
<1> QED
  BY <1>2, <1>3, <1>4, JobEffect

\* The thread of recording p.of wakes up from mplayer_cmd and goes to sleep.
LEMMA EchoEffect ==
  ASSUME TypeOK, NEW a \in Jobs,
         job' = [job EXCEPT ![a].dumper = "pause", ![a].dleft = Pause]
  PROVE  /\ job' \in Seq(JobRecord) /\ J' = J /\ Jobs' = Jobs
         /\ job'[a].dumper = "pause" /\ job'[a].dleft = Pause
         /\ job'[a].resumer = job[a].resumer /\ job'[a].rleft = job[a].rleft
         /\ job'[a].saved = job[a].saved
         /\ \A b \in Jobs : b # a => job'[b] = job[b]
<1> DEFINE r == [job[a] EXCEPT !.dumper = "pause", !.dleft = Pause]
<1>1. job[a] \in JobRecord
  BY Indices
<1>2. r \in JobRecord
  BY <1>1, Sleeps, Zenon DEF JobRecord
<1>3. job' = [job EXCEPT ![a] = r]
  OBVIOUS
<1>4. /\ r.dumper = "pause" /\ r.dleft = Pause
      /\ r.resumer = job[a].resumer /\ r.rleft = job[a].rleft
      /\ r.saved = job[a].saved
  BY <1>1 DEF JobRecord
<1> HIDE DEF r
<1> QED
  BY <1>2, <1>3, <1>4, JobEffect

\* A sleep only gets shorter.
LEMMA LessFalls ==
  ASSUME NEW n \in Nat, NEW k \in 0 .. n
  PROVE  Less(k) \in 0 .. n /\ Less(k) = IF k > 0 THEN k - 1 ELSE 0
BY DEF Less

\* The sleeps go on.
LEMMA TickEffect ==
  ASSUME TypeOK, Tick
  PROVE  /\ job' \in Seq(JobRecord) /\ J' = J /\ Jobs' = Jobs
         /\ \A a \in Jobs :
               /\ job'[a].dumper = job[a].dumper /\ job'[a].resumer = job[a].resumer
               /\ job'[a].dleft = Less(job[a].dleft)
               /\ job'[a].rleft = Less(job[a].rleft)
               /\ job'[a].saved = job[a].saved
<1> DEFINE r(a) == [job[a] EXCEPT !.dleft = Less(@), !.rleft = Less(@)]
<1>1. ASSUME NEW a \in Jobs
      PROVE  /\ r(a) \in JobRecord
             /\ r(a).dumper = job[a].dumper /\ r(a).resumer = job[a].resumer
             /\ r(a).dleft = Less(job[a].dleft)
             /\ r(a).rleft = Less(job[a].rleft)
             /\ r(a).saved = job[a].saved
  <2>1. job[a] \in JobRecord
    BY Indices
  <2>2. Less(job[a].dleft) \in 0 .. Pause /\ Less(job[a].rleft) \in 0 .. Length + Grace
    <3>1. job[a].dleft \in 0 .. Pause /\ job[a].rleft \in 0 .. Length + Grace
      BY JobFields
    <3>2. Pause \in Nat /\ Length + Grace \in Nat
      BY Sleeps
    <3> QED
      BY <3>1, <3>2, LessFalls
  <2> QED
    BY <2>1, <2>2 DEF JobRecord
<1>2. job' = [a \in Jobs |-> r(a)]
  BY DEF Tick
<1> HIDE DEF r
<1>3. job' \in [Jobs -> JobRecord] /\ \A a \in Jobs : job'[a] = r(a)
  BY <1>1, <1>2
<1> QED
  BY <1>1, <1>3, JobKeepsLength

\* A process changes its phase ...
LEMMA AdvanceEffect ==
  ASSUME TypeOK, NEW p \in Procs, NEW phase, Advance(p, phase),
         phase \in {"starting", "opened", "running", "leaving", "gone"}
  PROVE  /\ proc' \in Seq(ProcRecord(J)) /\ N' = N /\ Procs' = Procs
         /\ proc'[p].kind = proc[p].kind /\ proc'[p].of = proc[p].of
         /\ proc'[p].phase = phase
         /\ \A q \in Procs : q # p => proc'[q] = proc[q]
<1>0. [proc[p] EXCEPT !.phase = phase] \in ProcRecord(J)
  <2>1. proc[p] \in ProcRecord(J)
    BY Indices
  <2> QED
    BY <2>1 DEF ProcRecord
<1>1. proc' \in [Procs -> ProcRecord(J)]
  BY <1>0, Indices DEF Advance, Procs
<1>2. proc' \in Seq(ProcRecord(J)) /\ N' = N /\ Procs' = Procs
  BY <1>1, Indices, SeqOfSameLength DEF Procs, N
<1>3. proc[p] \in ProcRecord(J)
  BY Indices
<1> QED
  BY <1>2, <1>3 DEF Advance, ProcRecord, Procs

\* ... or is forked.
LEMMA ForkEffect ==
  ASSUME TypeOK, NEW kind \in {"play", "dump", "cmd"}, NEW a \in 0 .. J, Fork(kind, a)
  PROVE  /\ proc' \in Seq(ProcRecord(J)) /\ N' = N + 1 /\ Procs' = 1 .. N + 1
         /\ proc'[N + 1].kind = kind /\ proc'[N + 1].of = a
         /\ proc'[N + 1].phase = IF kind = "cmd" THEN "running" ELSE "starting"
         /\ \A q \in Procs : proc'[q] = proc[q]
<1> DEFINE r == [kind |-> kind, of |-> a,
                 phase |-> IF kind = "cmd" THEN "running" ELSE "starting"]
<1>1. r \in ProcRecord(J)
  BY Indices DEF ProcRecord
<1>2. proc' = Append(proc, r)
  BY DEF Fork
<1> QED
  BY <1>1, <1>2, Indices DEF Procs, N

\* mplayer_close: the second thread goes on to its second sleep, no thread else
\* but the one of a mplayer_cmd it found moves, and no process comes or goes.
LEMMA CloseEffect ==
  ASSUME TypeInv, TypeOK, NEW a \in Jobs, Close(a)
  PROVE  /\ job' \in Seq(JobRecord) /\ J' = J /\ Jobs' = Jobs
         /\ \A b \in Jobs :
               /\ job'[b].resumer = IF b = a THEN "settle" ELSE job[b].resumer
               /\ job'[b].saved = job[b].saved
         /\ proc' \in Seq(ProcRecord(J)) /\ N' = N /\ Procs' = Procs
         /\ \A p \in Procs : proc'[p].kind = proc[p].kind /\ proc'[p].of = proc[p].of
<1> DEFINE s == [job[a] EXCEPT !.resumer = "settle", !.rleft = Grace]
           settled == [job EXCEPT ![a] = s]
           awake(b) == [settled[b] EXCEPT !.dumper = "pause", !.dleft = Pause]
           woken(b) == [settled EXCEPT ![b] = awake(b)]
<1>1. s \in JobRecord /\ s.resumer = "settle" /\ s.saved = job[a].saved
  <2>1. job[a] \in JobRecord
    BY Indices
  <2> QED
    BY <2>1, Sleeps, Zenon DEF JobRecord
<1>2. /\ settled \in [Jobs -> JobRecord]
      /\ \A b \in Jobs :
            /\ settled[b].resumer = IF b = a THEN "settle" ELSE job[b].resumer
            /\ settled[b].saved = job[b].saved
  <2> HIDE DEF s
  <2> QED
    BY <1>1, Indices DEF Jobs
<1>3. ASSUME NEW b \in Jobs
      PROVE  /\ woken(b) \in [Jobs -> JobRecord]
             /\ \A c \in Jobs : /\ woken(b)[c].resumer = settled[c].resumer
                                /\ woken(b)[c].saved = settled[c].saved
  <2> HIDE DEF settled
  <2>1. settled[b] \in JobRecord
    BY <1>2
  <2>2. /\ awake(b) \in JobRecord /\ awake(b).resumer = settled[b].resumer
        /\ awake(b).saved = settled[b].saved
    BY <2>1, Sleeps, Zenon DEF JobRecord
  <2> HIDE DEF awake
  <2> QED
    BY <1>2, <2>2
<1>4. CASE UNCHANGED proc /\ job' = settled
  <2> HIDE DEF settled
  <2> QED
    BY <1>2, <1>4, JobKeepsLength, Indices DEF Procs, N
<1>5. ASSUME NEW p \in Procs, Advance(p, AfterSignal(p)),
             job' = IF proc[p].kind = "cmd" THEN woken(proc[p].of) ELSE settled
      PROVE  /\ job' \in Seq(JobRecord) /\ J' = J /\ Jobs' = Jobs
             /\ \A b \in Jobs :
                   /\ job'[b].resumer = IF b = a THEN "settle" ELSE job[b].resumer
                   /\ job'[b].saved = job[b].saved
             /\ proc' \in Seq(ProcRecord(J)) /\ N' = N /\ Procs' = Procs
             /\ \A q \in Procs : proc'[q].kind = proc[q].kind /\ proc'[q].of = proc[q].of
  <2> HIDE DEF settled, woken
  <2>1. AfterSignal(p) \in {"gone", "leaving"}
    BY DEF AfterSignal
  <2>3. /\ proc' \in Seq(ProcRecord(J)) /\ N' = N /\ Procs' = Procs
        /\ \A q \in Procs : proc'[q].kind = proc[q].kind /\ proc'[q].of = proc[q].of
    BY <1>5, <2>1, AdvanceEffect
  <2>4. /\ job' \in [Jobs -> JobRecord]
        /\ \A b \in Jobs :
              /\ job'[b].resumer = IF b = a THEN "settle" ELSE job[b].resumer
              /\ job'[b].saved = job[b].saved
    <3>1. CASE proc[p].kind = "cmd"
      <4>1. proc[p].of \in Jobs
        BY <3>1 DEF TypeInv, AskersAreKnown
      <4> QED
        BY <1>2, <1>3, <1>5, <3>1, <4>1
    <3>2. CASE proc[p].kind # "cmd"
      BY <1>2, <1>5, <3>2
    <3> QED
      BY <3>1, <3>2
  <2> QED
    BY <2>3, <2>4, JobKeepsLength
<1> QED
  BY <1>4, <1>5, ZenonT(30) DEF Close, TypeInv

\* While dumping is set the last recording is under way, and no other.
LEMMA DumpingIs ==
  ASSUME TypeInv
  PROVE  dumping <=> J > 0 /\ job[J].resumer \in {"record", "settle"}
<1>1. J \in Nat /\ Jobs = 1 .. J
  BY Indices DEF TypeInv
<1>2. dumping <=> \E a \in Jobs : job[a].resumer \in {"record", "settle"}
  BY Zenon DEF TypeInv, TypeOK
<1>3. (\E a \in Jobs : job[a].resumer \in {"record", "settle"})
      <=> J > 0 /\ job[J].resumer \in {"record", "settle"}
  BY <1>1 DEF TypeInv, OneRecording
<1> QED
  BY <1>2, <1>3, Zenon

\* A step that leaves the recordings as they are.
LEMMA TypeOfProcesses ==
  ASSUME TypeInv, TypeOK, UNCHANGED <<dumping, job>>,
         proc' \in Seq(ProcRecord(J)), Procs \subseteq Procs',
         \A p \in Procs' : proc'[p].kind = "cmd" => proc'[p].of \in Jobs,
         quits' \in Nat, writer' \in {0} \cup Procs', tape' \in 0 .. Length,
         late' \in 0 .. Lag, failures' \in 0 .. MaxFailures, failedAt' \in 0 .. J
  PROVE  TypeInv'
<1>1. Jobs' = Jobs /\ J' = J
  BY DEF Jobs, J
<1>2. TypeOK'
  BY <1>1 DEF TypeOK, ProcRecord, J
<1>3. OneRecording' /\ AskersAreKnown'
  BY <1>1 DEF TypeInv, OneRecording, AskersAreKnown
<1> QED
  BY <1>2, <1>3 DEF TypeInv

\* A step that goes on with one recording.
LEMMA TypeOfJobs ==
  ASSUME TypeInv, TypeOK, J' = J, Jobs' = Jobs, job' \in Seq(JobRecord),
         dumping' <=> J > 0 /\ job'[J].resumer \in {"record", "settle"},
         \A a \in Jobs : a # J => job'[a].resumer \notin {"record", "settle"},
         proc' \in Seq(ProcRecord(J)), Procs \subseteq Procs',
         \A p \in Procs' : proc'[p].kind = "cmd" => proc'[p].of \in Jobs,
         quits' \in Nat, writer' \in {0, writer}, tape' \in 0 .. Length, late' \in 0 .. Lag,
         UNCHANGED <<failures, failedAt>>, dumping' \in BOOLEAN
  PROVE  TypeInv'
<1>1. J \in Nat /\ Jobs = 1 .. J
  BY Indices
<1>2. dumping' <=> \E a \in Jobs : job'[a].resumer \in {"record", "settle"}
  BY <1>1
<1>3. TypeOK'
  <2>1. writer' \in {0} \cup Procs'
    BY DEF TypeOK
  <2>2. \A x : x \in 0 .. J => x \in 0 .. Len(job')
    BY DEF J
  <2>3. proc' \in Seq(ProcRecord(Len(job')))
    BY DEF J
  <2>4. failedAt' \in 0 .. Len(job') /\ failures' \in 0 .. MaxFailures
    BY <2>2 DEF TypeOK, J
  <2> QED
    BY <1>2, <2>1, <2>3, <2>4 DEF TypeOK, ProcRecord, JobRecord, Jobs, Procs
<1>4. OneRecording' /\ AskersAreKnown'
  BY DEF TypeInv, OneRecording, AskersAreKnown
<1> QED
  BY <1>3, <1>4 DEF TypeInv

\* A process that ends leaves no more in the fifo than there was.
LEMMA EndIs ==
  ASSUME TypeOK, NEW p \in Procs, End(p)
  PROVE  Advance(p, "gone") /\ quits' \in {0, quits}
BY DEF End

LEMMA TypeInit == Init => TypeInv
<1> SUFFICES ASSUME Init
             PROVE  TypeInv
  OBVIOUS
<1>1. job \in Seq(JobRecord) /\ Len(job) = 0 /\ Jobs = {}
  BY DEF Init, Jobs
<1>2. /\ proc \in Seq(ProcRecord(0)) /\ Procs = {1}
      /\ proc[1].kind = "play"
  BY DEF Init, Procs, ProcRecord
<1>3. TypeOK
  <2>1. tape \in 0 .. Length /\ late \in 0 .. Lag /\ failures \in 0 .. MaxFailures
        /\ failedAt \in 0 .. Len(job) /\ writer \in {0} \cup Procs /\ quits \in Nat
    BY <1>1, Sleeps, BoundsAssumption DEF Init
  <2>2. dumping \in BOOLEAN
        /\ (dumping <=> \E a \in Jobs : job[a].resumer \in {"record", "settle"})
    BY <1>1, Zenon DEF Init
  <2>3. proc \in Seq(ProcRecord(Len(job)))
    BY <1>1, <1>2
  <2> QED
    BY <1>1, <2>1, <2>2, <2>3, Zenon DEF TypeOK, JobRecord, ProcRecord
<1> QED
  BY <1>1, <1>2, <1>3 DEF TypeInv, OneRecording, AskersAreKnown

LEMMA TypeStepAlarm ==
  ASSUME TypeInv, TypeOK, Alarm
  PROVE  TypeInv'
<1> DEFINE r == [dumper |-> "quit", dleft |-> 0, resumer |-> "record",
                 rleft |-> Length, saved |-> "not yet"]
<1>1. r \in JobRecord /\ r.resumer = "record"
  BY Sleeps DEF JobRecord
<1>2. job' = Append(job, r)
  BY DEF Alarm
<1> HIDE DEF r
<1>3. /\ job' \in Seq(JobRecord) /\ J' = J + 1 /\ Jobs' = 1 .. J + 1
      /\ job'[J + 1].resumer = "record" /\ \A a \in Jobs : job'[a] = job[a]
  BY <1>1, <1>2, JobGrows
<1>4. J \in Nat /\ Jobs = 1 .. J /\ proc \in Seq(ProcRecord(J))
  BY Indices
<1>5. ~(J > 0 /\ job[J].resumer \in {"record", "settle"})
  BY DumpingIs, Zenon DEF Alarm
<1>6. \A a \in Jobs : job[a].resumer \notin {"record", "settle"}
  BY <1>4, <1>5 DEF TypeInv, OneRecording
<1>7. proc' \in Seq(ProcRecord(J')) /\ proc' = proc
  <2>1. ProcRecord(J) \subseteq ProcRecord(J + 1)
    BY <1>4 DEF ProcRecord
  <2> QED
    BY <1>3, <1>4, <2>1, SeqMonotonic DEF Alarm
<1>8. TypeOK'
  <2>1. failedAt' \in 0 .. J'
    <3>1. failedAt \in 0 .. J /\ failedAt' = failedAt
      BY Zenon DEF Alarm, TypeOK, J
    <3> QED
      BY <1>3, <1>4, <3>1
  <2>2. J' = Len(job')
    BY DEF J
  <2>3. \E a \in Jobs' : job'[a].resumer = "record"
    BY <1>3, <1>4
  <2>4. UNCHANGED <<proc, quits, writer, tape, late, failures>> /\ dumping' = TRUE
    BY DEF Alarm
  <2> QED
    BY <1>3, <1>7, <2>1, <2>2, <2>3, <2>4 DEF TypeOK, JobRecord, ProcRecord, Jobs, Procs
<1>9. OneRecording' /\ AskersAreKnown'
  <2>1. OneRecording'
    BY <1>3, <1>4, <1>6 DEF OneRecording
  <2>2. AskersAreKnown'
    BY <1>3, <1>4, <1>7 DEF TypeInv, AskersAreKnown, Procs
  <2> QED
    BY <2>1, <2>2
<1> QED
  BY <1>8, <1>9 DEF TypeInv

LEMMA TypeStepThread ==
  ASSUME TypeInv, TypeOK, NEW a \in Jobs, Thread(a)
  PROVE  TypeInv'
<1>1. J \in Nat /\ Jobs = 1 .. J /\ proc \in Seq(ProcRecord(J)) /\ Procs = 1 .. N /\ N \in Nat
  BY Indices
<1>2. /\ dumping \in BOOLEAN
      /\ quits \in Nat /\ writer \in {0} \cup Procs /\ tape \in 0 .. Length /\ late \in 0 .. Lag
      /\ dumping <=> J > 0 /\ job[J].resumer \in {"record", "settle"}
  BY DumpingIs, Zenon DEF TypeOK
<1>3. \A b \in Jobs : b # J => job[b].resumer \notin {"record", "settle"}
  BY DEF TypeInv, OneRecording
<1>4. \A p \in Procs : proc[p].kind = "cmd" => proc[p].of \in Jobs
  BY DEF TypeInv, AskersAreKnown
<1>5. CASE Quit(a)
  <2>1. /\ job' \in Seq(JobRecord) /\ J' = J /\ Jobs' = Jobs
        /\ \A b \in Jobs : job'[b].resumer = job[b].resumer
    BY <1>5, QuitEffect
  <2>2. /\ Fork("cmd", a)
        /\ UNCHANGED <<dumping, quits, writer, tape, late, failures, failedAt>>
    BY <1>5 DEF Quit
  <2>3. /\ proc' \in Seq(ProcRecord(J)) /\ Procs \subseteq Procs'
        /\ \A p \in Procs' : proc'[p].kind = "cmd" => proc'[p].of \in Jobs
    <3>1. a \in 0 .. J
      BY <1>1
    <3>2. /\ proc' \in Seq(ProcRecord(J)) /\ Procs' = 1 .. N + 1
          /\ proc'[N + 1].of = a
          /\ \A q \in Procs : proc'[q] = proc[q]
      BY <2>2, <3>1, ForkEffect
    <3>3. \A p \in Procs' : p = N + 1 \/ p \in Procs
      BY <1>1, <3>2
    <3> QED
      BY <1>1, <1>4, <3>2, <3>3
  <2>4. /\ J > 0 /\ job'[J].resumer \in {"record", "settle"}
           <=> J > 0 /\ job[J].resumer \in {"record", "settle"}
        /\ \A b \in Jobs : b # J => job'[b].resumer \notin {"record", "settle"}
    BY <1>1, <1>3, <2>1
  <2> QED
    BY <1>2, <2>1, <2>2, <2>3, <2>4, TypeOfJobs
<1>6. CASE Dump(a)
  <2>1. /\ job' \in Seq(JobRecord) /\ J' = J /\ Jobs' = Jobs
        /\ \A b \in Jobs : job'[b].resumer = job[b].resumer
    BY <1>6, DumpEffect
  <2>2. /\ Fork("dump", a)
        /\ UNCHANGED <<dumping, quits, writer, tape, late, failures, failedAt>>
    BY <1>6 DEF Dump
  <2>3. /\ proc' \in Seq(ProcRecord(J)) /\ Procs \subseteq Procs'
        /\ \A p \in Procs' : proc'[p].kind = "cmd" => proc'[p].of \in Jobs
    <3>1. a \in 0 .. J
      BY <1>1
    <3>2. /\ proc' \in Seq(ProcRecord(J)) /\ Procs' = 1 .. N + 1
          /\ proc'[N + 1].of = a
          /\ \A q \in Procs : proc'[q] = proc[q]
      BY <2>2, <3>1, ForkEffect
    <3>3. \A p \in Procs' : p = N + 1 \/ p \in Procs
      BY <1>1, <3>2
    <3> QED
      BY <1>1, <1>4, <3>2, <3>3
  <2>4. /\ J > 0 /\ job'[J].resumer \in {"record", "settle"}
           <=> J > 0 /\ job[J].resumer \in {"record", "settle"}
        /\ \A b \in Jobs : b # J => job'[b].resumer \notin {"record", "settle"}
    BY <1>1, <1>3, <2>1
  <2> QED
    BY <1>2, <2>1, <2>2, <2>3, <2>4, TypeOfJobs
<1>7. CASE Close(a)
  <2>1. /\ job' \in Seq(JobRecord) /\ J' = J /\ Jobs' = Jobs
        /\ \A b \in Jobs : job'[b].resumer = IF b = a THEN "settle" ELSE job[b].resumer
        /\ proc' \in Seq(ProcRecord(J)) /\ N' = N /\ Procs' = Procs
        /\ \A p \in Procs : proc'[p].kind = proc[p].kind /\ proc'[p].of = proc[p].of
    BY <1>7, CloseEffect
  <2>2. UNCHANGED <<dumping, quits, writer, tape, late, failures, failedAt>>
        /\ job[a].resumer = "record"
    BY <1>7 DEF Close
  <2>3. a = J
    BY <2>2, <1>3
  <2> QED
    BY <1>1, <1>2, <1>3, <1>4, <2>1, <2>2, <2>3, TypeOfJobs
<1>8. CASE Copy(a)
  <2>1. /\ job' \in Seq(JobRecord) /\ J' = J /\ Jobs' = Jobs
        /\ job'[a].resumer = "play" /\ \A b \in Jobs : b # a => job'[b] = job[b]
    BY <1>8, CopyEffect
  <2>2. /\ UNCHANGED <<proc, quits, late, failures, failedAt>>
        /\ writer' = 0 /\ tape' = 0 /\ dumping' = FALSE
        /\ job[a].resumer = "settle"
    BY <1>8 DEF Copy
  <2>3. a = J
    BY <2>2, <1>3
  <2>4. tape' \in 0 .. Length
    BY <2>2, Sleeps
  <2>5. Procs' = Procs
    BY <2>2 DEF Procs
  <2> QED
    BY <1>1, <1>2, <1>3, <1>4, <2>1, <2>2, <2>3, <2>4, <2>5, TypeOfJobs
<1>9. CASE Play(a)
  <2>1. /\ job' \in Seq(JobRecord) /\ J' = J /\ Jobs' = Jobs
        /\ job'[a].resumer = "done" /\ \A b \in Jobs : b # a => job'[b] = job[b]
    BY <1>9, PlayEffect
  <2>2. /\ Fork("play", a) /\ job[a].resumer = "play"
        /\ UNCHANGED <<dumping, quits, writer, tape, late, failures, failedAt>>
    BY <1>9 DEF Play
  <2>3. /\ proc' \in Seq(ProcRecord(J)) /\ Procs \subseteq Procs'
        /\ \A p \in Procs' : proc'[p].kind = "cmd" => proc'[p].of \in Jobs
    <3>1. a \in 0 .. J
      BY <1>1
    <3>2. /\ proc' \in Seq(ProcRecord(J)) /\ Procs' = 1 .. N + 1
          /\ proc'[N + 1].of = a
          /\ \A q \in Procs : proc'[q] = proc[q]
      BY <2>2, <3>1, ForkEffect
    <3>3. \A p \in Procs' : p = N + 1 \/ p \in Procs
      BY <1>1, <3>2
    <3> QED
      BY <1>1, <1>4, <3>2, <3>3
  <2> QED
    BY <1>1, <1>2, <1>3, <2>1, <2>2, <2>3, TypeOfJobs
<1> QED
  BY <1>5, <1>6, <1>7, <1>8, <1>9 DEF Thread

LEMMA TypeStepProcess ==
  ASSUME TypeInv, TypeOK, NEW p \in Procs, Process(p) \/ Fail(p)
  PROVE  TypeInv'
<1>1. J \in Nat /\ Jobs = 1 .. J /\ proc \in Seq(ProcRecord(J)) /\ Procs = 1 .. N /\ N \in Nat
  BY Indices
<1>2. /\ quits \in Nat /\ writer \in {0} \cup Procs /\ tape \in 0 .. Length
      /\ late \in 0 .. Lag /\ failures \in 0 .. MaxFailures /\ failedAt \in 0 .. J
  BY DEF TypeOK, J
<1>3. \A q \in Procs : proc[q].kind = "cmd" => proc[q].of \in Jobs
  BY DEF TypeInv, AskersAreKnown
<1>4. ASSUME NEW phase \in {"opened", "running", "leaving", "gone"}, Advance(p, phase)
      PROVE  /\ proc' \in Seq(ProcRecord(J)) /\ Procs' = Procs
             /\ \A q \in Procs : proc'[q].kind = proc[q].kind /\ proc'[q].of = proc[q].of
  BY <1>4, AdvanceEffect
<1>5. CASE Echo(p)
  <2> DEFINE a == proc[p].of
  <2>1. a \in Jobs
    BY <1>3, <1>5 DEF Echo
  <2>2. /\ job' = [job EXCEPT ![a].dumper = "pause", ![a].dleft = Pause]
        /\ Advance(p, "gone") /\ quits' = quits + 1
        /\ UNCHANGED <<dumping, writer, tape, late, failures, failedAt>>
    BY <1>5 DEF Echo
  <2> HIDE DEF a
  <2>3. /\ job' \in Seq(JobRecord) /\ J' = J /\ Jobs' = Jobs
        /\ \A b \in Jobs : job'[b].resumer = job[b].resumer
    BY <2>1, <2>2, EchoEffect
  <2>4. /\ J > 0 /\ job'[J].resumer \in {"record", "settle"}
           <=> J > 0 /\ job[J].resumer \in {"record", "settle"}
        /\ \A b \in Jobs : b # J => job'[b].resumer \notin {"record", "settle"}
    BY <1>1, <2>3 DEF TypeInv, OneRecording
  <2>5. dumping \in BOOLEAN /\ (dumping <=> J > 0 /\ job[J].resumer \in {"record", "settle"})
    BY DumpingIs, Zenon DEF TypeOK
  <2>6. /\ proc' \in Seq(ProcRecord(J)) /\ Procs \subseteq Procs'
        /\ \A q \in Procs' : proc'[q].kind = "cmd" => proc'[q].of \in Jobs
    BY <1>3, <1>4, <2>2
  <2>7. quits' \in Nat /\ writer' \in {0, writer} /\ tape' \in 0 .. Length /\ late' \in 0 .. Lag
    BY <1>2, <2>2
  <2> QED
    BY <2>2, <2>3, <2>4, <2>5, <2>6, <2>7, TypeOfJobs
<1>6. CASE Open(p)
  BY <1>2, <1>3, <1>4, <1>6, TypeOfProcesses DEF Open
<1>7. CASE Bind(p)
  <2>1. CASE \E q \in Procs : HasPort(q)
    <3>1. /\ Advance(p, "gone") /\ quits' \in {0, quits}
          /\ UNCHANGED <<dumping, job, writer, tape, late, failures, failedAt>>
      BY <1>7, <2>1, EndIs DEF Bind
    <3> QED
      BY <1>2, <1>3, <1>4, <3>1, TypeOfProcesses
  <2>2. CASE ~\E q \in Procs : HasPort(q)
    <3>1. /\ Advance(p, "running") /\ quits' = quits /\ writer' \in {p, writer}
          /\ tape' \in {0, tape} /\ UNCHANGED <<dumping, job, late, failures, failedAt>>
      BY <1>7, <2>2 DEF Bind
    <3>2. tape' \in 0 .. Length
      BY <1>2, <3>1, Sleeps
    <3> QED
      BY <1>2, <1>3, <1>4, <3>1, <3>2, TypeOfProcesses
  <2> QED
    BY <2>1, <2>2
<1>8. CASE ObeyQuit(p)
  BY <1>2, <1>3, <1>4, <1>8, TypeOfProcesses DEF ObeyQuit
<1>9. CASE Leave(p)
  <2>1. /\ Advance(p, "gone") /\ quits' \in {0, quits}
        /\ UNCHANGED <<dumping, job, writer, tape, late, failures, failedAt>>
    BY <1>9, EndIs DEF Leave
  <2> QED
    BY <1>2, <1>3, <1>4, <2>1, TypeOfProcesses
<1>10. CASE Fail(p)
  <2>1. /\ Advance(p, "gone") /\ quits' \in {0, quits}
        /\ failures < MaxFailures /\ failures' = failures + 1 /\ failedAt' = J
        /\ UNCHANGED <<dumping, job, writer, tape, late>>
    BY <1>10, EndIs DEF Fail, J
  <2>2. failures' \in 0 .. MaxFailures /\ failedAt' \in 0 .. J
    BY <1>1, <1>2, <2>1, BoundsAssumption
  <2> QED
    BY <1>2, <1>3, <1>4, <2>1, <2>2, TypeOfProcesses
<1> QED
  BY <1>5, <1>6, <1>7, <1>8, <1>9, <1>10 DEF Process

LEMMA TypeStepTick ==
  ASSUME TypeInv, TypeOK, Tick
  PROVE  TypeInv'
<1>1. /\ job' \in Seq(JobRecord) /\ J' = J /\ Jobs' = Jobs
      /\ \A a \in Jobs : job'[a].resumer = job[a].resumer
  BY TickEffect
<1>2. J \in Nat /\ Jobs = 1 .. J /\ proc \in Seq(ProcRecord(J))
  BY Indices
<1>3. UNCHANGED <<dumping, proc, quits, writer, failures, failedAt>> /\ Procs' = Procs
  BY DEF Tick, Procs
<1>4. late' \in 0 .. Lag /\ tape' \in 0 .. Length
  <2>1. late \in 0 .. Lag /\ tape \in 0 .. Length /\ Lag \in Nat /\ Length \in Nat
    BY Sleeps DEF TypeOK
  <2>2. late' = 0 \/ (late < Lag /\ late' = late + 1)
    BY Zenon DEF Tick
  <2>3. tape' = tape \/ (tape < Length /\ tape' = tape + 1)
    BY Zenon DEF Tick
  <2> QED
    BY <2>1, <2>2, <2>3
<1>5. /\ J > 0 /\ job'[J].resumer \in {"record", "settle"}
         <=> J > 0 /\ job[J].resumer \in {"record", "settle"}
      /\ \A b \in Jobs : b # J => job'[b].resumer \notin {"record", "settle"}
  BY <1>1, <1>2 DEF TypeInv, OneRecording
<1>6. dumping \in BOOLEAN /\ (dumping <=> J > 0 /\ job[J].resumer \in {"record", "settle"})
  BY DumpingIs, Zenon DEF TypeOK
<1>7. \A q \in Procs : proc[q].kind = "cmd" => proc[q].of \in Jobs
  BY DEF TypeInv, AskersAreKnown
<1>8. quits \in Nat
  BY DEF TypeOK
<1> QED
  BY <1>1, <1>2, <1>3, <1>4, <1>5, <1>6, <1>7, <1>8, TypeOfJobs

LEMMA TypeStep == TypeInv /\ [Next]_vars => TypeInv'
<1> SUFFICES ASSUME TypeInv, [Next]_vars
             PROVE  TypeInv'
  OBVIOUS
<1>1. TypeOK
  BY DEF TypeInv
<1>2. CASE UNCHANGED vars
  BY <1>2 DEF vars, TypeInv, TypeOK, OneRecording, AskersAreKnown, Jobs, Procs, J
<1> QED
  BY <1>1, <1>2, TypeStepAlarm, TypeStepThread, TypeStepProcess, TypeStepTick DEF Next, Work

\* All variables keep their types, whatever fails and however long it goes on;
\* in particular dumping is set exactly while a recording is under way.
THEOREM TypeCorrect == Spec => []TypeOK
<1>1. TypeInv => TypeOK
  BY DEF TypeInv
<1> QED
  BY <1>1, TypeInit, TypeStep, PTL DEF Spec

-----------------------------------------------------------------------------
(* The inductive invariant. *)

\* What the sleeps must be for the two threads to meet as they should: what is
\* due is done before the shorter sleeps are over, and a dump has begun before
\* it is to be ended.
Timely == Lag < Pause /\ Lag < Grace /\ Pause + 2 * Lag < Length

\* Three processes for each recording, all in sight of mplayer_close.
Sighted == 3 * MaxAlarms <= Window

\* Recordings up to number k are over.
Over(k) == \A a \in 1 .. k : job[a].dumper = "done" /\ job[a].resumer = "done"

\* Of all processes only those in P may still be there.
Gone(P) == \A p \in Procs \ P : proc[p].phase = "gone"

Player(p) == proc[p].kind = "play" /\ proc[p].phase \in {"starting", "opened", "running"}
Asker(p)  == proc[p].kind = "cmd" /\ proc[p].phase = "running" /\ proc[p].of = J

\* The ticks since the last alarm, while its second thread sleeps.
Elapsed == Length - job[J].rleft

\* No recording is under way: a player plays, or will do so.
Showing ==
    /\ ~dumping
    /\ quits = 0 /\ writer = 0 /\ tape = 0
    /\ Over(J - 1)
    /\ J > 0 => job[J].dumper = "done"
    /\ \/ /\ J > 0 /\ job[J].resumer = "play" /\ job[J].rleft = 0
          /\ N = 3 * J /\ Gone({})
       \/ /\ J > 0 => job[J].resumer = "done"
          /\ N = 3 * J + 1 /\ Player(N) /\ Gone({N})

\* A recording is under way, its second thread asleep.
Recording == /\ dumping
             /\ J > 0
             /\ job[J].resumer = "record" /\ job[J].rleft <= Length
             /\ Over(J - 2)
             /\ J > 1 => job[J - 1].dumper = "done"

\* The player before it, if it is there by now, is not asked to quit yet.
Asking ==
    /\ Recording
    /\ quits = 0 /\ writer = 0 /\ tape = 0
    /\ Elapsed <= late
    /\ \/ /\ J > 1 /\ job[J - 1].resumer = "play" /\ job[J - 1].rleft = 0
          /\ \/ job[J].dumper = "quit" /\ N = 3 * J - 3 /\ Gone({})
             \/ job[J].dumper = "echo" /\ N = 3 * J - 2 /\ Asker(N) /\ Gone({N})
       \/ /\ J > 1 => job[J - 1].resumer = "done"
          /\ \/ job[J].dumper = "quit" /\ N = 3 * J - 2 /\ Player(N) /\ Gone({N})
             \/ /\ job[J].dumper = "echo" /\ N = 3 * J - 1 /\ Gone({N, N - 1})
                /\ \/ Player(N - 1) /\ Asker(N)
                   \/ Asker(N - 1) /\ Player(N)

\* It was asked and is still there.
Quitting ==
    /\ Recording
    /\ J > 1 => job[J - 1].resumer = "done"
    /\ writer = 0 /\ tape = 0
    /\ job[J].dumper = "pause"
    /\ Elapsed <= late
    /\ Pause <= Elapsed + job[J].dleft /\ Elapsed + job[J].dleft <= Pause + Lag
    /\ N = 3 * J - 1
    /\ \E p \in {N, N - 1} :
          /\ Gone({p})
          /\ proc[p].kind = "play"
          /\ \/ quits = 1 /\ proc[p].phase \in {"opened", "running"}
             \/ quits = 0 /\ proc[p].phase = "leaving"

\* It is gone, and the first thread sleeps.
Pausing ==
    /\ Recording
    /\ J > 1 => job[J - 1].resumer = "done"
    /\ quits = 0 /\ writer = 0 /\ tape = 0
    /\ job[J].dumper = "pause"
    /\ job[J].dleft > 0 => Elapsed + job[J].dleft <= Pause + Lag
    /\ job[J].dleft = 0 => Elapsed <= Pause + Lag + late
    /\ N = 3 * J - 1 /\ Gone({})

\* The dumping player is being set up, or dumps.
Dumping ==
    /\ Recording
    /\ J > 1 => job[J - 1].resumer = "done"
    /\ quits = 0
    /\ job[J].dumper = "done"
    /\ N = 3 * J /\ Gone({N}) /\ proc[N].kind = "dump"
    /\ \/ /\ proc[N].phase \in {"starting", "opened"}
          /\ writer = 0 /\ tape = 0
          /\ Elapsed <= Pause + Lag + late
       \/ /\ proc[N].phase = "running"
          /\ writer = N
          /\ Elapsed <= Pause + 2 * Lag + tape

\* It was told to end, and the second thread sleeps before the copy.
Settling ==
    /\ dumping
    /\ J > 0
    /\ Over(J - 1)
    /\ job[J].dumper = "done" /\ job[J].resumer = "settle"
    /\ quits = 0
    /\ N = 3 * J /\ Gone({N}) /\ proc[N].kind = "dump"
    /\ writer = N /\ tape >= Enough
    /\ \/ proc[N].phase = "leaving" /\ job[J].rleft >= Grace - late
       \/ proc[N].phase = "gone"

SavedSoFar == \A a \in Jobs : job[a].saved \in {"not yet", "whole"}

Phases == Showing \/ Asking \/ Quitting \/ Pausing \/ Dumping \/ Settling

UnfailedInv == failures = 0 => J <= MaxAlarms /\ SavedSoFar /\ Phases

-----------------------------------------------------------------------------
(* What a step does, as far as the phases speak of it. *)

\* Where something is due, Tick has to wait for it.
LEMMA DueIs ==
  ASSUME TypeOK,
         \/ \E a \in Jobs : \/ job[a].dumper = "quit"
                            \/ job[a].dumper = "pause" /\ job[a].dleft = 0
                            \/ job[a].resumer # "done" /\ job[a].rleft = 0
         \/ \E p \in Procs : proc[p].phase \in {"starting", "opened", "leaving"}
         \/ \E p \in Procs : proc[p].kind = "play" /\ proc[p].phase = "running" /\ quits > 0
         \/ /\ \E p \in Procs : proc[p].kind = "cmd" /\ proc[p].phase = "running"
            /\ \E q \in Procs : HasFifo(q)
  PROVE  Due
<1>1. "play" # "cmd" /\ "play" # "dump" /\ "cmd" # "dump"
  OBVIOUS
<1> QED
  BY <1>1, Zenon DEF Due

\* A tick of the clock: all sleeps and the tape, and nothing else.
LEMMA TickFacts ==
  ASSUME TypeOK, Tick
  PROVE  /\ UNCHANGED <<dumping, proc, quits, writer, failures>> /\ N' = N /\ Procs' = Procs
         /\ late \in Nat /\ late' \in Nat /\ late' <= Lag
         /\ Due => late' = late + 1
         /\ tape \in Nat /\ tape' \in Nat
         /\ writer = 0 => tape' = tape
         /\ tape <= tape'
         /\ writer # 0 /\ proc[writer].phase = "running" /\ tape < Length => tape' = tape + 1
<1>1. late \in 0 .. Lag /\ tape \in 0 .. Length /\ Lag \in Nat /\ Length \in Nat
  BY Sleeps DEF TypeOK
<1>2. /\ Due => late < Lag /\ late' = late + 1
      /\ late' = 0 \/ (late < Lag /\ late' = late + 1)
  BY Zenon DEF Tick
<1>3. /\ tape' = tape \/ (tape < Length /\ tape' = tape + 1)
      /\ writer = 0 => tape' = tape
      /\ writer # 0 /\ proc[writer].phase = "running" /\ tape < Length => tape' = tape + 1
  BY Zenon DEF Tick
<1>4. UNCHANGED <<dumping, proc, quits, writer, failures>> /\ N' = N /\ Procs' = Procs
  BY DEF Tick, N, Procs
<1> QED
  BY <1>1, <1>2, <1>3, <1>4

\* The ranges, as the phases need them.
LEMMA Numbers ==
  ASSUME TypeOK
  PROVE  /\ J \in Nat /\ N \in Nat /\ Jobs = 1 .. J /\ Procs = 1 .. N
         /\ quits \in Nat /\ late \in Nat /\ late <= Lag /\ tape \in Nat /\ tape <= Length
         /\ Lag \in Nat /\ Pause \in Nat /\ Grace \in Nat /\ Length \in Nat
         /\ \A a \in Jobs : job[a].dleft \in Nat /\ job[a].rleft \in Nat
<1>1. \A a \in Jobs : job[a].dleft \in Nat /\ job[a].rleft \in Nat
  <2> TAKE a \in Jobs
  <2>1. job[a].dleft \in 0 .. Pause /\ job[a].rleft \in 0 .. Length + Grace
    BY JobFields
  <2> QED
    BY <2>1
<1>2. quits \in Nat /\ late \in 0 .. Lag /\ tape \in 0 .. Length
  BY DEF TypeOK
<1> QED
  BY <1>1, <1>2, Indices, Sleeps

\* Phase by phase: Showing.
LEMMA ShowingStep ==
  ASSUME TypeInv, TypeOK, Timely, failures = 0, failures' = 0, Showing, Next
  PROVE  Showing' \/ Asking'
<1>0. /\ J \in Nat /\ N \in Nat /\ Jobs = 1 .. J /\ Procs = 1 .. N
      /\ \A p \in Procs : p # N => proc[p].phase = "gone"
      /\ \A a \in Jobs : job[a].dumper = "done" /\ job[a].resumer \in {"play", "done"}
      /\ \A a \in Jobs : a < J => job[a].resumer = "done"
  BY Numbers DEF Showing, Over, Gone
<1>1. CASE Alarm
  <2> DEFINE r == [dumper |-> "quit", dleft |-> 0, resumer |-> "record",
                   rleft |-> Length, saved |-> "not yet"]
  <2>1. r \in JobRecord
    BY Sleeps DEF JobRecord
  <2>2. job' = Append(job, r)
    BY <1>1 DEF Alarm
  <2>3. r.dumper = "quit" /\ r.resumer = "record" /\ r.rleft = Length
    OBVIOUS
  <2> HIDE DEF r
  <2>4. /\ J' = J + 1 /\ Jobs' = 1 .. J + 1
        /\ job'[J + 1].dumper = "quit" /\ job'[J + 1].resumer = "record"
        /\ job'[J + 1].rleft = Length
        /\ \A b \in Jobs : job'[b] = job[b]
    BY <2>1, <2>2, <2>3, JobGrows
  <2>5. dumping' /\ UNCHANGED <<proc, quits, writer, tape, late>> /\ N' = N /\ Procs' = Procs
    BY <1>1 DEF Alarm, N, Procs
  <2>6. Recording'
    BY <1>0, <2>4, <2>5, Sleeps DEF Recording, Over
  <2>7. Elapsed' <= late'
    BY <1>0, <2>4, <2>5, Numbers DEF Elapsed
  <2> QED
    BY <1>0, <2>4, <2>5, <2>6, <2>7 DEF Showing, Asking, Gone, Player
<1>2. ASSUME NEW a \in Jobs, Thread(a) PROVE Showing'
  <2>1. Play(a)
    BY <1>0, <1>2 DEF Thread, Quit, Dump, Close, Copy
  <2>2. a = J /\ job[J].resumer = "play" /\ N = 3 * J /\ Gone({})
    BY <1>0, <2>1 DEF Play, Showing
  <2>3. /\ J' = J /\ Jobs' = Jobs /\ job'[J].resumer = "done" /\ job'[J].dumper = "done"
        /\ \A b \in Jobs : b # J => job'[b] = job[b]
    BY <1>0, <2>1, <2>2, PlayEffect
  <2>4. Fork("play", J) /\ UNCHANGED <<dumping, quits, writer, tape>>
    BY <2>1, <2>2 DEF Play
  <2>5. /\ N' = N + 1 /\ Procs' = 1 .. N + 1
        /\ proc'[N + 1].kind = "play" /\ proc'[N + 1].phase = "starting"
        /\ \A q \in Procs : proc'[q] = proc[q]
    BY <1>0, <2>4, ForkEffect
  <2> QED
    BY <1>0, <2>2, <2>3, <2>4, <2>5 DEF Showing, Over, Gone, Player
<1>3. ASSUME NEW p \in Procs, Process(p) PROVE Showing'
  <2>1. p = N /\ (J > 0 => job[J].resumer = "done") /\ N = 3 * J + 1 /\ Player(N) /\ quits = 0
    BY <1>0, <1>3 DEF Process, Echo, Open, Bind, ObeyQuit, Leave, Showing, Gone, Player
  <2>2. \A q \in Procs : q # p => ~HasPort(q)
    BY <1>0, <2>1 DEF HasPort
  <2>3. CASE Open(p)
    <3>1. Advance(p, "opened") /\ UNCHANGED <<dumping, job, quits, writer, tape, late>>
      BY <2>3 DEF Open
    <3>2. /\ N' = N /\ Procs' = Procs /\ proc'[p].kind = proc[p].kind
          /\ proc'[p].phase = "opened" /\ \A q \in Procs : q # p => proc'[q] = proc[q]
      BY <3>1, AdvanceEffect
    <3> QED
      BY <1>0, <2>1, <3>1, <3>2 DEF Showing, Over, Gone, Player, J
  <2>4. CASE Bind(p)
    <3>1. ~HasPort(p)
      BY <2>4 DEF Bind, HasPort
    <3>2. Advance(p, "running") /\ UNCHANGED <<dumping, job, quits, writer, tape, late>>
      BY <2>1, <2>2, <2>4, <3>1 DEF Bind, Player
    <3>3. /\ N' = N /\ Procs' = Procs /\ proc'[p].kind = proc[p].kind
          /\ proc'[p].phase = "running" /\ \A q \in Procs : q # p => proc'[q] = proc[q]
      BY <3>2, AdvanceEffect
    <3> QED
      BY <1>0, <2>1, <3>2, <3>3 DEF Showing, Over, Gone, Player, J
  <2>5. ~Echo(p) /\ ~ObeyQuit(p) /\ ~Leave(p)
    BY <2>1 DEF Echo, ObeyQuit, Leave, Player
  <2> QED
    BY <1>3, <2>3, <2>4, <2>5 DEF Process
<1>4. CASE Tick
  <2>1. /\ UNCHANGED <<dumping, proc, quits, writer, tape>> /\ N' = N /\ Procs' = Procs
        /\ J' = J /\ Jobs' = Jobs
        /\ \A a \in Jobs : /\ job'[a].dumper = job[a].dumper
                           /\ job'[a].resumer = job[a].resumer
                           /\ job'[a].rleft = Less(job[a].rleft)
    BY <1>4, TickEffect, TickFacts DEF Showing
  <2> QED
    BY <1>0, <2>1 DEF Showing, Over, Gone, Player, Less
<1>5. ASSUME NEW p \in Procs, Fail(p) PROVE FALSE
  BY <1>5 DEF Fail
<1> QED
  BY <1>1, <1>2, <1>3, <1>4, <1>5 DEF Next, Work

\* From Asking the quit is sent, or the player goes on starting.
LEMMA AskingStep ==
  ASSUME TypeInv, TypeOK, Timely, failures = 0, failures' = 0, Asking, Next
  PROVE  Asking' \/ Quitting'
<1>0. /\ J \in Nat /\ N \in Nat /\ Jobs = 1 .. J /\ Procs = 1 .. N /\ J > 0
      /\ job[J].resumer = "record" /\ job[J].dumper \in {"quit", "echo"}
      /\ \A a \in Jobs : a < J => job[a].dumper = "done" /\ job[a].resumer \in {"play", "done"}
      /\ \A a \in Jobs : a < J - 1 => job[a].resumer = "done"
      /\ quits = 0
  <2>1. J \in Nat /\ N \in Nat /\ Jobs = 1 .. J /\ Procs = 1 .. N
    BY Numbers
  <2> QED
    BY <2>1 DEF Asking, Recording, Over
<1>1. job[J].rleft \in Nat /\ job[J].rleft > 0 /\ Length \in Nat /\ late \in Nat
  <2>1. Length - job[J].rleft <= late /\ late <= Lag /\ Lag < Length
    BY Numbers DEF Timely, Asking, Elapsed
  <2> QED
    BY <1>0, <2>1, Numbers
<1>2. \A p \in Procs : \/ proc[p].phase = "gone"
                       \/ Player(p)
                       \/ Asker(p) /\ job[J].dumper = "echo"
  BY <1>0 DEF Asking, Gone
<1>3. ~Alarm
  BY Zenon DEF Alarm, Asking, Recording
<1>4. ASSUME NEW a \in Jobs, Thread(a) PROVE Asking'
  <2>1. CASE a = J
    <3>1. Quit(J)
      BY SMTT(20), <1>0, <1>1, <1>4, <2>1 DEF Thread, Dump, Close, Copy, Play
    <3>2. /\ J' = J /\ Jobs' = Jobs /\ job'[J].dumper = "echo" /\ job'[J].resumer = "record"
          /\ job'[J].rleft = job[J].rleft /\ \A b \in Jobs : b # J => job'[b] = job[b]
      BY <1>0, <3>1, QuitEffect
    <3>3. /\ Fork("cmd", J) /\ UNCHANGED <<dumping, quits, writer, tape, late>>
          /\ job[J].dumper = "quit"
      BY <3>1 DEF Quit
    <3>4. /\ N' = N + 1 /\ Procs' = 1 .. N + 1
          /\ proc'[N + 1].kind = "cmd" /\ proc'[N + 1].of = J /\ proc'[N + 1].phase = "running"
          /\ \A q \in Procs : proc'[q] = proc[q]
      BY <1>0, <3>3, ForkEffect
    <3>5. Recording' /\ Elapsed' <= late'
      BY <1>0, <3>2, <3>3 DEF Asking, Recording, Over, Elapsed
    <3>6. quits' = 0 /\ writer' = 0 /\ tape' = 0
      BY <3>3 DEF Asking
    <3>7. CASE J > 1 /\ job[J - 1].resumer = "play"
      <4>1. N = 3 * J - 3 /\ Gone({}) /\ job[J - 1].rleft = 0
        BY <1>0, <3>3, <3>7 DEF Asking
      <4>2. N' = 3 * J' - 2 /\ Asker(N)' /\ Gone({N})'
        BY <1>0, <3>2, <3>4, <4>1 DEF Gone, Asker
      <4>3. job'[J - 1] = job[J - 1]
        BY <1>0, <3>2, <3>7
      <4> QED
        BY <1>0, <3>2, <3>5, <3>6, <3>7, <4>1, <4>2, <4>3 DEF Asking
    <3>8. CASE ~(J > 1 /\ job[J - 1].resumer = "play")
      <4>1. N = 3 * J - 2 /\ Player(N) /\ Gone({N}) /\ (J > 1 => job[J - 1].resumer = "done")
        BY <1>0, <3>3, <3>8 DEF Asking
      <4>2. N' = 3 * J' - 1 /\ Player(N - 1)' /\ Asker(N)' /\ Gone({N, N - 1})'
        BY <1>0, <3>2, <3>4, <4>1 DEF Gone, Player, Asker
      <4>3. J > 1 => job'[J - 1] = job[J - 1]
        BY <1>0, <3>2
      <4> QED
        BY <1>0, <3>2, <3>5, <3>6, <4>1, <4>2, <4>3 DEF Asking
    <3> QED
      BY <3>7, <3>8
  <2>2. CASE a # J
    <3>1. Play(a) /\ a = J - 1 /\ J > 1
      BY SMTT(20), <1>0, <1>4, <2>2 DEF Thread, Quit, Dump, Close, Copy, Play
    <3>2. /\ J' = J /\ Jobs' = Jobs
          /\ job'[J - 1].resumer = "done" /\ job'[J - 1].dumper = "done"
          /\ \A b \in Jobs : b # J - 1 => job'[b] = job[b]
      BY <1>0, <3>1, PlayEffect
    <3>3. /\ Fork("play", J - 1) /\ UNCHANGED <<dumping, quits, writer, tape, late>>
          /\ job[J - 1].resumer = "play"
      BY <3>1 DEF Play
    <3>4. /\ N' = N + 1 /\ Procs' = 1 .. N + 1
          /\ proc'[N + 1].kind = "play" /\ proc'[N + 1].phase = "starting"
          /\ \A q \in Procs : proc'[q] = proc[q]
      BY <1>0, <3>1, <3>3, ForkEffect
    <3>5. Recording' /\ Elapsed' <= late'
      BY <1>0, <3>1, <3>2, <3>3 DEF Asking, Recording, Over, Elapsed
    <3>6. quits' = 0 /\ writer' = 0 /\ tape' = 0
      BY <3>3 DEF Asking
    <3>7. CASE job[J].dumper = "quit"
      <4>1. N = 3 * J - 3 /\ Gone({})
        BY <3>1, <3>3, <3>7 DEF Asking
      <4>2. N' = 3 * J' - 2 /\ Player(N)' /\ Gone({N})'
        BY <1>0, <3>2, <3>4, <4>1 DEF Gone, Player
      <4> QED
        BY <1>0, <3>1, <3>2, <3>5, <3>6, <3>7, <4>2 DEF Asking
    <3>8. CASE job[J].dumper = "echo"
      <4>1. N = 3 * J - 2 /\ Asker(N) /\ Gone({N})
        BY <3>1, <3>3, <3>8 DEF Asking
      <4>2. N' = 3 * J' - 1 /\ Player(N)' /\ Asker(N - 1)' /\ Gone({N, N - 1})'
        BY <1>0, <3>2, <3>4, <4>1 DEF Gone, Player, Asker
      <4> QED
        BY <1>0, <3>1, <3>2, <3>5, <3>6, <3>8, <4>2 DEF Asking
    <3> QED
      BY <1>0, <3>7, <3>8
  <2> QED
    BY <2>1, <2>2
<1>5. ASSUME NEW p \in Procs, Process(p) PROVE Asking' \/ Quitting'
  <2>1. CASE Player(p)
    <3>1. ~Echo(p) /\ ~ObeyQuit(p) /\ ~Leave(p)
      BY <1>0, <2>1 DEF Echo, ObeyQuit, Leave, Player
    <3>2. \A q \in Procs : q # p => ~HasPort(q)
      BY <1>0, <2>1 DEF Asking, Gone, Player, Asker, HasPort
    <3>3. /\ \E phase \in {"opened", "running"} : Advance(p, phase)
          /\ UNCHANGED <<dumping, job, quits, writer, tape, late>>
      <4>1. CASE Open(p)
        BY <4>1 DEF Open
      <4>2. CASE Bind(p)
        <5>1. ~\E q \in Procs : HasPort(q)
          BY <3>2, <4>2 DEF Bind, HasPort
        <5> QED
          BY <2>1, <4>2, <5>1 DEF Bind, Player
      <4> QED
        BY <1>5, <3>1, <4>1, <4>2 DEF Process
    <3>4. /\ N' = N /\ Procs' = Procs /\ Player(p)'
          /\ \A q \in Procs : q # p => proc'[q] = proc[q]
      BY <2>1, <3>3, AdvanceEffect DEF Player
    <3>5. Recording' /\ Elapsed' <= late'
      BY <3>3 DEF Asking, Recording, Over, Elapsed, J
    <3>6. ~(J > 1 /\ job[J - 1].resumer = "play")
      <4>1. SUFFICES ASSUME J > 1, job[J - 1].resumer = "play"
                     PROVE  FALSE
        OBVIOUS
      <4>2. Gone({}) \/ (Gone({N}) /\ Asker(N))
        BY <1>0, <4>1 DEF Asking
      <4> QED
        BY <2>1, <4>2 DEF Gone, Player, Asker
    <3>6c. J > 1 => job[J - 1].resumer = "done"
      BY <1>0, <3>6
    <3>6a. job[J].dumper = "quit" => N = 3 * J - 2 /\ p = N /\ Gone({N})
      BY <1>0, <2>1, <3>6 DEF Asking, Gone, Player
    <3>6b. job[J].dumper = "echo" =>
                /\ N = 3 * J - 1 /\ Gone({N, N - 1})
                /\ (p = N /\ Asker(N - 1)) \/ (p = N - 1 /\ Asker(N))
      <4>1. SUFFICES ASSUME job[J].dumper = "echo"
                     PROVE  /\ N = 3 * J - 1 /\ Gone({N, N - 1})
                            /\ (p = N /\ Asker(N - 1)) \/ (p = N - 1 /\ Asker(N))
        OBVIOUS
      <4>2. /\ N = 3 * J - 1 /\ Gone({N, N - 1})
            /\ (Player(N - 1) /\ Asker(N)) \/ (Asker(N - 1) /\ Player(N))
        BY <3>6, <4>1, Zenon DEF Asking
      <4>3. p = N \/ p = N - 1
        BY <2>1, <4>2 DEF Gone, Player
      <4>4. \A q \in Procs : ~(Player(q) /\ Asker(q))
        BY DEF Player, Asker
      <4> QED
        BY <2>1, <4>2, <4>3, <4>4
    <3>7. /\ job[J].dumper = "quit" => N = 3 * J - 2 /\ Player(N)' /\ Gone({N})'
          /\ job[J].dumper = "echo" =>
                /\ N = 3 * J - 1 /\ Gone({N, N - 1})'
                /\ \/ Player(N)' /\ Asker(N - 1)'
                   \/ Player(N - 1)' /\ Asker(N)'
      <4>1. J' = J
        BY <3>3 DEF J
      <4>2. CASE job[J].dumper = "quit"
        BY <1>0, <3>4, <3>6a, <4>2 DEF Gone
      <4>3. CASE job[J].dumper = "echo"
        <5>1. \A q \in Procs : q # p => (Asker(q)' <=> Asker(q))
          BY <3>4, <4>1 DEF Asker
        <5>2. N - 1 \in Procs /\ N \in Procs /\ N' = N
          BY <1>0, <3>4, <3>6b, <4>3
        <5> QED
          <6>1. Gone({N, N - 1})'
            BY <1>0, <3>4, <3>6b, <4>3, <5>2 DEF Gone
          <6>2. N = 3 * J - 1 /\ ((p = N /\ Asker(N - 1)) \/ (p = N - 1 /\ Asker(N)))
            BY <3>6b, <4>3
          <6>3. p = N /\ Asker(N - 1) => Player(N)' /\ Asker(N - 1)'
            BY <1>0, <3>4, <5>1, <5>2
          <6>4. p = N - 1 /\ Asker(N) => Player(N - 1)' /\ Asker(N)'
            BY <1>0, <3>4, <5>1, <5>2
          <6> QED
            BY <4>3, <6>1, <6>2, <6>3, <6>4, Zenon
      <4> QED
        BY <4>2, <4>3
    <3>8. UNCHANGED <<job, J, N>> /\ quits' = 0 /\ writer' = 0 /\ tape' = 0
      BY <3>3, <3>4 DEF J, Asking
    <3> QED
      BY <1>0, <3>5, <3>6c, <3>7, <3>8 DEF Asking
  <2>2. CASE Asker(p)
    <3>1. Echo(p) /\ proc[p].of = J
      BY <1>5, <2>2 DEF Process, Open, Bind, ObeyQuit, Leave, Asker
    <3>2. PICK q \in Procs : HasFifo(q)
      BY <3>1 DEF Echo
    <3>3. /\ p # q /\ proc[q].kind = "play" /\ proc[q].phase \in {"opened", "running"}
          /\ N = 3 * J - 1 /\ {p, q} = {N, N - 1} /\ Gone({p, q})
          /\ J > 1 => job[J - 1].resumer = "done"
      BY SMTT(20), <1>0, <2>2, <3>2 DEF Asking, Gone, Player, Asker, HasFifo
    <3>4. /\ job' = [job EXCEPT ![J].dumper = "pause", ![J].dleft = Pause]
          /\ Advance(p, "gone") /\ quits' = quits + 1
          /\ UNCHANGED <<dumping, writer, tape, late>>
      BY <3>1 DEF Echo
    <3>5. /\ J' = J /\ Jobs' = Jobs /\ job'[J].dumper = "pause" /\ job'[J].dleft = Pause
          /\ job'[J].resumer = "record" /\ job'[J].rleft = job[J].rleft
          /\ \A b \in Jobs : b # J => job'[b] = job[b]
      <4>1. J \in Jobs
        BY <1>0
      <4> QED
        BY <1>0, <3>4, <4>1, EchoEffect, Zenon
    <3>6. /\ N' = N /\ Procs' = Procs /\ proc'[p].phase = "gone"
          /\ \A r \in Procs : r # p => proc'[r] = proc[r]
      BY <3>4, AdvanceEffect
    <3>7. Recording'
      <4>1. Recording /\ dumping' = dumping
        BY <3>4 DEF Asking
      <4> QED
        BY <1>0, <3>5, <4>1 DEF Recording, Over
    <3>8. /\ Elapsed' <= late' /\ Pause <= Elapsed' + job'[J].dleft
          /\ Elapsed' + job'[J].dleft <= Pause + Lag
      <4>1. Elapsed' = Elapsed /\ late' = late
        BY <3>4, <3>5 DEF Elapsed
      <4>2. Elapsed >= 0 /\ Elapsed \in Int
        BY <1>1 DEF Asking, Recording, Elapsed
      <4>3. Elapsed <= late /\ late <= Lag /\ Pause \in Nat /\ Lag \in Nat /\ late \in Nat
        BY Numbers DEF Asking
      <4> QED
        BY <3>5, <4>1, <4>2, <4>3
    <3>9. q \in {N, N - 1} /\ Gone({q})' /\ proc'[q] = proc[q]
      <4>1. \A r \in Procs \ {q} : proc'[r].phase = "gone"
        <5>1. \A r \in Procs \ {p, q} : proc'[r].phase = "gone"
          BY <3>3, <3>6 DEF Gone
        <5> QED
          BY <3>6, <5>1
      <4>2. Gone({q})'
        BY <3>6, <4>1 DEF Gone
      <4>3. q \in {N, N - 1}
        BY <3>3
      <4> QED
        BY <3>3, <3>6, <4>2, <4>3
    <3>10. quits' = 1 /\ writer' = 0 /\ tape' = 0 /\ N' = 3 * J' - 1
      BY <1>0, <3>3, <3>4, <3>5, <3>6 DEF Asking
    <3>11. J' > 1 => job'[J' - 1].resumer = "done"
      BY <1>0, <3>3, <3>5
    <3>12. \E r \in {N', N' - 1} :
             /\ Gone({r})'
             /\ proc'[r].kind = "play"
             /\ quits' = 1 /\ proc'[r].phase \in {"opened", "running"}
      BY <3>3, <3>6, <3>9, <3>10
    <3> QED
      BY <3>5, <3>7, <3>8, <3>10, <3>11, <3>12 DEF Quitting
  <2> QED
    BY <1>2, <1>5, <2>1, <2>2 DEF Process, Echo, Open, Bind, ObeyQuit, Leave
<1>6. CASE Tick
  <2>1. /\ UNCHANGED <<dumping, proc, quits, writer, tape>> /\ N' = N /\ Procs' = Procs
        /\ J' = J /\ Jobs' = Jobs
        /\ \A a \in Jobs : /\ job'[a].dumper = job[a].dumper
                           /\ job'[a].resumer = job[a].resumer
                           /\ job'[a].rleft = Less(job[a].rleft)
    BY <1>6, TickEffect, TickFacts DEF Asking
  <2>2. Due
    <3>1. CASE job[J].dumper = "quit"
      BY <1>0, <3>1, DueIs
    <3>2. CASE J > 1 /\ job[J - 1].resumer = "play" /\ job[J - 1].rleft = 0
      <4>1. J - 1 \in Jobs
        BY <1>0, <3>2
      <4> QED
        BY <3>2, <4>1, DueIs
    <3>3. CASE \E p, q \in Procs : Player(p) /\ Asker(q)
      <4>1. PICK p, q \in Procs : Player(p) /\ Asker(q)
        BY <3>3
      <4>2. proc[p].phase # "running" => Due
        BY <4>1, DueIs DEF Player
      <4>3. proc[p].phase = "running" => HasFifo(p)
        BY <4>1 DEF Player, HasFifo
      <4> QED
        BY <4>1, <4>2, <4>3, DueIs DEF Asker
    <3> QED
      BY <1>0, <3>1, <3>2, <3>3 DEF Asking
  <2>3. late' = late + 1 /\ job'[J].rleft = job[J].rleft - 1
    BY <1>0, <1>1, <1>6, <2>1, <2>2, TickFacts DEF Less
  <2>4. Recording' /\ Elapsed' <= late'
    BY SMTT(20), <1>0, <1>1, <2>1, <2>3 DEF Asking, Recording, Over, Elapsed
  <2>5. J > 1 /\ job[J - 1].rleft = 0 => job'[J - 1].rleft = 0
    BY <1>0, <2>1 DEF Less
  <2> QED
    BY <1>0, <2>1, <2>4, <2>5 DEF Asking, Gone, Player, Asker
<1>7. ASSUME NEW p \in Procs, Fail(p) PROVE FALSE
  BY <1>7 DEF Fail
<1> QED
  BY <1>3, <1>4, <1>5, <1>6, <1>7 DEF Next, Work

\* When all others are gone, nobody else has the fifo or the port.
LEMMA Alone ==
  ASSUME TypeOK, NEW p \in Procs, Gone({p})
  PROVE  \A q \in Procs : q # p => ~HasFifo(q) /\ ~HasPort(q)
BY DEF Gone, HasFifo, HasPort

\* What is gone does nothing.
LEMMA GoneRests ==
  ASSUME TypeOK, NEW q \in Procs, proc[q].phase = "gone"
  PROVE  ~Process(q)
BY DEF Process, Echo, Open, Bind, ObeyQuit, Leave

\* From Quitting the player obeys and ends.
LEMMA QuittingStep ==
  ASSUME TypeInv, TypeOK, Timely, failures = 0, failures' = 0, Quitting, Next
  PROVE  Quitting' \/ Pausing'
<1>0. /\ J \in Nat /\ N \in Nat /\ Jobs = 1 .. J /\ Procs = 1 .. N /\ J > 0
      /\ job[J].resumer = "record" /\ job[J].dumper = "pause"
      /\ \A a \in Jobs : a < J => job[a].dumper = "done" /\ job[a].resumer = "done"
      /\ N = 3 * J - 1 /\ writer = 0 /\ tape = 0
  <2>1. J \in Nat /\ N \in Nat /\ Jobs = 1 .. J /\ Procs = 1 .. N
    BY Numbers
  <2> QED
    BY <2>1 DEF Quitting, Recording, Over
<1>1. /\ job[J].rleft \in Nat /\ job[J].rleft > 0 /\ Length \in Nat /\ late \in Nat
      /\ job[J].dleft \in Nat /\ job[J].dleft > 0
  <2>1. /\ Length - job[J].rleft <= late /\ late <= Lag /\ Lag < Length /\ Lag < Pause
        /\ Pause <= (Length - job[J].rleft) + job[J].dleft
    BY Numbers DEF Timely, Quitting, Elapsed
  <2>2. J \in Jobs
    BY <1>0
  <2>3. /\ job[J].rleft \in Nat /\ job[J].dleft \in Nat /\ Length \in Nat /\ late \in Nat
        /\ Lag \in Nat /\ Pause \in Nat
    BY <2>2, Numbers
  <2> QED
    BY <2>1, <2>3
<1>2. PICK p \in {N, N - 1} :
        /\ Gone({p})
        /\ proc[p].kind = "play"
        /\ \/ quits = 1 /\ proc[p].phase \in {"opened", "running"}
           \/ quits = 0 /\ proc[p].phase = "leaving"
  BY DEF Quitting
<1>3. p \in Procs
  BY <1>0
<1>4. ~Alarm
  BY Zenon DEF Alarm, Quitting, Recording
<1>5. ASSUME NEW a \in Jobs, Thread(a) PROVE FALSE
  BY SMTT(20), <1>0, <1>1, <1>5 DEF Thread, Quit, Dump, Close, Copy, Play
<1>6. ASSUME NEW q \in Procs, Process(q) PROVE Quitting' \/ Pausing'
  <2>1. q = p
    BY <1>2, <1>6, GoneRests DEF Gone
  <2>2. ~Echo(p) /\ ~Open(p)
    BY <1>2 DEF Echo, Open
  <2>3. \A r \in Procs : r # p => ~HasFifo(r) /\ ~HasPort(r)
    BY <1>2, <1>3, Alone
  <2>4. ASSUME NEW phase \in {"running", "leaving"}, Advance(p, phase),
               quits' = IF phase = "running" THEN 1 ELSE 0,
               UNCHANGED <<dumping, job, writer, tape, late>>
        PROVE  Quitting'
    <3>1. /\ N' = N /\ Procs' = Procs /\ proc'[p].phase = phase
          /\ proc'[p].kind = proc[p].kind
          /\ \A r \in Procs : r # p => proc'[r] = proc[r]
      BY <1>3, <2>4, AdvanceEffect
    <3>2. Recording' /\ UNCHANGED <<J, Elapsed, job, writer, tape, late>>
      BY <2>4 DEF Quitting, Recording, Over, J, Elapsed
    <3>3. p \in {N', N' - 1} /\ Gone({p})' /\ proc'[p].kind = "play"
      BY <1>2, <3>1 DEF Gone
    <3>4. \/ quits' = 1 /\ proc'[p].phase \in {"opened", "running"}
          \/ quits' = 0 /\ proc'[p].phase = "leaving"
      BY <2>4, <3>1
    <3> QED
      BY <1>0, <3>1, <3>2, <3>3, <3>4 DEF Quitting
  <2>5. CASE Bind(p)
    <3>1. ~\E r \in Procs : HasPort(r)
      BY <2>3, <2>5 DEF Bind, HasPort
    <3>2. proc[p].kind # "dump" /\ quits = 1
      BY <1>2, <2>5 DEF Bind
    <3> QED
      BY <2>4, <2>5, <3>1, <3>2 DEF Bind
  <2>6. CASE ObeyQuit(p)
    <3>1. quits' = 0
      BY <1>2, <2>6 DEF ObeyQuit
    <3> QED
      BY <2>4, <2>6, <3>1 DEF ObeyQuit
  <2>7. CASE Leave(p)
    <3>1. /\ Advance(p, "gone") /\ quits' = 0
          /\ UNCHANGED <<dumping, job, writer, tape, late>>
      BY <2>3, <2>7 DEF Leave, End
    <3>2. /\ N' = N /\ Procs' = Procs /\ proc'[p].phase = "gone"
          /\ \A r \in Procs : r # p => proc'[r] = proc[r]
      BY <1>3, <3>1, AdvanceEffect
    <3>3. Recording' /\ UNCHANGED <<J, Elapsed, job, writer, tape, late>>
      BY <3>1 DEF Quitting, Recording, Over, J, Elapsed
    <3>4. Gone({})'
      BY <1>2, <3>2 DEF Gone
    <3>5. job[J].dleft > 0 /\ Elapsed + job[J].dleft <= Pause + Lag
      BY <1>1 DEF Quitting
    <3> QED
      BY <1>0, <1>1, <3>1, <3>2, <3>3, <3>4, <3>5 DEF Pausing
  <2> QED
    BY <1>6, <2>1, <2>2, <2>5, <2>6, <2>7 DEF Process
<1>7. CASE Tick
  <2>1. /\ UNCHANGED <<dumping, proc, quits, writer, tape>> /\ N' = N /\ Procs' = Procs
        /\ J' = J /\ Jobs' = Jobs
        /\ \A a \in Jobs : /\ job'[a].dumper = job[a].dumper
                           /\ job'[a].resumer = job[a].resumer
                           /\ job'[a].dleft = Less(job[a].dleft)
                           /\ job'[a].rleft = Less(job[a].rleft)
    BY <1>0, <1>7, TickEffect, TickFacts
  <2>2. Due
    BY <1>2, <1>3, DueIs
  <2>3. /\ late' = late + 1 /\ job'[J].rleft = job[J].rleft - 1
        /\ job'[J].dleft = job[J].dleft - 1
    BY <1>0, <1>1, <1>7, <2>1, <2>2, TickFacts DEF Less
  <2>4. Recording'
    BY <1>0, <1>1, <2>1, <2>3 DEF Quitting, Recording, Over
  <2>5. Elapsed' = Elapsed + 1
    BY <1>0, <1>1, <2>1, <2>3 DEF Elapsed
  <2>6. Elapsed \in Int /\ Pause \in Nat /\ Lag \in Nat
    BY <1>1, Numbers DEF Elapsed
  <2>7. /\ Elapsed' <= late' /\ Pause <= Elapsed' + job'[J].dleft
        /\ Elapsed' + job'[J].dleft <= Pause + Lag
    BY <1>1, <2>3, <2>5, <2>6 DEF Quitting
  <2>8. \E q \in {N', N' - 1} :
          /\ Gone({q})'
          /\ proc'[q].kind = "play"
          /\ \/ quits' = 1 /\ proc'[q].phase \in {"opened", "running"}
             \/ quits' = 0 /\ proc'[q].phase = "leaving"
    BY <1>2, <2>1 DEF Gone
  <2>9. J' > 1 => job'[J' - 1].resumer = "done"
    BY <1>0, <2>1
  <2>10. job'[J'].dumper = "pause" /\ N' = 3 * J' - 1 /\ writer' = 0 /\ tape' = 0
    BY <1>0, <2>1
  <2> QED
    BY <2>1, <2>4, <2>7, <2>8, <2>9, <2>10 DEF Quitting
<1>8. ASSUME NEW q \in Procs, Fail(q) PROVE FALSE
  BY <1>8 DEF Fail
<1> QED
  BY <1>4, <1>5, <1>6, <1>7, <1>8 DEF Next, Work

\* From Pausing the dumping player is started.
LEMMA PausingStep ==
  ASSUME TypeInv, TypeOK, Timely, failures = 0, failures' = 0, Pausing, Next
  PROVE  Pausing' \/ Dumping'
<1>0. /\ J \in Nat /\ N \in Nat /\ Jobs = 1 .. J /\ Procs = 1 .. N /\ J > 0
      /\ job[J].resumer = "record" /\ job[J].dumper = "pause"
      /\ \A a \in Jobs : a < J => job[a].dumper = "done" /\ job[a].resumer = "done"
      /\ \A p \in Procs : proc[p].phase = "gone"
      /\ N = 3 * J - 1 /\ quits = 0 /\ writer = 0 /\ tape = 0
  <2>1. J \in Nat /\ N \in Nat /\ Jobs = 1 .. J /\ Procs = 1 .. N
    BY Numbers
  <2> QED
    BY <2>1 DEF Pausing, Recording, Over, Gone
<1>1. /\ job[J].rleft \in Nat /\ job[J].dleft \in Nat /\ late \in Nat /\ late <= Lag
      /\ Pause \in Nat /\ Lag \in Nat /\ Length \in Nat
      /\ job[J].dleft > 0 => (Length - job[J].rleft) + job[J].dleft <= Pause + Lag
      /\ job[J].dleft = 0 => Length - job[J].rleft <= Pause + Lag + late
  BY <1>0, Numbers DEF Pausing, Elapsed
<1>2. job[J].rleft > 0
  BY <1>1 DEF Timely
<1>3. ~Alarm
  BY Zenon DEF Alarm, Pausing, Recording
<1>4. ASSUME NEW a \in Jobs, Thread(a) PROVE Dumping'
  <2>1. a = J /\ Dump(J)
    BY SMTT(20), <1>0, <1>2, <1>4 DEF Thread, Quit, Dump, Close, Copy, Play
  <2>2. /\ J' = J /\ Jobs' = Jobs /\ job'[J].dumper = "done"
        /\ job'[J].resumer = "record" /\ job'[J].rleft = job[J].rleft
        /\ \A b \in Jobs : b # J => job'[b] = job[b]
    BY <1>0, <2>1, DumpEffect
  <2>3. /\ Fork("dump", J) /\ UNCHANGED <<dumping, quits, writer, tape, late>>
        /\ job[J].dleft = 0
    BY <2>1 DEF Dump
  <2>4. /\ N' = N + 1 /\ Procs' = 1 .. N + 1
        /\ proc'[N + 1].kind = "dump" /\ proc'[N + 1].phase = "starting"
        /\ \A q \in Procs : proc'[q] = proc[q]
    BY <1>0, <2>3, ForkEffect
  <2>5. Recording'
    <3>1. Recording /\ dumping' = dumping
      BY <2>3 DEF Pausing
    <3> QED
      BY <1>0, <2>2, <3>1 DEF Recording, Over
  <2>6. Elapsed' <= Pause + Lag + late'
    BY <1>1, <2>2, <2>3 DEF Elapsed
  <2>7. N' = 3 * J' /\ Gone({N})' /\ proc'[N'].kind = "dump" /\ proc'[N'].phase = "starting"
    BY <1>0, <2>2, <2>4 DEF Gone
  <2> QED
    BY <1>0, <2>2, <2>3, <2>5, <2>6, <2>7 DEF Dumping
<1>5. ASSUME NEW p \in Procs, Process(p) PROVE FALSE
  BY <1>0, <1>5, GoneRests
<1>6. CASE Tick
  <2>1. /\ UNCHANGED <<dumping, proc, quits, writer, tape>> /\ N' = N /\ Procs' = Procs
        /\ J' = J /\ Jobs' = Jobs
        /\ \A a \in Jobs : /\ job'[a].dumper = job[a].dumper
                           /\ job'[a].resumer = job[a].resumer
                           /\ job'[a].dleft = Less(job[a].dleft)
                           /\ job'[a].rleft = Less(job[a].rleft)
    BY <1>0, <1>6, TickEffect, TickFacts
  <2>2. job[J].dleft = 0 => Due
    BY <1>0, DueIs
  <2>3. late' \in Nat /\ (job[J].dleft = 0 => late' = late + 1)
    BY <1>6, <2>2, TickFacts
  <2>4. /\ job'[J].rleft = job[J].rleft - 1
        /\ job'[J].dleft = IF job[J].dleft > 0 THEN job[J].dleft - 1 ELSE 0
    <3>1. J \in Jobs
      BY <1>0
    <3>2. job'[J].rleft = Less(job[J].rleft) /\ job'[J].dleft = Less(job[J].dleft)
      BY <2>1, <3>1
    <3> QED
      BY <1>1, <1>2, <3>2 DEF Less
  <2>5. Recording'
    BY SMTT(20), <1>0, <1>1, <2>1, <2>4 DEF Pausing, Recording, Over
  <2>6. /\ job'[J].dleft > 0 => (Length - job'[J].rleft) + job'[J].dleft <= Pause + Lag
        /\ job'[J].dleft = 0 => Length - job'[J].rleft <= Pause + Lag + late'
    BY <1>1, <2>3, <2>4
  <2>7. Gone({})'
    BY <1>0, <2>1 DEF Gone
  <2> QED
    BY <1>0, <2>1, <2>5, <2>6, <2>7 DEF Pausing, Elapsed
<1>7. ASSUME NEW p \in Procs, Fail(p) PROVE FALSE
  BY <1>7 DEF Fail
<1> QED
  BY <1>3, <1>4, <1>5, <1>6, <1>7 DEF Next, Work

\* The second thread finds the dump, for every process is in its sight.
LEMMA CloseOfDump ==
  ASSUME TypeOK, Sighted, J <= MaxAlarms, J > 0, N = 3 * J, Gone({N}),
         proc[N].kind = "dump", proc[N].phase = "running", Close(J)
  PROVE  /\ J' = J /\ Jobs' = Jobs /\ job'[J].resumer = "settle" /\ job'[J].rleft = Grace
         /\ job'[J].dumper = job[J].dumper
         /\ \A b \in Jobs : b # J => job'[b] = job[b]
         /\ N' = N /\ Procs' = Procs /\ proc'[N].kind = "dump" /\ proc'[N].phase = "leaving"
         /\ \A q \in Procs : q # N => proc'[q] = proc[q]
<1>0. J \in Jobs /\ N \in Procs /\ N \in Nat
  BY Numbers
<1> DEFINE s == [job[J] EXCEPT !.resumer = "settle", !.rleft = Grace]
           settled == [job EXCEPT ![J] = s]
<1>1. Named(N)
  <2>1. N <= Window
    BY SMTT(20), <1>0, Numbers, BoundsAssumption DEF Sighted
  <2> QED
    BY <2>1 DEF Named, InSight
<1>2. \A p \in Procs : Found(p) => p = N
  BY DEF Found, Named, MayBeSeen, Gone
<1>3. AfterSignal(N) = "leaving"
  BY DEF AfterSignal
<1>4. Advance(N, "leaving") /\ job' = settled
  <2>1. "dump" # "cmd"
    OBVIOUS
  <2> QED
    BY <1>0, <1>1, <1>2, <1>3, <2>1, Zenon DEF Close
<1>5. /\ s \in JobRecord /\ s.resumer = "settle" /\ s.rleft = Grace
      /\ s.dumper = job[J].dumper
  <2>1. job[J] \in JobRecord
    BY <1>0, Indices
  <2> QED
    BY <2>1, Sleeps, Zenon DEF JobRecord
<1> HIDE DEF s
<1>6. /\ J' = J /\ Jobs' = Jobs /\ job'[J] = s
      /\ \A b \in Jobs : b # J => job'[b] = job[b]
  BY <1>0, <1>4, <1>5, JobEffect
<1>7. /\ N' = N /\ Procs' = Procs /\ proc'[N].kind = "dump" /\ proc'[N].phase = "leaving"
      /\ \A q \in Procs : q # N => proc'[q] = proc[q]
  BY <1>0, <1>4, AdvanceEffect
<1> QED
  BY <1>5, <1>6, <1>7

\* From Dumping it dumps until mplayer_close ends it.
LEMMA DumpingStep ==
  ASSUME TypeInv, TypeOK, Timely, Sighted, J <= MaxAlarms, failures = 0, failures' = 0,
         Dumping, Next
  PROVE  Dumping' \/ Settling'
<1>0. /\ J \in Nat /\ N \in Nat /\ Jobs = 1 .. J /\ Procs = 1 .. N /\ J > 0
      /\ job[J].resumer = "record" /\ job[J].dumper = "done"
      /\ \A a \in Jobs : a < J => job[a].dumper = "done" /\ job[a].resumer = "done"
      /\ N = 3 * J /\ quits = 0 /\ N \in Procs /\ J \in Jobs
      /\ Gone({N}) /\ proc[N].kind = "dump"
  <2>1. J \in Nat /\ N \in Nat /\ Jobs = 1 .. J /\ Procs = 1 .. N
    BY Numbers
  <2> QED
    BY <2>1 DEF Dumping, Recording, Over
<1>1. /\ job[J].rleft \in Nat /\ late \in Nat /\ late <= Lag /\ tape \in Nat /\ tape <= Length
      /\ Pause \in Nat /\ Lag \in Nat /\ Length \in Nat /\ Grace \in Nat
      /\ job[J].rleft <= Length
  <2>1. job[J].rleft <= Length
    BY DEF Dumping, Recording
  <2> QED
    BY <1>0, <2>1, Numbers
<1>2. \/ /\ proc[N].phase \in {"starting", "opened"}
         /\ writer = 0 /\ tape = 0
         /\ Length - job[J].rleft <= Pause + Lag + late
         /\ job[J].rleft > 0
      \/ /\ proc[N].phase = "running"
         /\ writer = N
         /\ Length - job[J].rleft <= Pause + 2 * Lag + tape
  <2>1. Length - job[J].rleft <= Pause + Lag + late => job[J].rleft > 0
    BY <1>1 DEF Timely
  <2> QED
    BY <2>1 DEF Dumping, Elapsed
<1>3. ~Alarm
  BY Zenon DEF Alarm, Dumping, Recording
<1>4. ASSUME NEW a \in Jobs, Thread(a) PROVE Settling'
  <2>1. a = J /\ Close(J)
    <3>1. ~Quit(a) /\ ~Dump(a) /\ ~Copy(a) /\ ~Play(a)
      BY <1>0 DEF Quit, Dump, Copy, Play
    <3>2. Close(a) /\ job[a].resumer = "record"
      BY <1>4, <3>1 DEF Thread, Close
    <3>3. a = J
      BY <1>0, <3>2
    <3> QED
      BY <3>2, <3>3
  <2>2. job[J].rleft = 0
    BY <2>1 DEF Close
  <2>3. /\ proc[N].phase = "running" /\ writer = N
        /\ Length <= Pause + 2 * Lag + tape
    BY <1>1, <1>2, <2>2
  <2>4. /\ J' = J /\ Jobs' = Jobs /\ job'[J].resumer = "settle" /\ job'[J].rleft = Grace
        /\ job'[J].dumper = job[J].dumper
        /\ \A b \in Jobs : b # J => job'[b] = job[b]
        /\ N' = N /\ Procs' = Procs /\ proc'[N].kind = "dump" /\ proc'[N].phase = "leaving"
        /\ \A q \in Procs : q # N => proc'[q] = proc[q]
    BY <1>0, <2>1, <2>3, CloseOfDump
  <2>5. dumping /\ UNCHANGED <<dumping, quits, writer, tape, late>>
    BY <2>1 DEF Close, Dumping, Recording
  <2>6. tape' >= Enough' /\ Grace >= Grace - late'
    BY <1>1, <2>3, <2>5 DEF Enough
  <2>7. Gone({N})'
    BY <1>0, <2>4 DEF Gone
  <2>8. Over(J - 1)'
    BY <1>0, <2>4 DEF Over
  <2> QED
    BY <1>0, <2>3, <2>4, <2>5, <2>6, <2>7, <2>8 DEF Settling
<1>5. ASSUME NEW p \in Procs, Process(p) PROVE Dumping'
  <2>1. p = N
    BY <1>0, <1>5, GoneRests DEF Gone
  <2>2. ~Echo(N) /\ ~ObeyQuit(N) /\ ~Leave(N)
    BY <1>0, <1>2 DEF Echo, ObeyQuit, Leave
  <2>3. \A r \in Procs : r # N => ~HasFifo(r) /\ ~HasPort(r)
    BY <1>0, Alone
  <2>4. ASSUME NEW phase \in {"opened", "running"}, Advance(N, phase)
        PROVE  /\ N' = N /\ Procs' = Procs /\ proc'[N].phase = phase
               /\ proc'[N].kind = "dump" /\ Gone({N})'
    <3>1. /\ N' = N /\ Procs' = Procs /\ proc'[N].phase = phase
          /\ proc'[N].kind = proc[N].kind
          /\ \A r \in Procs : r # N => proc'[r] = proc[r]
      BY <1>0, <2>4, AdvanceEffect
    <3> QED
      BY <1>0, <3>1 DEF Gone
  <2>5. CASE Open(N)
    <3>1. /\ Advance(N, "opened") /\ proc[N].phase = "starting"
          /\ UNCHANGED <<dumping, job, quits, writer, tape, late>>
      BY <2>5 DEF Open
    <3>2. Recording' /\ UNCHANGED <<J, Elapsed>>
      BY <3>1 DEF Dumping, Recording, Over, J, Elapsed
    <3> QED
      BY <1>0, <2>4, <3>1, <3>2 DEF Dumping
  <2>6. CASE Bind(N)
    <3>1. proc[N].phase = "opened" /\ ~\E r \in Procs : HasPort(r)
      BY <2>3, <2>6 DEF Bind, HasPort
    <3>2. /\ Advance(N, "running") /\ writer' = N /\ tape' = 0 /\ quits' = 0
          /\ UNCHANGED <<dumping, job, late>>
      BY <1>0, <2>6, <3>1 DEF Bind
    <3>3. Recording' /\ UNCHANGED <<J, Elapsed>>
      BY <3>2 DEF Dumping, Recording, Over, J, Elapsed
    <3>4. Elapsed <= Pause + 2 * Lag + tape'
      BY <1>1, <1>2, <3>1, <3>2 DEF Elapsed
    <3> QED
      BY <1>0, <2>4, <3>2, <3>3, <3>4 DEF Dumping
  <2> QED
    BY <1>5, <2>1, <2>2, <2>5, <2>6 DEF Process
<1>6. CASE Tick
  <2>1. /\ UNCHANGED <<dumping, proc, quits, writer>> /\ N' = N /\ Procs' = Procs
        /\ J' = J /\ Jobs' = Jobs
        /\ \A a \in Jobs : /\ job'[a].dumper = job[a].dumper
                           /\ job'[a].resumer = job[a].resumer
                           /\ job'[a].rleft = Less(job[a].rleft)
    BY <1>0, <1>6, TickEffect, TickFacts
  <2>2. /\ job'[J].rleft <= job[J].rleft /\ job'[J].rleft >= job[J].rleft - 1
        /\ job'[J].rleft >= 0 /\ job'[J].rleft \in Nat
    <3>1. job'[J].rleft = Less(job[J].rleft)
      BY <1>0, <2>1
    <3> QED
      BY <1>1, <3>1 DEF Less
  <2>3. Recording'
    BY <1>0, <1>1, <2>1, <2>2 DEF Dumping, Recording, Over
  <2>4. CASE proc[N].phase \in {"starting", "opened"}
    <3>1. Due
      BY <1>0, <2>4, DueIs
    <3>2. late' = late + 1 /\ tape' = tape /\ writer = 0 /\ tape = 0
      BY <1>2, <1>6, <2>4, <3>1, TickFacts
    <3>3. Length - job'[J].rleft <= Pause + Lag + late'
      BY <1>1, <1>2, <2>2, <2>4, <3>2
    <3> QED
      BY <1>0, <2>1, <2>3, <2>4, <3>2, <3>3 DEF Dumping, Gone, Elapsed
  <2>5. CASE proc[N].phase = "running"
    <3>1. /\ writer = N /\ N # 0
          /\ Length - job[J].rleft <= Pause + 2 * Lag + tape
      BY <1>0, <1>2, <2>5
    <3>2. /\ tape' \in Nat /\ tape' >= tape
          /\ tape < Length => tape' = tape + 1
      BY <1>6, <2>5, <3>1, TickFacts
    <3>3. Length - job'[J].rleft <= Pause + 2 * Lag + tape'
      BY <1>1, <2>2, <3>1, <3>2
    <3> QED
      BY <1>0, <2>1, <2>3, <2>5, <3>1, <3>3 DEF Dumping, Gone, Elapsed
  <2> QED
    BY <1>2, <2>4, <2>5
<1>7. ASSUME NEW p \in Procs, Fail(p) PROVE FALSE
  BY <1>7 DEF Fail
<1> QED
  BY <1>3, <1>4, <1>5, <1>6, <1>7 DEF Next, Work

\* From Settling the file is copied and the next recording may begin.
LEMMA SettlingStep ==
  ASSUME TypeInv, TypeOK, Timely, failures = 0, failures' = 0, Settling, Next
  PROVE  Settling' \/ Showing'
<1>0. /\ J \in Nat /\ N \in Nat /\ Jobs = 1 .. J /\ Procs = 1 .. N /\ J > 0
      /\ job[J].resumer = "settle" /\ job[J].dumper = "done"
      /\ \A a \in Jobs : a < J => job[a].dumper = "done" /\ job[a].resumer = "done"
      /\ N = 3 * J /\ quits = 0 /\ writer = N /\ N \in Procs /\ J \in Jobs
      /\ Gone({N}) /\ proc[N].kind = "dump"
  <2>1. J \in Nat /\ N \in Nat /\ Jobs = 1 .. J /\ Procs = 1 .. N
    BY Numbers
  <2> QED
    BY <2>1 DEF Settling, Over
<1>1. /\ job[J].rleft \in Nat /\ late \in Nat /\ late <= Lag /\ Lag \in Nat /\ Grace \in Nat
      /\ tape \in Nat /\ tape >= Enough /\ Enough \in Int
  <2>1. Enough \in Int
    BY Sleeps DEF Enough
  <2>2. job[J].rleft \in Nat
    BY <1>0, Numbers
  <2> QED
    BY <2>1, <2>2, Numbers DEF Settling
<1>2. \/ proc[N].phase = "leaving" /\ job[J].rleft >= Grace - late
      \/ proc[N].phase = "gone"
  BY DEF Settling
<1>3. ~Alarm
  BY Zenon DEF Alarm, Settling
<1>4. ASSUME NEW a \in Jobs, Thread(a) PROVE Showing'
  <2>1. a = J /\ Copy(J) /\ job[J].rleft = 0
    BY SMTT(20), <1>0, <1>4 DEF Thread, Quit, Dump, Close, Copy, Play
  <2>2. proc[N].phase = "gone"
    BY <1>1, <1>2, <2>1 DEF Timely
  <2>3. /\ J' = J /\ Jobs' = Jobs /\ job'[J].resumer = "play" /\ job'[J].dumper = "done"
        /\ job'[J].rleft = 0 /\ \A b \in Jobs : b # J => job'[b] = job[b]
    BY <1>0, <2>1, CopyEffect
  <2>4. /\ ~dumping' /\ writer' = 0 /\ tape' = 0 /\ UNCHANGED <<proc, quits>>
        /\ N' = N /\ Procs' = Procs
    BY <2>1 DEF Copy, N, Procs
  <2> QED
    BY <1>0, <2>2, <2>3, <2>4 DEF Showing, Over, Gone
<1>5. ASSUME NEW p \in Procs, Process(p) PROVE Settling'
  <2>1. p = N
    BY <1>0, <1>5, GoneRests DEF Gone
  <2>2. Leave(N)
    BY <1>2, <1>5, <2>1 DEF Process, Echo, Open, Bind, ObeyQuit, Leave
  <2>3. \A r \in Procs : r # N => ~HasFifo(r)
    BY <1>0, Alone
  <2>4. /\ Advance(N, "gone") /\ quits' = 0
        /\ UNCHANGED <<dumping, job, writer, tape, late>>
    BY <2>2, <2>3 DEF Leave, End
  <2>5. /\ N' = N /\ Procs' = Procs /\ proc'[N].phase = "gone"
        /\ proc'[N].kind = proc[N].kind
        /\ \A r \in Procs : r # N => proc'[r] = proc[r]
    BY <1>0, <2>4, AdvanceEffect
  <2>6. Gone({N})' /\ UNCHANGED J
    BY <1>0, <2>4, <2>5 DEF Gone, J
  <2> QED
    BY <1>0, <2>4, <2>5, <2>6 DEF Settling, Over, Enough
<1>6. CASE Tick
  <2>1. /\ UNCHANGED <<dumping, proc, quits, writer>> /\ N' = N /\ Procs' = Procs
        /\ J' = J /\ Jobs' = Jobs
        /\ \A a \in Jobs : /\ job'[a].dumper = job[a].dumper
                           /\ job'[a].resumer = job[a].resumer
                           /\ job'[a].rleft = Less(job[a].rleft)
    BY <1>6, TickEffect, TickFacts
  <2>2. tape' \in Nat /\ tape' >= tape /\ late' \in Nat
    BY <1>6, TickFacts
  <2>3. proc[N].phase = "leaving" => late' = late + 1
    <3>1. proc[N].phase = "leaving" => Due
      BY <1>0, DueIs
    <3> QED
      BY <1>6, <3>1, TickFacts
  <2>4. job'[J].rleft >= job[J].rleft - 1 /\ job'[J].rleft \in Nat
    <3>1. job'[J].rleft = Less(job[J].rleft)
      BY <1>0, <2>1
    <3> QED
      BY <1>1, <3>1 DEF Less
  <2>5. \/ proc[N].phase = "leaving" /\ job'[J].rleft >= Grace - late'
        \/ proc[N].phase = "gone"
    BY <1>1, <1>2, <2>2, <2>3, <2>4
  <2>6. tape' >= Enough
    BY <1>1, <2>2
  <2>7. dumping /\ Gone({N})'
    BY <1>0, <2>1 DEF Settling, Gone
  <2> QED
    BY <1>0, <2>1, <2>5, <2>6, <2>7 DEF Settling, Over, Enough
<1>7. ASSUME NEW p \in Procs, Fail(p) PROVE FALSE
  BY <1>7 DEF Fail
<1> QED
  BY <1>3, <1>4, <1>5, <1>6, <1>7 DEF Next, Work

\* What has been saved so far stays, and only Settling adds to it.
LEMMA SavedStep ==
  ASSUME TypeInv, TypeOK, Timely, SavedSoFar, J <= MaxAlarms, Phases, Next
  PROVE  SavedSoFar' /\ J' <= MaxAlarms
<1>0. J \in Nat /\ Jobs = 1 .. J
  BY Numbers
<1>1. CASE Alarm
  <2> DEFINE r == [dumper |-> "quit", dleft |-> 0, resumer |-> "record",
                   rleft |-> Length, saved |-> "not yet"]
  <2>1. r \in JobRecord /\ r.saved = "not yet"
    BY Sleeps DEF JobRecord
  <2>2. job' = Append(job, r) /\ J < MaxAlarms
    BY <1>1 DEF Alarm, J
  <2> HIDE DEF r
  <2>3. /\ J' = J + 1 /\ Jobs' = 1 .. J + 1 /\ job'[J + 1] = r
        /\ \A b \in Jobs : job'[b] = job[b]
    BY <2>1, <2>2, JobGrows
  <2>4. MaxAlarms \in Nat
    BY BoundsAssumption
  <2>5. J' <= MaxAlarms
    BY <1>0, <2>2, <2>3, <2>4
  <2>6. \A b \in Jobs' : job'[b].saved \in {"not yet", "whole"}
    <3> TAKE b \in Jobs'
    <3>1. b \in 1 .. J \/ b = J + 1
      BY <1>0, <2>3
    <3>2. \A c \in Jobs : job[c].saved \in {"not yet", "whole"}
      BY DEF SavedSoFar
    <3> QED
      BY <1>0, <2>1, <2>3, <3>1, <3>2
  <2> QED
    BY <2>5, <2>6 DEF SavedSoFar
<1>2. ASSUME NEW a \in Jobs, Thread(a) PROVE SavedSoFar' /\ J' <= MaxAlarms
  <2>1. CASE Quit(a)
    BY <2>1, QuitEffect DEF SavedSoFar
  <2>2. CASE Dump(a)
    BY <2>2, DumpEffect DEF SavedSoFar
  <2>3. CASE Close(a)
    BY <2>3, CloseEffect DEF SavedSoFar
  <2>4. CASE Copy(a)
    <3>1. /\ J' = J /\ Jobs' = Jobs /\ job'[a].saved = Copied
          /\ \A b \in Jobs : b # a => job'[b] = job[b]
      BY <2>4, CopyEffect
    <3>2. job[a].resumer = "settle" /\ job[a].rleft = 0
      BY <2>4 DEF Copy
    <3>3. a = J
      BY <3>2 DEF TypeInv, OneRecording
    <3>4. Settling
      <4>1. J > 0 /\ job[J].resumer = "settle"
        BY <1>0, <3>2, <3>3
      <4> QED
        BY <4>1 DEF Phases, Showing, Asking, Quitting, Pausing, Dumping, Recording
    <3>5. proc[writer].phase = "gone" /\ tape >= Enough /\ writer # 0
      <4>1. N > 0 /\ writer = N /\ late <= Lag /\ late \in Nat /\ Lag \in Nat /\ Grace \in Nat
        BY <1>0, <3>4, Numbers DEF Settling
      <4>2. Lag < Grace
        BY DEF Timely
      <4> QED
        BY <3>2, <3>3, <3>4, <4>1, <4>2 DEF Settling
    <3>6. Copied = "whole"
      BY <3>5, Zenon DEF Copied
    <3> QED
      BY <3>1, <3>6 DEF SavedSoFar
  <2>5. CASE Play(a)
    BY <2>5, PlayEffect DEF SavedSoFar
  <2> QED
    BY <1>2, <2>1, <2>2, <2>3, <2>4, <2>5 DEF Thread
<1>3. ASSUME NEW p \in Procs, Process(p) \/ Fail(p) PROVE SavedSoFar' /\ J' <= MaxAlarms
  <2>1. CASE Echo(p)
    <3> DEFINE a == proc[p].of
    <3>1. a \in Jobs
      BY <2>1 DEF Echo, TypeInv, AskersAreKnown
    <3>2. job' = [job EXCEPT ![a].dumper = "pause", ![a].dleft = Pause]
      BY <2>1 DEF Echo
    <3> HIDE DEF a
    <3> QED
      BY <3>1, <3>2, EchoEffect DEF SavedSoFar
  <2>2. CASE ~Echo(p)
    <3>1. job' = job
      BY <1>3, <2>2 DEF Process, Open, Bind, ObeyQuit, Leave, Fail
    <3> QED
      BY <3>1 DEF SavedSoFar, J, Jobs
  <2> QED
    BY <2>1, <2>2
<1>4. CASE Tick
  BY <1>4, TickEffect DEF SavedSoFar
<1> QED
  BY <1>1, <1>2, <1>3, <1>4 DEF Next, Work

-----------------------------------------------------------------------------
(* What the recordings are worth. *)

LEMMA UnfailedInit == Init => UnfailedInv
<1> SUFFICES ASSUME Init
             PROVE  J <= MaxAlarms /\ SavedSoFar /\ Showing
  BY DEF UnfailedInv, Phases
<1>1. job = <<>> /\ J = 0 /\ Jobs = {}
  BY DEF Init, J, Jobs
<1>2. N = 1 /\ Procs = {1} /\ Player(1)
  BY DEF Init, N, Procs, Player
<1> QED
  BY <1>1, <1>2, BoundsAssumption DEF Init, SavedSoFar, Showing, Over, Gone

LEMMA UnfailedStep ==
  ASSUME Timely, Sighted
  PROVE  TypeInv /\ UnfailedInv /\ [Next]_vars => UnfailedInv'
<1> SUFFICES ASSUME TypeInv, UnfailedInv, [Next]_vars, failures' = 0
             PROVE  (J <= MaxAlarms /\ SavedSoFar /\ Phases)'
  BY DEF UnfailedInv
<1>1. CASE UNCHANGED vars
  <2>1. UNCHANGED <<dumping, job, proc, quits, writer, tape, late, failures>>
    BY <1>1 DEF vars
  <2>2. UNCHANGED <<J, N, Jobs, Procs, Elapsed>>
    BY <2>1 DEF J, N, Jobs, Procs, Elapsed
  <2>3. UNCHANGED <<Showing, Recording, SavedSoFar>>
    BY <2>1, <2>2 DEF Showing, Recording, SavedSoFar, Over, Gone, Player
  <2>4. UNCHANGED <<Asking, Quitting>>
    BY <2>1, <2>2, <2>3 DEF Asking, Quitting, Gone, Player, Asker
  <2>5. UNCHANGED <<Pausing, Dumping, Settling>>
    BY <2>1, <2>2, <2>3 DEF Pausing, Dumping, Settling, Over, Gone, Enough
  <2> QED
    BY <2>1, <2>2, <2>3, <2>4, <2>5 DEF UnfailedInv, Phases
<1>2. CASE Next
  <2>1. TypeOK
    BY DEF TypeInv
  <2>2. failures = 0
    <3>1. failures \in Nat
      <4>1. MaxFailures \in Nat /\ failures \in 0 .. MaxFailures
        BY <2>1, BoundsAssumption DEF TypeOK
      <4> QED
        BY <4>1
    <3>2. failures' = failures \/ failures' = failures + 1
      BY <1>2 DEF Next, Work, Alarm, Tick, Fail, Thread, Quit, Dump, Close, Copy, Play,
                  Process, Echo, Open, Bind, ObeyQuit, Leave
    <3> QED
      BY <3>1, <3>2
  <2>3. J <= MaxAlarms /\ SavedSoFar /\ Phases
    BY <2>2 DEF UnfailedInv
  <2>4. SavedSoFar' /\ J' <= MaxAlarms
    BY <1>2, <2>1, <2>3, SavedStep
  <2>5. Phases'
    BY <1>2, <2>1, <2>2, <2>3, ShowingStep, AskingStep, QuittingStep, PausingStep,
       DumpingStep, SettlingStep DEF Phases
  <2> QED
    BY <2>4, <2>5
<1> QED
  BY <1>1, <1>2

\* As long as no player has failed, every copy is of a finished file with all
\* that was shown between the sleeps, however late each step is within Lag.
THEOREM SavesWholeRecordings ==
  ASSUME Timely, Sighted
  PROVE  Spec => []SavedWhole
<1>1. UnfailedInv => SavedWhole
  BY DEF UnfailedInv, SavedSoFar, SavedWhole
<1> QED
  BY <1>1, TypeInit, TypeStep, UnfailedInit, UnfailedStep, PTL DEF Spec

\* And a dumping player, from its start on, only runs while a thread sleeps that
\* will end it.
THEOREM DumpsAreStopped ==
  ASSUME Timely, Sighted
  PROVE  Spec => [](failures = 0 => DumpIsStopped)
<1>1. TypeInv /\ UnfailedInv => (failures = 0 => DumpIsStopped)
  <2> SUFFICES ASSUME TypeInv, UnfailedInv, failures = 0, NEW p \in Procs, Dumps(p)
               PROVE  \E a \in Jobs : job[a].resumer = "record"
    BY DEF DumpIsStopped
  <2>1. Phases /\ Jobs = 1 .. J /\ J \in Nat /\ Procs = 1 .. N /\ N \in Nat
    BY Numbers DEF UnfailedInv, TypeInv
  <2>2. proc[p].kind = "dump" /\ proc[p].phase \in {"starting", "opened", "running"}
    BY DEF Dumps
  <2>3. ~Showing /\ ~Pausing /\ ~Settling
    BY <2>1, <2>2 DEF Showing, Pausing, Settling, Gone, Player
  <2>4. ~Asking /\ ~Quitting
    BY <2>1, <2>2 DEF Asking, Quitting, Gone, Player, Asker
  <2>5. Recording
    BY <2>1, <2>3, <2>4 DEF Phases, Dumping
  <2> QED
    BY <2>1, <2>5 DEF Recording
<1> QED
  BY <1>1, TypeInit, TypeStep, UnfailedInit, UnfailedStep, PTL DEF Spec

\* Whenever no recording is under way and nothing is due, a player plays.
THEOREM VideoComesBack ==
  ASSUME Timely, Sighted
  PROVE  Spec => [](failures = 0 => VideoIsBack)
<1>1. TypeInv /\ UnfailedInv => (failures = 0 => VideoIsBack)
  <2> SUFFICES ASSUME TypeInv, UnfailedInv, failures = 0, AtRest
               PROVE  \E p \in Procs : Playing(p)
    BY DEF VideoIsBack
  <2>1. Phases /\ Jobs = 1 .. J /\ J \in Nat /\ Procs = 1 .. N /\ N \in Nat /\ TypeOK
    BY Numbers DEF UnfailedInv, TypeInv
  <2>2. Showing
    BY <2>1 DEF AtRest, Phases, Asking, Quitting, Pausing, Dumping, Settling, Recording
  <2>3. ~(J > 0 /\ job[J].resumer = "play" /\ job[J].rleft = 0)
    BY <2>1, DueIs DEF AtRest
  <2>4. N \in Procs /\ Player(N)
    BY <2>1, <2>2, <2>3 DEF Showing
  <2>5. proc[N].phase \notin {"starting", "opened"}
    BY <2>1, <2>4, DueIs DEF AtRest
  <2> QED
    BY <2>4, <2>5 DEF Player, Playing
<1> QED
  BY <1>1, TypeInit, TypeStep, UnfailedInit, UnfailedStep, PTL DEF Spec

=============================================================================
