--------------------------- MODULE SessionProofs ---------------------------
(***************************************************************************)
(* Proofs about Session, for every size of the backlog.                    *)
(***************************************************************************)
EXTENDS Session, SequenceTheorems, TLAPS

\* The ranges of the state, the first part of TypeOK ...
Ranges == /\ server \in {"dark", "off", "listening", "serving"}
          /\ stale \in BOOLEAN
          /\ client \in {"down", "trying", "up"}
          /\ queue \in Seq(Taken)
          /\ Len(queue) <= Backlog
          /\ served \in SUBSET Taken
          /\ gone \in SUBSET Left

\* ... and what relates them: a client that is up has its connection open and
\* no other client has, the server serves as long as it has a connection, and
\* connections wait for accept with a listening socket only.
Agreement == /\ client = "up" <=> \E c \in Conns : Mine(c)
             /\ server = "serving" <=> served # {}
             /\ queue # <<>> => Listening

LEMMA TypeParts == TypeOK <=> Ranges /\ Agreement
BY DEF TypeOK, Ranges, Agreement

LEMMA QueuedTaken ==
  ASSUME NEW q \in Seq(Taken)
  PROVE  {q[k] : k \in DOMAIN q} \subseteq Taken
  OBVIOUS

\* What is left of a connection is one the server has no more, ...
LEMMA LostLeft ==
  ASSUME NEW C \in SUBSET Taken, NEW far \in {"closed", "dropped", "lost"}
  PROVE  Lost(C, far) \in SUBSET Left
  BY DEF Lost, Taken, Left

\* ... and the client's if it was.
LEMMA LostMine ==
  ASSUME NEW C \in SUBSET Taken, NEW far
  PROVE  (\E c \in Lost(C, far) : Mine(c)) <=> \E c \in C : Mine(c)
<1>1. ASSUME NEW c \in Lost(C, far), Mine(c)
      PROVE  \E d \in C : Mine(d)
  BY <1>1 DEF Lost, Mine
<1>2. ASSUME NEW c \in C, Mine(c)
      PROVE  \E d \in Lost(C, far) : Mine(d)
  <2> DEFINE d == [near |-> c.near, far |-> far, told |-> "open"]
  <2>1. d \in Lost(C, far)
    BY <1>2 DEF Lost, Mine
  <2>2. Mine(d)
    BY <1>2 DEF Mine
  <2> QED
    BY <2>1, <2>2
<1> QED
  BY <1>1, <1>2

-----------------------------------------------------------------------------
(* One lemma for every kind of step. *)

\* The empty queue.
LEMMA NoneWait == <<>> \in Seq(Taken) /\ Len(<<>>) <= Backlog
<1>1. Len(<<>>) = 0
  OBVIOUS
<1>2. 0 <= Backlog
  BY BacklogAssumption
<1>3. <<>> \in Seq(Taken)
  BY EmptySeq
<1> QED
  BY <1>1, <1>2, <1>3

LEMMA TypeInit == Init => TypeOK
<1> SUFFICES ASSUME Init PROVE TypeOK
  OBVIOUS
<1>1. Ranges
  BY NoneWait DEF Init, Ranges
<1>2. Conns = {}
  BY DEF Init, Conns, Queued
<1> QED
  BY <1>1, <1>2, TypeParts DEF Init, Agreement

\* The server's process ends.
LEMMA ExitStep ==
  ASSUME TypeOK, NEW s \in SUBSET Taken, NEW q \in Seq(Taken), Len(q) <= Backlog,
         Exit(s, q),
         (\E c \in Conns : Mine(c)) <=>
            \E c \in s \cup {q[k] : k \in DOMAIN q} \cup gone : Mine(c)
  PROVE  TypeOK'
<1> DEFINE Q == {q[k] : k \in DOMAIN q}
<1>0. Q \in SUBSET Taken
  BY QueuedTaken
<1>1. CASE stale' = TRUE
  <2>1. queue' = q /\ gone' = gone \cup Lost(s, "closed") /\ served' = {}
        /\ server' = "off" /\ client' = client
    BY <1>1 DEF Exit
  <2>2. Ranges'
    BY <1>1, <2>1, LostLeft DEF TypeOK, Ranges
  <2>3. (\E c \in Conns' : Mine(c)) <=> \E c \in Conns : Mine(c)
    <3>1. Conns' = Q \cup gone \cup Lost(s, "closed")
      BY <2>1 DEF Conns, Queued
    <3> QED
      BY <3>1, LostMine
  <2> QED
    BY <1>1, <2>1, <2>2, <2>3, TypeParts DEF TypeOK, Ranges, Agreement, Listening
<1>2. CASE stale' = FALSE
  <2>1. /\ queue' = <<>> /\ served' = {} /\ server' = "off" /\ client' = client
        /\ gone' = gone \cup Lost(s, "closed") \cup Lost(Q, "dropped")
    BY <1>2 DEF Exit
  <2>2. Ranges'
    BY <1>0, <1>2, <2>1, LostLeft, NoneWait DEF TypeOK, Ranges
  <2>3. (\E c \in Conns' : Mine(c)) <=> \E c \in Conns : Mine(c)
    <3>1. Conns' = gone \cup Lost(s, "closed") \cup Lost(Q, "dropped")
      BY <2>1 DEF Conns, Queued
    <3> HIDE DEF Q
    <3> QED
      BY <1>0, <3>1, LostMine DEF Q
  <2> QED
    BY <1>2, <2>1, <2>2, <2>3, TypeParts DEF TypeOK, Ranges, Agreement, Listening
<1> QED
  BY <1>1, <1>2 DEF Exit

\* Ends of connections change, none comes or goes at the server.
LEMMA RenewRanges ==
  ASSUME Ranges, UNCHANGED <<server, stale>>, client' \in {"down", "trying", "up"},
         NEW Keep \in [Ends -> Ends], Renew(Keep)
  PROVE  /\ Ranges'
         /\ queue' = <<>> <=> queue = <<>>
         /\ served' = {} <=> served = {}
<1>1. queue \in [1 .. Len(queue) -> Taken] /\ Len(queue) \in Nat
  BY DEF Ranges
<1>2. queue' \in [1 .. Len(queue) -> Taken]
  BY <1>1 DEF Renew, Taken
<1>3. queue' \in Seq(Taken) /\ Len(queue') = Len(queue)
  BY <1>1, <1>2
<1>4. queue' = <<>> <=> queue = <<>>
  BY <1>1, <1>2, <1>3
<1>5. served' \in SUBSET Taken
  BY DEF Ranges, Taken, Renew
<1>6. served' = {} <=> served = {}
  BY DEF Renew
<1>7. gone' \in SUBSET Left
  BY DEF Ranges, Left, Renew
<1> QED
  BY <1>3, <1>4, <1>5, <1>6, <1>7 DEF Ranges

\* A connection is open at the client exactly if Keep leaves it so.
LEMMA RenewMine ==
  ASSUME Ranges, NEW Keep \in [Ends -> Ends], Renew(Keep)
  PROVE  (\E c \in Conns' : Mine(c)) <=> \E c \in Conns : "client" \in Keep[c.near]
<1>1. queue \in [1 .. Len(queue) -> Taken] /\ Len(queue) \in Nat
  BY DEF Ranges
<1>2. DOMAIN queue' = DOMAIN queue
      /\ \A k \in DOMAIN queue : queue'[k].near = Keep[queue[k].near]
  BY DEF Renew
<1>3. (\E c \in Queued' : Mine(c)) <=> \E c \in Queued : "client" \in Keep[c.near]
  BY <1>2 DEF Queued, Mine
<1>4. (\E c \in served' : Mine(c)) <=> \E c \in served : "client" \in Keep[c.near]
  <2>1. ASSUME NEW c \in served', Mine(c)
        PROVE  \E d \in served : "client" \in Keep[d.near]
    BY <2>1 DEF Renew, Mine
  <2>2. ASSUME NEW d \in served, "client" \in Keep[d.near]
        PROVE  \E c \in served' : Mine(c)
    <3> DEFINE c == [near |-> Keep[d.near], cut |-> d.cut]
    <3>1. c \in served' /\ Mine(c)
      BY <2>2 DEF Renew, Mine
    <3> QED
      BY <3>1
  <2> QED
    BY <2>1, <2>2
<1>5. (\E c \in gone' : Mine(c)) <=> \E c \in gone : "client" \in Keep[c.near]
  <2>1. ASSUME NEW c \in gone', Mine(c)
        PROVE  \E d \in gone : "client" \in Keep[d.near]
    BY <2>1 DEF Renew, Mine
  <2>2. ASSUME NEW d \in gone, "client" \in Keep[d.near]
        PROVE  \E c \in gone' : Mine(c)
    <3> DEFINE c == [near |-> Keep[d.near], far |-> d.far, told |-> d.told]
    <3>1. c \in gone' /\ Mine(c)
      BY <2>2 DEF Renew, Mine
    <3> QED
      BY <3>1
  <2> QED
    BY <2>1, <2>2
<1> QED
  BY <1>3, <1>4, <1>5 DEF Conns

LEMMA WithoutKeeps ==
  ASSUME NEW p \in {"client", "player"}
  PROVE  Without(p) \in [Ends -> Ends]
  BY DEF Without, Ends

LEMMA EndsOfConns == Ranges => \A c \in Conns : c.near \in Ends
<1> SUFFICES ASSUME Ranges, NEW c \in Conns PROVE c.near \in Ends
  OBVIOUS
<1>1. CASE c \in Queued \/ c \in served
  BY <1>1, QueuedTaken DEF Ranges, Queued, Taken
<1>2. CASE c \in gone
  BY <1>2 DEF Ranges, Left
<1> QED
  BY <1>1, <1>2 DEF Conns

\* The client's does.
LEMMA ClientEndsStep ==
  ASSUME TypeOK, ClientEnds
  PROVE  TypeOK'
<1>0. Ranges /\ Agreement
  BY TypeParts
<1>1. /\ Ranges'
      /\ queue' = <<>> <=> queue = <<>>
      /\ served' = {} <=> served = {}
  BY <1>0, RenewRanges, WithoutKeeps DEF ClientEnds
<1>2. ~ \E c \in Conns' : Mine(c)
  <2>1. (\E c \in Conns' : Mine(c)) <=> \E c \in Conns : "client" \in Without("client")[c.near]
    BY <1>0, RenewMine, WithoutKeeps DEF ClientEnds
  <2> QED
    BY <1>0, <2>1, EndsOfConns DEF Without
<1> QED
  BY <1>0, <1>1, <1>2 DEF ClientEnds, TypeOK, Ranges, Agreement, Listening

\* A player comes or goes.
LEMMA PlayerStep ==
  ASSUME TypeOK, StartPlayer \/ EndPlayer
  PROVE  TypeOK'
<1>0. Ranges /\ Agreement
  BY TypeParts
<1>1. PICK Keep \in [Ends -> Ends] :
         Renew(Keep) /\ \A n \in Ends : "client" \in Keep[n] <=> "client" \in n
  <2> DEFINE With == [n \in Ends |-> IF "client" \in n THEN n \cup {"player"} ELSE n]
  <2>1. /\ With \in [Ends -> Ends]
        /\ \A n \in Ends : "client" \in With[n] <=> "client" \in n
    BY DEF Ends
  <2>2. /\ Without("player") \in [Ends -> Ends]
        /\ \A n \in Ends : "client" \in Without("player")[n] <=> "client" \in n
    BY WithoutKeeps DEF Without
  <2>3. Renew(With) \/ Renew(Without("player"))
    BY DEF StartPlayer, EndPlayer
  <2> HIDE DEF With
  <2> QED
    BY <2>1, <2>2, <2>3
<1>2. UNCHANGED <<server, stale, client>>
  BY DEF StartPlayer, EndPlayer
<1>3. /\ Ranges'
      /\ queue' = <<>> <=> queue = <<>>
      /\ served' = {} <=> served = {}
  BY <1>0, <1>1, <1>2, RenewRanges DEF Ranges
<1>4. (\E c \in Conns' : Mine(c)) <=> \E c \in Conns : Mine(c)
  BY <1>0, <1>1, RenewMine, EndsOfConns DEF Mine
<1> QED
  BY <1>0, <1>2, <1>3, <1>4 DEF TypeOK, Ranges, Agreement, Listening

\* The client's board loses power.
LEMMA CutClientStep ==
  ASSUME TypeOK, CutClient
  PROVE  TypeOK'
<1>1. queue \in [1 .. Len(queue) -> Taken] /\ Len(queue) \in Nat
  BY DEF TypeOK
<1>2. queue' \in [1 .. Len(queue) -> Taken]
  BY <1>1 DEF CutClient, Taken, Ends
<1>3. queue' \in Seq(Taken) /\ Len(queue') = Len(queue)
  BY <1>1, <1>2
<1>4. queue' = <<>> <=> queue = <<>>
  BY <1>1, <1>2, <1>3
<1>5. served' \in SUBSET Taken /\ (served' = {} <=> served = {})
  <2>1. served' = {[near |-> {}, cut |-> c.cut \/ c.near # {}] : c \in served}
    BY DEF CutClient
  <2>2. served' \in SUBSET Taken
    <3>1. ASSUME NEW c \in served
          PROVE  (c.cut \/ c.near # {}) \in BOOLEAN
      OBVIOUS
    <3>2. ASSUME NEW b \in BOOLEAN
          PROVE  [near |-> {}, cut |-> b] \in Taken
      BY DEF Taken, Ends
    <3> QED
      BY <2>1, <3>1, <3>2, Zenon
  <2>3. served' = {} <=> served = {}
    BY <2>1
  <2> QED
    BY <2>2, <2>3
<1>6. Ranges'
  BY <1>3, <1>5 DEF CutClient, TypeOK, Ranges
<1>7. \A k \in DOMAIN queue' : queue'[k].near = {}
  BY <1>1, <1>2 DEF CutClient
<1>8. \A c \in Conns' : ~ Mine(c)
  BY <1>7 DEF CutClient, Conns, Queued, Mine
<1> QED
  BY <1>4, <1>5, <1>6, <1>8 DEF CutClient, TypeOK, Ranges, Agreement, Listening

\* The server's does.
LEMMA CutServerStep ==
  ASSUME TypeOK, CutServer
  PROVE  TypeOK'
<1>1. Queued \cup served \in SUBSET Taken
  BY QueuedTaken DEF TypeOK, Queued
<1>2. Lost(Queued \cup served, "lost") \in SUBSET Left
  BY <1>1, LostLeft
<1>3. (\E c \in Conns' : Mine(c)) <=> \E c \in Conns : Mine(c)
  <2>1. Conns' = gone \cup Lost(Queued \cup served, "lost")
    BY DEF CutServer, Conns, Queued
  <2> QED
    BY <1>1, <2>1, LostMine DEF Conns
<1> QED
  BY <1>2, <1>3, NoneWait DEF CutServer, TypeOK, Listening

\* ffmpeg ends.
LEMMA FfmpegStep ==
  ASSUME TypeOK, FfmpegEnds
  PROVE  TypeOK'
<1>1. Queued \in SUBSET Taken
  BY QueuedTaken DEF TypeOK, Queued
<1>2. Lost(Queued, "dropped") \in SUBSET Left
  BY <1>1, LostLeft
<1>3. (\E c \in Conns' : Mine(c)) <=> \E c \in Conns : Mine(c)
  <2>1. Conns' = served \cup gone \cup Lost(Queued, "dropped")
    BY DEF FfmpegEnds, Conns, Queued
  <2> QED
    BY <1>1, <2>1, LostMine DEF Conns
<1> QED
  BY <1>2, <1>3, NoneWait DEF FfmpegEnds, TypeOK, Listening

\* A connection leaves the queue, or enters it.
LEMMA HeadAndTail ==
  ASSUME Ranges, queue # <<>>
  PROVE  /\ Head(queue) \in Taken
         /\ Tail(queue) \in Seq(Taken)
         /\ Len(Tail(queue)) <= Backlog
         /\ Queued = {Head(queue)} \cup {Tail(queue)[k] : k \in DOMAIN Tail(queue)}
<1>1. /\ Head(queue) \in Taken /\ Tail(queue) \in Seq(Taken)
      /\ Len(Tail(queue)) = Len(queue) - 1 /\ Len(queue) \in Nat \ {0}
  BY HeadTailProperties DEF Ranges
<1>2. \A k \in 1 .. Len(queue) - 1 : Tail(queue)[k] = queue[k + 1]
  BY HeadTailProperties DEF Ranges
<1>3. /\ DOMAIN queue = 1 .. Len(queue) /\ DOMAIN Tail(queue) = 1 .. Len(queue) - 1
      /\ Head(queue) = queue[1]
  BY <1>1 DEF Ranges
<1>4. ASSUME NEW c \in Queued
      PROVE  c \in {Head(queue)} \cup {Tail(queue)[k] : k \in DOMAIN Tail(queue)}
  <2>1. PICK k \in 1 .. Len(queue) : c = queue[k]
    BY <1>3, <1>4 DEF Queued
  <2>2. CASE k = 1
    BY <1>3, <2>1, <2>2
  <2>3. CASE k # 1
    <3>1. k - 1 \in 1 .. Len(queue) - 1 /\ k = (k - 1) + 1
      BY <1>1, <2>3
    <3>2. c = Tail(queue)[k - 1]
      BY <1>2, <2>1, <3>1
    <3> QED
      BY <1>3, <3>1, <3>2
  <2> QED
    BY <2>2, <2>3
<1>5. {Head(queue)} \cup {Tail(queue)[k] : k \in DOMAIN Tail(queue)} \subseteq Queued
  BY <1>1, <1>2, <1>3 DEF Queued
<1>6. Queued = {Head(queue)} \cup {Tail(queue)[k] : k \in DOMAIN Tail(queue)}
  BY <1>4, <1>5, Zenon
<1>7. Len(Tail(queue)) <= Backlog
  BY <1>1, BacklogAssumption DEF Ranges
<1> QED
  BY <1>1, <1>6, <1>7

\* The server takes the oldest connection, ...
LEMMA AcceptStep ==
  ASSUME TypeOK, Accept
  PROVE  TypeOK'
<1>0. Ranges /\ Agreement
  BY TypeParts
<1>1. /\ Head(queue) \in Taken /\ Tail(queue) \in Seq(Taken) /\ Len(Tail(queue)) <= Backlog
      /\ Queued = {Head(queue)} \cup {Tail(queue)[k] : k \in DOMAIN Tail(queue)}
  BY <1>0, HeadAndTail DEF Accept
<1>2. served = {}
  BY <1>0 DEF Agreement, Accept
<1>3. Conns' = Conns
  BY <1>1, <1>2 DEF Accept, Conns, Queued
<1> QED
  BY <1>0, <1>1, <1>3 DEF Accept, TypeOK, Ranges, Agreement, Listening

\* ... the client makes a new one.
LEMMA ConnectStep ==
  ASSUME TypeOK, Connect
  PROVE  TypeOK'
<1> DEFINE new == [near |-> {"client"}, cut |-> FALSE]
<1>0. new \in Taken /\ Mine(new)
  BY DEF Taken, Ends, Mine
<1>1. /\ queue' \in Seq(Taken) /\ Len(queue') = Len(queue) + 1
      /\ queue'[Len(queue) + 1] = new /\ Len(queue) \in Nat
  BY <1>0, AppendProperties DEF Connect, TypeOK
<1>2. new \in Conns'
  BY <1>1 DEF Conns, Queued
<1>3. Len(queue') <= Backlog
  BY <1>1, BacklogAssumption DEF Connect
<1> QED
  BY <1>0, <1>1, <1>2, <1>3 DEF Connect, TypeOK, Listening

-----------------------------------------------------------------------------
(* The rest of the steps. *)

\* The client's kernel learns something of a connection.
LEMMA LearnStep ==
  ASSUME TypeOK, NEW c \in gone, NEW news \in {"ended", "asked", "reset"}, Learn(c, news)
  PROVE  TypeOK'
<1> DEFINE d == [c EXCEPT !.told = news]
<1>1. d \in Left /\ d.near = c.near
  BY Zenon DEF TypeOK, Left
<1> HIDE DEF d
<1>2. gone' \in SUBSET Left
  BY <1>1 DEF Learn, TypeOK, d
<1>3. (\E b \in Conns' : Mine(b)) <=> \E b \in Conns : Mine(b)
  BY <1>1 DEF Learn, Conns, Queued, Mine, d
<1> QED
  BY <1>2, <1>3 DEF Learn, TypeOK, Listening

\* All steps of the server.
LEMMA ServerStep ==
  ASSUME TypeOK, PowerOn \/ Boot \/ Accept \/ AcceptFails \/ ReadEnd \/ ReadError \/ FfmpegEnds
  PROVE  TypeOK'
<1>0. Ranges /\ Agreement
  BY TypeParts
<1>1. CASE PowerOn \/ Boot
  <2>1. Conns' = Conns /\ UNCHANGED <<client, stale, queue, served, gone>>
    BY <1>1 DEF PowerOn, Boot, Conns, Queued
  <2> QED
    BY <1>0, <1>1, <2>1 DEF PowerOn, Boot, TypeOK, Ranges, Agreement, Listening
<1>2. CASE ReadEnd \/ ReadError
  <2>1. Exit(served, queue)
    BY <1>2 DEF ReadEnd, ReadError
  <2>2. served \in SUBSET Taken /\ queue \in Seq(Taken) /\ Len(queue) <= Backlog
    BY <1>0 DEF Ranges
  <2>3. Conns = served \cup {queue[k] : k \in DOMAIN queue} \cup gone
    BY DEF Conns, Queued
  <2> QED
    BY <2>1, <2>2, <2>3, ExitStep
<1>3. CASE AcceptFails
  <2>1. Exit({Head(queue)}, Tail(queue)) /\ queue # <<>> /\ server = "listening"
    BY <1>3 DEF AcceptFails
  <2>2. /\ Head(queue) \in Taken /\ Tail(queue) \in Seq(Taken) /\ Len(Tail(queue)) <= Backlog
        /\ Queued = {Head(queue)} \cup {Tail(queue)[k] : k \in DOMAIN Tail(queue)}
    BY <1>0, <2>1, HeadAndTail
  <2>3. served = {}
    BY <1>0, <2>1 DEF Agreement
  <2>4. Conns = {Head(queue)} \cup {Tail(queue)[k] : k \in DOMAIN Tail(queue)} \cup gone
    BY <2>2, <2>3 DEF Conns
  <2>5. {Head(queue)} \in SUBSET Taken
    BY <2>2
  <2> QED
    BY <2>1, <2>2, <2>4, <2>5, ExitStep
<1> QED
  BY <1>1, <1>2, <1>3, AcceptStep, FfmpegStep

LEMMA TypeStep == TypeOK /\ [Next]_vars => TypeOK'
<1> SUFFICES ASSUME TypeOK, [Next]_vars PROVE TypeOK'
  OBVIOUS
<1>0. Ranges /\ Agreement
  BY TypeParts
<1>1. CASE Server \/ AcceptFails \/ ReadError
  BY <1>1, ServerStep DEF Server
<1>2. ASSUME NEW c \in gone, Tell(c) \/ Reset(c)
      PROVE  TypeOK'
  BY <1>2, LearnStep DEF Tell, Reset
<1>3. ASSUME NEW c \in gone, Press(c)
      PROVE  TypeOK'
  BY <1>3, LearnStep, ClientEndsStep DEF Press
<1>4. CASE Start
  <2>1. Conns' = Conns /\ UNCHANGED <<server, stale, queue, served, gone>>
    BY <1>4 DEF Start, Conns, Queued
  <2> QED
    BY <1>0, <1>4, <2>1 DEF Start, TypeOK, Ranges, Agreement, Listening
<1>5. CASE Quit \/ CutServer \/ CutClient
  BY <1>5, ClientEndsStep, CutServerStep, CutClientStep DEF Quit
<1>6. CASE UNCHANGED vars
  BY <1>6 DEF vars, TypeOK, Conns, Queued, Listening
<1> QED
  BY <1>1, <1>2, <1>3, <1>4, <1>5, <1>6, PlayerStep, ConnectStep
     DEF Next, Client, Driver, Mishap

\* Whatever exits, restarts, is refused or loses power, in any order: a client
\* that is up has its connection open and no ended one has, the server reads
\* exactly as long as it has accepted a connection (rc_server.c:93, :113), and
\* connections wait for accept only while somebody has the listening socket.
THEOREM TypeCorrect == Spec => []TypeOK
  BY TypeInit, TypeStep, PTL DEF Spec
=============================================================================
