------------------------ MODULE CommandStreamProofs ------------------------
(***************************************************************************)
(* Proofs about CommandStream for every set of commands, number of presses *)
(* and segmentation of the byte stream; and about the buttons of Panel,    *)
(* whose touches the presses are.                                          *)
(***************************************************************************)
EXTENDS CommandStream, Panel, TLAPS

\* Quotient and remainder of a byte offset by the frame length.
LEMMA FrameArithmetic ==
  ASSUME NEW n \in Nat
  PROVE  /\ n \div MAXLINE \in Nat
         /\ n % MAXLINE \in 0 .. MAXLINE - 1
         /\ n = MAXLINE * (n \div MAXLINE) + (n % MAXLINE)
  BY DEF MAXLINE

\* A read takes at least one byte, at most READSZ, and no more than there is.
LEMMA ReadAdvances ==
  ASSUME TypeOK, Read
  PROVE  /\ taken \in Nat /\ taken' \in Nat /\ arrived \in Nat
         /\ taken < taken' /\ taken' <= taken + READSZ
         /\ taken' <= arrived
<1>1. arrived \in Nat /\ taken \in Nat /\ taken <= arrived
  BY DEF TypeOK, Sent, MAXLINE
<1>2. arrived - taken > 0
      /\ taken' = taken + (IF 20 < arrived - taken THEN 20 ELSE arrived - taken)
  BY DEF Read, MinOf, READSZ, Available
<1> QED
  BY <1>1, <1>2 DEF READSZ

-----------------------------------------------------------------------------
(* Type correctness. *)

\* A read that finds a command at its first byte stands at the start of a
\* frame the client has written.
LEMMA CommandAtFrameStart ==
  ASSUME TypeOK, Available > 0, ByteAt(taken) \in Commands
  PROVE  /\ FrameOf(taken) \in DOMAIN written
         /\ taken = MAXLINE * (FrameOf(taken) - 1)
         /\ ByteAt(taken) = written[FrameOf(taken)]
<1>1. taken \in Nat /\ taken < MAXLINE * Len(written)
  BY DEF TypeOK, Available, Sent, MAXLINE
<1>2. taken % MAXLINE = 0 /\ ByteAt(taken) = written[FrameOf(taken)]
  BY NulAssumption DEF ByteAt
<1>3. taken = MAXLINE * (taken \div MAXLINE) /\ taken \div MAXLINE \in Nat
  BY <1>1, <1>2, FrameArithmetic DEF MAXLINE
<1>4. Len(written) \in Nat /\ DOMAIN written = 1 .. Len(written)
  BY DEF TypeOK
<1> QED
  BY <1>1, <1>2, <1>3, <1>4 DEF FrameOf, MAXLINE

LEMMA TypeInit == Init => TypeOK
  BY DEF Init, TypeOK, Sent, MAXLINE

LEMMA TypeStep == TypeOK /\ [Next]_vars => TypeOK'
<1> SUFFICES ASSUME TypeOK, [Next]_vars
             PROVE  TypeOK'
  OBVIOUS
<1>0. paced' \in BOOLEAN /\ whole' \in BOOLEAN
  BY DEF TypeOK, Next, vars
<1>1. CASE UNCHANGED vars
  BY <1>1 DEF vars, TypeOK, Sent
<1>2. ASSUME NEW c \in Commands, Press(c)
      PROVE  TypeOK'
  <2>1. written' \in Seq(Commands) /\ Len(written') = Len(written) + 1
    BY <1>2 DEF TypeOK, Press
  <2>2. DOMAIN written \subseteq DOMAIN written'
    BY <1>2, <2>1 DEF TypeOK, Press
  <2> QED
    BY <1>0, <1>2, <2>1, <2>2 DEF TypeOK, Press, Sent, MAXLINE
<1>3. CASE Deliver
  BY <1>0, <1>3 DEF TypeOK, Deliver, Sent, MAXLINE
<1>4. CASE Hangup
  BY <1>0, <1>4 DEF TypeOK, Hangup, Sent
<1>5. CASE Read
  <2>1. taken' \in 0 .. arrived'
    BY <1>5, ReadAdvances DEF Read
  <2>2. handled' \subseteq DOMAIN written' /\ current' \in Commands \cup {Nul} /\ count' \in Nat
    BY <1>5, CommandAtFrameStart DEF Read, TypeOK
  <2> QED
    BY <1>0, <1>5, <2>1, <2>2 DEF Read, TypeOK, Sent
<1>6. CASE ReadEnd
  BY <1>0, <1>6 DEF TypeOK, ReadEnd, Sent
<1> QED
  BY <1>1, <1>2, <1>3, <1>4, <1>5, <1>6 DEF Next, ServerNext

\* The byte counts stay within the stream (the server never reads what has
\* not arrived, nothing arrives that was not sent) and only written frames
\* are dispatched.
THEOREM TypeCorrect == Spec => []TypeOK
  BY TypeInit, TypeStep, PTL DEF Spec

-----------------------------------------------------------------------------
(* The dispatched commands: in order, at most once. *)

\* The server has read past the start of every frame it dispatched.
HandledArePassed == \A k \in handled : Passed(k)

LEMMA HandledArePassedStep ==
  TypeOK /\ HandledArePassed /\ [Next]_vars => HandledArePassed'
<1> SUFFICES ASSUME TypeOK, HandledArePassed, [Next]_vars
             PROVE  HandledArePassed'
  OBVIOUS
<1>1. CASE Read
  <2>1. handled' \subseteq handled \cup {FrameOf(taken)}
    BY <1>1 DEF Read
  <2>2. taken' \in Nat /\ taken \in Nat /\ taken < taken'
    BY <1>1, ReadAdvances
  <2>3. ASSUME FrameOf(taken) \in handled' \ handled
        PROVE  MAXLINE * (FrameOf(taken) - 1) < taken'
    BY <1>1, <2>2, <2>3, CommandAtFrameStart DEF Read
  <2>4. handled \subseteq Nat
    BY DEF TypeOK
  <2> QED
    BY <2>1, <2>2, <2>3, <2>4 DEF HandledArePassed, Passed, MAXLINE
<1>2. CASE ~Read
  BY <1>2 DEF vars, Next, ServerNext, Press, Deliver, Hangup, ReadEnd,
              HandledArePassed, Passed
<1> QED
  BY <1>1, <1>2

\* The switch dispatches a frame: nothing from it on was dispatched before.
LEMMA ReadIsNew ==
  ASSUME TypeOK, HandledArePassed, Available > 0, ByteAt(taken) \in Commands
  PROVE  \A j \in handled : j < FrameOf(taken)
<1> DEFINE k == FrameOf(taken)
<1>1. k \in DOMAIN written /\ taken = MAXLINE * (k - 1)
  BY CommandAtFrameStart
<1> SUFFICES ASSUME NEW j \in handled PROVE j < k
  OBVIOUS
<1>2. MAXLINE * (j - 1) < MAXLINE * (k - 1)
  BY <1>1 DEF HandledArePassed, Passed
<1>3. j \in Nat /\ k \in Nat
  BY <1>1 DEF TypeOK
<1> QED
  BY <1>2, <1>3 DEF MAXLINE

LEMMA ReadExecutes ==
  ASSUME TypeOK, HandledArePassed, Read, ByteAt(taken) \in Commands
  PROVE  \E k \in DOMAIN written : RC!Execute(k)
<1> DEFINE k == FrameOf(taken)
<1>1. k \in DOMAIN written /\ taken = MAXLINE * (k - 1) /\ ByteAt(taken) = written[k]
  BY CommandAtFrameStart DEF Read
<1>2. \A j \in handled : j < k
  BY ReadIsNew DEF Read
<1>3. handled' = handled \cup {k} /\ current' = written[k] /\ count' = count + 1
      /\ written' = written
  BY <1>1 DEF Read
<1> QED
  BY <1>1, <1>2, <1>3 DEF RC!Execute

LEMMA RemoteInit == Init => RC!Init /\ HandledArePassed
  BY DEF Init, RC!Init, HandledArePassed

\* Every step of the stream is a step of the remote control, or none.
LEMMA RemoteStep ==
  TypeOK /\ HandledArePassed /\ [Next]_vars => [RC!Next]_(RC!vars)
<1> SUFFICES ASSUME TypeOK, HandledArePassed, [Next]_vars
             PROVE  RC!Next \/ UNCHANGED RC!vars
  OBVIOUS
<1>1. ASSUME NEW c \in Commands, Press(c)
      PROVE  RC!Next
  BY <1>1 DEF Press, RC!Next, RC!Issue
<1>2. CASE Read
  BY <1>2, ReadExecutes DEF Read, RC!Next, RC!vars
<1>3. CASE Deliver \/ Hangup \/ ReadEnd \/ UNCHANGED vars
  BY <1>3 DEF Deliver, Hangup, ReadEnd, vars, RC!vars
<1> QED
  BY <1>1, <1>2, <1>3 DEF Next, ServerNext

\* Whatever the driver presses and however TCP cuts the stream, the commands
\* dispatched by rc_server's switch (rc_server.c:122) are presses of the
\* client, dispatched in the order pressed and none of them twice.
THEOREM RefinesRemoteControl == Spec => InOrderAtMostOnce
  BY RemoteInit, RemoteStep, TypeInit, TypeStep, HandledArePassedStep, PTL
     DEF Spec, InOrderAtMostOnce, RC!Spec

-----------------------------------------------------------------------------
(* Whole frames: every second command at least survives a burst. *)

\* Where the server stands in the frame it reads, and which of the last two
\* frame starts it hit.  20 bytes into a frame it dispatched that frame; 10
\* bytes into a frame it jumped over the frame's start but dispatched the
\* frame before.
PhaseInv ==
  LET q == taken \div MAXLINE
  IN  whole =>
      /\ arrived % MAXLINE = 0
      /\ taken % MAXLINE \in {0, 10, 20}
      /\ taken % MAXLINE = 20 => q + 1 \in handled
      /\ taken % MAXLINE = 10 => q \in handled

\* A delivery that ends inside a frame is remembered.
LEMMA ArrivalIsMarked ==
  ASSUME TypeOK, [Next]_vars, Deliver, whole'
  PROVE  arrived' % MAXLINE = 0
<1>1. arrived' # arrived
  BY DEF Deliver, TypeOK, Sent, MAXLINE
<1>2. ~Hangup /\ ~ServerNext /\ \A c \in Commands : ~Press(c)
  BY <1>1 DEF Hangup, ServerNext, Read, ReadEnd, Press
<1> QED
  BY <1>1, <1>2 DEF Next, vars

LEMMA PhaseStep == TypeOK /\ PhaseInv /\ [Next]_vars => PhaseInv'
<1> SUFFICES ASSUME TypeOK, PhaseInv, [Next]_vars, whole'
             PROVE  PhaseInv'
  BY DEF PhaseInv
<1>0. whole
  BY DEF Next, vars
<1>1. CASE Deliver
  <2>1. arrived' % MAXLINE = 0
    BY <1>1, ArrivalIsMarked
  <2> QED
    BY <1>0, <1>1, <2>1 DEF Deliver, PhaseInv
<1>2. CASE Read
  <2> DEFINE q == taken \div 30
  <2>1. taken \in Nat /\ arrived \in Nat /\ arrived - taken > 0 /\ arrived % 30 = 0
    BY <1>0, <1>2 DEF Read, Available, TypeOK, PhaseInv, MAXLINE
  <2>2. q \in Nat /\ taken = 30 * q + (taken % 30)
    BY <2>1
  <2>3. taken' = taken + (IF 20 < arrived - taken THEN 20 ELSE arrived - taken)
    BY <1>2 DEF Read, MinOf, READSZ, Available
  <2>4. CASE taken % 30 = 0
    <3>1. ByteAt(taken) = written[q + 1] /\ q + 1 \in DOMAIN written
      BY <2>4, <2>1, <2>2 DEF ByteAt, FrameOf, MAXLINE, TypeOK, Sent
    <3>2. q + 1 \in handled'
      BY <1>2, <3>1 DEF Read, FrameOf, MAXLINE, TypeOK
    <3>3. arrived - taken >= 30
      BY <2>4, <2>1
    <3>4. taken' % 30 = 20 /\ taken' \div 30 = q
      BY <2>4, <2>2, <2>3, <3>3, <2>1
    <3> QED
      BY <1>2, <3>2, <3>4, <2>1 DEF PhaseInv, MAXLINE, Read
  <2>5. CASE taken % 30 = 20
    <3>1. q + 1 \in handled'
      BY <1>0, <1>2, <2>5 DEF PhaseInv, MAXLINE, Read
    <3>2. CASE arrived - taken > 20
      <4>1. taken' % 30 = 10 /\ taken' \div 30 = q + 1
        BY <2>5, <2>2, <2>3, <3>2, <2>1
      <4> QED
        BY <1>2, <3>1, <4>1, <2>1 DEF PhaseInv, MAXLINE, Read
    <3>3. CASE ~(arrived - taken > 20)
      <4>1. taken' = arrived
        BY <2>3, <3>3, <2>1
      <4> QED
        BY <1>2, <4>1, <2>1 DEF PhaseInv, MAXLINE, Read
    <3> QED
      BY <3>2, <3>3
  <2>6. CASE taken % 30 = 10
    <3>1. arrived - taken >= 20
      BY <2>6, <2>1
    <3>2. taken' % 30 = 0
      BY <2>6, <2>3, <3>1, <2>1
    <3> QED
      BY <1>2, <3>2, <2>1 DEF PhaseInv, MAXLINE, Read
  <2> QED
    BY <1>0, <2>4, <2>5, <2>6 DEF PhaseInv, MAXLINE
<1>3. CASE ~Read /\ ~Deliver
  <2>1. UNCHANGED <<taken, arrived, handled>>
    BY <1>3 DEF vars, Next, ServerNext, Press, Hangup, ReadEnd
  <2> QED
    BY <1>0, <2>1 DEF PhaseInv
<1> QED
  BY <1>1, <1>2, <1>3

\* Two frame starts are at least one full read apart, so a read that jumps
\* over one starts 20 bytes into the frame before it.
LEMMA NoTwoStep ==
  TypeOK /\ PhaseInv /\ HandledArePassed /\ NoTwoInARow /\ [Next]_vars
     => NoTwoInARow'
<1> SUFFICES ASSUME TypeOK, PhaseInv, HandledArePassed, NoTwoInARow, [Next]_vars, whole'
             PROVE  NoTwoInARow'
  BY DEF NoTwoInARow
<1>0. whole
  BY DEF Next, vars
<1>1. ASSUME NEW c \in Commands, Press(c)
      PROVE  NoTwoInARow'
  <2>1. Len(written) \in Nat /\ Len(written') = Len(written) + 1
        /\ taken' = taken /\ handled' = handled
    BY <1>1 DEF Press, TypeOK
  <2>2. taken \in Nat /\ taken <= 30 * Len(written)
    BY DEF TypeOK, Sent, MAXLINE
  <2> QED
    BY <1>0, <2>1, <2>2 DEF NoTwoInARow, Passed, MAXLINE
<1>2. CASE Read
  <2> SUFFICES ASSUME NEW k \in 1 .. Len(written) - 1, Passed(k + 1)'
               PROVE  k \in handled' \/ k + 1 \in handled'
    BY <1>2 DEF Read, NoTwoInARow
  <2>1. handled \subseteq handled'
    BY <1>2 DEF Read
  <2>2. k \in Nat /\ taken \in Nat /\ taken' \in Nat /\ taken' <= taken + 20
    BY <1>2, ReadAdvances DEF READSZ
  <2>3. 30 * k < taken'
    BY <2>2 DEF Passed, MAXLINE
  <2>4. CASE Passed(k + 1)
    BY <1>0, <2>1, <2>4 DEF NoTwoInARow
  <2>5. CASE ~Passed(k + 1)
    <3>1. taken <= 30 * k /\ 30 * k < taken + 20
      BY <2>2, <2>3, <2>5 DEF Passed, MAXLINE
    <3>2. CASE taken % 30 = 0
      <4>1. taken = 30 * k /\ taken \div 30 = k
        BY <3>1, <3>2, <2>2
      <4>2. ByteAt(taken) = written[k + 1] /\ k + 1 \in DOMAIN written
        BY <4>1, <3>2, <2>2 DEF ByteAt, FrameOf, MAXLINE, TypeOK
      <4> QED
        BY <1>2, <4>1, <4>2 DEF Read, FrameOf, MAXLINE, TypeOK
    <3>3. CASE taken % 30 = 20
      <4>1. taken \div 30 = k - 1
        BY <3>1, <3>3, <2>2
      <4> QED
        BY <1>0, <4>1, <3>3, <2>1, <2>2 DEF PhaseInv, MAXLINE
    <3>4. CASE taken % 30 = 10
      BY <3>1, <3>4, <2>2
    <3> QED
      BY <1>0, <3>2, <3>3, <3>4 DEF PhaseInv, MAXLINE
  <2> QED
    BY <2>4, <2>5
<1>3. CASE Deliver \/ Hangup \/ ReadEnd \/ UNCHANGED vars
  BY <1>0, <1>3 DEF vars, Deliver, Hangup, ReadEnd, NoTwoInARow, Passed
<1> QED
  BY <1>1, <1>2, <1>3 DEF Next, ServerNext

\* As long as TCP hands over whole 30-byte frames, a burst of presses loses at
\* most every second command, however long the burst (rc_client.c:21 MAXLINE
\* against the 20 of rc_server.c:116).
THEOREM WholeFramesLoseNoTwo == Spec => []NoTwoInARow
<1>1. Init => PhaseInv /\ HandledArePassed /\ NoTwoInARow
  BY DEF Init, PhaseInv, HandledArePassed, NoTwoInARow, MAXLINE
<1> QED
  BY <1>1, TypeInit, TypeStep, PhaseStep, HandledArePassedStep, NoTwoStep, PTL
     DEF Spec

-----------------------------------------------------------------------------
(* A driver who waits: nothing is passed over. *)

\* Only the last frame is unread, wholly or in part, and every frame whose
\* first byte was read was dispatched.
OneAtATime == /\ Sent - taken <= MAXLINE
              /\ \A k \in DOMAIN written : Passed(k) => k \in handled

LEMMA OneAtATimePress ==
  ASSUME TypeOK, OneAtATime, Drained, NEW c \in Commands, Press(c)
  PROVE  OneAtATime'
<1>1. /\ written' = Append(written, c) /\ taken' = taken /\ handled' = handled
      /\ Len(written') = Len(written) + 1
      /\ DOMAIN written = 1 .. Len(written)
      /\ DOMAIN written' = 1 .. Len(written) + 1
      /\ taken = MAXLINE * Len(written)
      /\ taken \in Nat /\ Len(written) \in Nat
  BY DEF Press, TypeOK, Drained, Sent, MAXLINE
<1> QED
  BY <1>1 DEF OneAtATime, Sent, Passed, MAXLINE

LEMMA OneAtATimeRead ==
  ASSUME TypeOK, OneAtATime, Read
  PROVE  OneAtATime'
<1>0. /\ taken \in Nat /\ Len(written) \in Nat /\ DOMAIN written = 1 .. Len(written)
      /\ taken <= MAXLINE * Len(written)
  BY DEF TypeOK, Sent, MAXLINE
<1>1. taken' \in Nat /\ taken < taken' /\ written' = written /\ handled \subseteq handled'
  BY ReadAdvances DEF Read
<1>2. (Sent - taken <= MAXLINE)'
  BY <1>0, <1>1 DEF OneAtATime, Sent, MAXLINE
<1> SUFFICES ASSUME NEW k \in DOMAIN written, Passed(k)', ~Passed(k)
             PROVE  k \in handled'
  BY <1>0, <1>1, <1>2 DEF OneAtATime
<1>3. k = Len(written) /\ taken = MAXLINE * (k - 1)
  BY <1>0, <1>1 DEF OneAtATime, Passed, Sent, MAXLINE
<1>4. taken % MAXLINE = 0 /\ FrameOf(taken) = k
  <2>1. k \in Nat /\ k >= 1
    BY <1>0
  <2>2. taken = 30 * (k - 1)
    BY <1>3 DEF MAXLINE
  <2> QED
    BY <2>1, <2>2 DEF FrameOf, MAXLINE
<1>5. ByteAt(taken) \in Commands
  BY <1>4 DEF ByteAt, TypeOK
<1> QED
  BY <1>4, <1>5 DEF Read

\* Nothing of it changes without a press or a read.
LEMMA OneAtATimeElse ==
  ASSUME OneAtATime, UNCHANGED <<written, taken, handled>>
  PROVE  OneAtATime'
BY DEF OneAtATime, Sent, Passed

PacedInv == paced => OneAtATime

LEMMA PacedStep == TypeOK /\ PacedInv /\ [Next]_vars => PacedInv'
<1> SUFFICES ASSUME TypeOK, PacedInv, [Next]_vars, paced'
             PROVE  OneAtATime'
  BY DEF PacedInv
<1>0. paced /\ OneAtATime
  BY DEF Next, vars, PacedInv
<1>1. ASSUME NEW c \in Commands, Press(c), Drained
      PROVE  OneAtATime'
  BY <1>0, <1>1, OneAtATimePress
<1>2. CASE Read
  BY <1>0, <1>2, OneAtATimeRead
<1>3. CASE Deliver \/ Hangup \/ ReadEnd \/ UNCHANGED vars
  BY <1>0, <1>3, OneAtATimeElse DEF vars, Deliver, Hangup, ReadEnd
<1> QED
  BY <1>0, <1>1, <1>2, <1>3 DEF Next, ServerNext, Drained

\* For a driver who waits until the server has read everything, whatever the
\* segmentation, the switch of rc_server.c:122 passes over no press.
THEOREM PacedLosesNothing == Spec => NothingSkipped
<1>1. Init => PacedInv /\ HandledArePassed
  BY DEF Init, PacedInv, OneAtATime, HandledArePassed, Sent, MAXLINE
<1>2. TypeOK /\ PacedInv /\ HandledArePassed /\ [Next]_vars
         => [paced => RC!ExactNext]_(RC!vars)
  <2> SUFFICES ASSUME TypeOK, PacedInv, HandledArePassed, [Next]_vars, paced
               PROVE  RC!ExactNext \/ UNCHANGED RC!vars
    OBVIOUS
  <2>1. ASSUME NEW c \in Commands, Press(c)
        PROVE  RC!ExactNext
    BY <2>1 DEF Press, RC!ExactNext, RC!Issue
  <2>2. CASE Read /\ ByteAt(taken) \in Commands
    <3>1. PICK k \in DOMAIN written : k = FrameOf(taken) /\ taken = MAXLINE * (k - 1)
      BY <2>2, CommandAtFrameStart DEF Read
    <3>2. DOMAIN written = 1 .. Len(written) /\ Len(written) \in Nat /\ handled \subseteq Nat
      BY DEF TypeOK
    <3>3. \A j \in DOMAIN written : Passed(j) <=> j < k
      BY <3>1, <3>2 DEF Passed, MAXLINE
    <3>4. \A j \in handled : j \in DOMAIN written /\ j < k
      BY <3>3 DEF HandledArePassed, TypeOK
    <3>5. handled = 1 .. (k - 1)
      <4>1. k \in 1 .. Len(written)
        BY <3>2
      <4>2. \A j \in DOMAIN written : j < k => j \in handled
        BY <3>3 DEF PacedInv, OneAtATime
      <4>3. ASSUME NEW j \in handled PROVE j \in 1 .. (k - 1)
        <5>1. j \in 1 .. Len(written) /\ j < k
          BY <3>2, <3>4
        <5> QED
          BY <3>2, <4>1, <5>1
      <4>4. ASSUME NEW j \in 1 .. (k - 1) PROVE j \in handled
        <5>1. j \in 1 .. Len(written) /\ j < k
          BY <3>2, <4>1
        <5> QED
          BY <3>2, <4>2, <5>1
      <4> QED
        BY <4>3, <4>4
    <3>6. RC!Execute(k)
      <4>1. ByteAt(taken) = written[k]
        BY <2>2, <3>1, CommandAtFrameStart DEF Read
      <4>2. handled' = handled \cup {k} /\ current' = written[k]
            /\ count' = count + 1 /\ written' = written
        BY <2>2, <3>1, <4>1 DEF Read
      <4> QED
        BY <3>4, <4>2 DEF RC!Execute
    <3> QED
      BY <3>5, <3>6 DEF RC!ExactNext
  <2>3. CASE Read /\ ByteAt(taken) \notin Commands
    BY <2>3 DEF Read, RC!vars
  <2>4. CASE Deliver \/ Hangup \/ ReadEnd \/ UNCHANGED vars
    BY <2>4 DEF Deliver, Hangup, ReadEnd, vars, RC!vars
  <2> QED
    BY <2>1, <2>2, <2>3, <2>4 DEF Next, ServerNext
<1> QED
  BY <1>1, <1>2, TypeInit, TypeStep, PacedStep, HandledArePassedStep, PTL
     DEF Spec, NothingSkipped

-----------------------------------------------------------------------------
(* The touch panel. *)

\* No touch hits two buttons: the order of the else-ifs is of no consequence.
THEOREM BoxesDisjoint ==
  ASSUME NEW x \in Int, NEW y \in Int,
         NEW b \in Buttons, NEW c \in Buttons, Hit(b, x, y), Hit(c, x, y)
  PROVE  b = c
BY DEF Buttons, Hit, Box

\* A touch of the picture of a button, wherever in it, is taken for that button
\* and for no other.
THEOREM PictureIsTaken ==
  ASSUME NEW x \in Int, NEW y \in Int, NEW b \in Buttons, Drawn(b, x, y)
  PROVE  Taken(x, y) = {b}
<1>1. Hit(b, x, y)
  BY DEF Buttons, Drawn, Side, Hit, Box
<1>2. \A c \in Buttons : Hit(c, x, y) => c = b
  BY <1>1, BoxesDisjoint
<1>3. Rank(b) \in Int
  BY DEF Buttons, Rank
<1> QED
  BY <1>1, <1>2, <1>3 DEF Taken
=============================================================================
