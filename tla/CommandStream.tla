--------------------------- MODULE CommandStream ---------------------------
(***************************************************************************)
(* The command connection: button presses of rc_client's main loop, the    *)
(* TCP byte stream, and the read loop of rc_server's main.                 *)
(*                                                                         *)
(* The client writes MAXLINE bytes for each press, the server reads at     *)
(* most READSZ bytes at a time and looks at the first byte of each read    *)
(* only, so the two sides agree on where a command starts only as long as  *)
(* the stream has been read up to the end of a frame.  Positions in the    *)
(* stream are byte offsets from the beginning of the connection.           *)
(***************************************************************************)
EXTENDS Integers, Sequences

CONSTANTS Commands,     \* the command bytes '1' .. '5'
          Nul,          \* every other byte of a frame
          MaxPresses,   \* bound on the number of presses
          Grain         \* the network hands bytes over in multiples of Grain

MAXLINE == 30           \* bytes written for one press
READSZ_Wide == 25       \* a faulty variant: a read reaches further into the next frame
READSZ  == 20           \* bytes the server asks for in one read

ASSUME NulAssumption == Nul \notin Commands
ASSUME MaxPressesAssumption == MaxPresses \in Nat
ASSUME GrainAssumption == Grain \in 1 .. MAXLINE /\ MAXLINE % Grain = 0

VARIABLES written,      \* the commands whose frames the client has written
          arrived,      \* bytes that have reached the server's socket
          taken,        \* bytes the server has read
          handled,      \* numbers of the frames whose command was dispatched
          current,      \* the command dispatched last
          count,        \* how often a command was dispatched
          open,         \* the client still runs
          up,           \* the server still runs
          paced,        \* history: every press found everything before it read
          whole         \* history: TCP has delivered whole frames only

vars == <<written, arrived, taken, handled, current, count, open, up, paced, whole>>

MinOf(m, n) == IF m < n THEN m ELSE n

Sent      == MAXLINE * Len(written)
Available == arrived - taken
Drained   == taken = Sent

\* Number of the frame the byte at offset n belongs to.
FrameOf(n) == (n \div MAXLINE) + 1

\* A faulty variant: the frame is not cleared, the character fills it.
ByteAt_Unpadded(n) == written[FrameOf(n)]
\* The byte at offset n: memset and strcpy leave one character and zeros.
ByteAt(n) == IF n % MAXLINE = 0 THEN written[FrameOf(n)] ELSE Nul

TypeOK == /\ written \in Seq(Commands)
          /\ arrived \in 0 .. Sent
          /\ taken \in 0 .. arrived
          /\ handled \subseteq DOMAIN written
          /\ current \in Commands \cup {Nul}
          /\ count \in Nat
          /\ open \in BOOLEAN
          /\ up \in BOOLEAN
          /\ paced \in BOOLEAN
          /\ whole \in BOOLEAN

Init == /\ written = <<>>
        /\ arrived = 0
        /\ taken = 0
        /\ handled = {}
        /\ current = Nul
        /\ count = 0
        /\ open = TRUE
        /\ up = TRUE
        /\ paced = TRUE
        /\ whole = TRUE

\* A button is pressed and its frame written; the client neither looks at the
\* result of write nor waits for an answer.
Press(c) == /\ open
            /\ Len(written) < MaxPresses
            /\ written' = Append(written, c)
            /\ UNCHANGED <<arrived, taken, handled, current, count, open, up>>

\* TCP delivers further bytes, in order.
Deliver == /\ up
           /\ \E n \in arrived + 1 .. Sent : n % Grain = 0 /\ arrived' = n
           /\ UNCHANGED <<written, taken, handled, current, count, open, up>>

\* The client ends (SDL_QUIT, or killed).  What is still in flight may arrive
\* or be lost.
Hangup == /\ open
          /\ open' = FALSE
          /\ UNCHANGED <<written, arrived, taken, handled, current, count, up>>

\* Faulty variant: a read shorter than asked for is thrown away.
Read_WholeOnly == /\ up
                  /\ Available > 0
                  /\ taken' = taken + MinOf(READSZ, Available)
                  /\ IF ByteAt(taken) \in Commands /\ Available >= READSZ
                        THEN /\ handled' = handled \cup {FrameOf(taken)}
                             /\ current' = ByteAt(taken)
                             /\ count' = count + 1
                        ELSE UNCHANGED <<handled, current, count>>
                  /\ UNCHANGED <<written, arrived, open, up>>

\* Faulty variant: the server waits for all 20 bytes.
Read_WaitAll == /\ up
                /\ Available >= READSZ
                /\ taken' = taken + READSZ
                /\ IF ByteAt(taken) \in Commands
                      THEN /\ handled' = handled \cup {FrameOf(taken)}
                           /\ current' = ByteAt(taken)
                           /\ count' = count + 1
                      ELSE UNCHANGED <<handled, current, count>>
                /\ UNCHANGED <<written, arrived, open, up>>

\* Faulty variant: every read is taken to have filled its 20 bytes.
Read_AssumesFull == /\ up
                    /\ Available > 0
                    /\ taken' = taken + READSZ
                    /\ IF ByteAt(taken) \in Commands
                          THEN /\ handled' = handled \cup {FrameOf(taken)}
                               /\ current' = ByteAt(taken)
                               /\ count' = count + 1
                          ELSE UNCHANGED <<handled, current, count>>
                    /\ UNCHANGED <<written, arrived, open, up>>

\* One turn of the server's loop with data: read, then switch on buff[0].
Read == /\ up
        /\ Available > 0
        /\ taken' = taken + MinOf(READSZ, Available)
        /\ IF ByteAt(taken) \in Commands
              THEN /\ handled' = handled \cup {FrameOf(taken)}
                   /\ current' = ByteAt(taken)
                   /\ count' = count + 1
              ELSE UNCHANGED <<handled, current, count>>
        /\ UNCHANGED <<written, arrived, open, up>>

\* The connection is at its end: read returns 0 or an error, the server exits.
ReadEnd == /\ up
           /\ ~open
           /\ Available = 0
           /\ up' = FALSE
           /\ UNCHANGED <<written, arrived, taken, handled, current, count, open>>

ServerNext == Read \/ ReadEnd

Next == \/ /\ \E c \in Commands : Press(c)
           /\ paced' = (paced /\ Drained)
           /\ UNCHANGED whole
        \/ /\ Deliver
           /\ whole' = (whole /\ arrived' % MAXLINE = 0)
           /\ UNCHANGED paced
        \/ /\ Hangup \/ ServerNext
           /\ UNCHANGED <<paced, whole>>

\* TCP retransmits until the bytes arrive, and the main thread of the server
\* is scheduled again and again.
Fairness == /\ WF_vars(Deliver /\ UNCHANGED paced /\ whole' = (whole /\ arrived' % MAXLINE = 0))
            /\ WF_vars(ServerNext /\ UNCHANGED <<paced, whole>>)

Spec == Init /\ [][Next]_vars /\ Fairness

-----------------------------------------------------------------------------

RC == INSTANCE RemoteControl WITH issued   <- written,
                                  executed <- handled,
                                  times    <- count,
                                  None     <- Nul

\* Whatever the driver presses and however TCP cuts the stream, the commands
\* rc_server's switch dispatches are in the order of the presses, none twice
\* and none invented.
InOrderAtMostOnce == RC!Spec

\* With a driver who waits for the server to drain the socket, the switch
\* passes over no press, whatever the segmentation.
NothingSkipped == [][paced => RC!ExactNext]_(RC!vars)

\* The server has read past the first byte of frame k.
Passed(k) == MAXLINE * (k - 1) < taken

\* If TCP delivers whole frames, reads of 20 bytes on frames of 30 lose at
\* most every second command of a burst: of two consecutive frames whose
\* first bytes were read, one at least was dispatched.
NoTwoInARow == whole => \A k \in 1 .. Len(written) - 1 :
                  Passed(k + 1) => k \in handled \/ k + 1 \in handled

\* Every press of a driver who waits is dispatched in the end, unless the
\* client goes away first.
EachPressDispatched == \A k \in 1 .. MaxPresses :
                          Len(written) >= k ~> k \in handled \/ ~open \/ ~paced

\* Slide 20 of docs/_PPT_report_A__.pptx: the server carries out what it was
\* sent.  Once everything sent is read, everything sent was dispatched.
AllExecutedWhenDrained == Drained => handled = DOMAIN written
=============================================================================
