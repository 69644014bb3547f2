------------------------------ MODULE Session ------------------------------
(***************************************************************************)
(* Connections and the life of both processes.  The server (rc_server.c)   *)
(* accepts one connection, exits at its end and is started again by init;  *)
(* its listening socket takes connections all the while.  The client       *)
(* (rc_client.c) connects once, never looks at what read and write say,    *)
(* ends by SIGPIPE or when asked to, and is started again by the driver.   *)
(* Its players inherit the connection and may outlive it.                  *)
(*                                                                         *)
(* What is sent while both ends hold a connection is CommandStream's; here *)
(* it changes nothing.                                                     *)
(***************************************************************************)
EXTENDS Integers, Sequences

CONSTANT Backlog        \* connections the kernel keeps for accept
ASSUME BacklogAssumption == Backlog \in Nat \ {0}

VARIABLES server,       \* "dark" (no power), "off", "listening", "serving"
          stale,        \* ffmpeg of an ended server has the listening socket open
          client,       \* "down", "trying" to connect, "up"
          queue,        \* connections that wait for accept, the oldest first
          served,       \* the connection the server has accepted, if any
          gone          \* those the server has no more and a client process has;
                        \* no two are alike, as the client has one connection
                        \* and one player runs.  Of a connection:
                        \*   near  client processes that have it open
                        \*   cut   the client's board has lost power
                        \*   far   what became of it at the server
                        \*   told  what the client's kernel knows of that

vars == <<server, stale, client, queue, served, gone>>

Queued    == {queue[k] : k \in DOMAIN queue}
Conns     == Queued \cup served \cup gone
Listening == server \in {"listening", "serving"} \/ stale
Mine(c)   == "client" \in c.near
HasPlayer == \E c \in Conns : "player" \in c.near

Ends  == SUBSET {"client", "player"}
Taken == [near : Ends, cut : BOOLEAN]
Left  == [near : Ends \ {{}},
          far  : {"closed", "dropped", "lost"},
          told : {"open", "ended", "asked", "reset"}]

TypeOK ==
    /\ server \in {"dark", "off", "listening", "serving"}
    /\ stale \in BOOLEAN
    /\ client \in {"down", "trying", "up"}
    /\ queue \in Seq(Taken)
    /\ Len(queue) <= Backlog
    /\ served \in SUBSET Taken
    /\ gone \in SUBSET Left
    /\ client = "up" <=> \E c \in Conns : Mine(c)
    /\ server = "serving" <=> served # {}
    /\ queue # <<>> => Listening

Init == /\ server = "dark"
        /\ stale = FALSE
        /\ client = "down"
        /\ queue = <<>>
        /\ served = {}
        /\ gone = {}

\* What the client's side has left of the connections in C, if anything.
Lost(C, far) == {[near |-> c.near, far |-> far, told |-> "open"] :
                    c \in {d \in C : d.near # {}}}

\* The client processes that have a connection open become those Keep gives,
\* a function on Ends.
Renew(Keep) ==
    /\ queue' = [k \in DOMAIN queue |-> [near |-> Keep[queue[k].near], cut |-> queue[k].cut]]
    /\ served' = {[near |-> Keep[c.near], cut |-> c.cut] : c \in served}
    /\ gone' = {[near |-> Keep[c.near], far |-> c.far, told |-> c.told] :
                   c \in {d \in gone : Keep[d.near] # {}}}

Without(p) == [n \in Ends |-> n \ {p}]

-----------------------------------------------------------------------------
(* The server. *)

PowerOn == /\ server = "dark"
           /\ server' = "off"
           /\ UNCHANGED <<stale, client, queue, served, gone>>

\* socket, bind, listen.  bind fails while the old socket is open; the process
\* exits and is started again.
Boot == /\ server = "off"
        /\ ~stale
        /\ server' = "listening"
        /\ UNCHANGED <<stale, client, queue, served, gone>>

\* The process exits with the connections in s accepted and those in q still
\* to accept.  If ffmpeg was started after the call of socket, it has the
\* listening socket until the hangup of the terminal ends it, too.
Exit(s, q) == /\ server' = "off"
              /\ served' = {}
              /\ \/ /\ stale' = TRUE
                    /\ queue' = q
                    /\ gone' = gone \cup Lost(s, "closed")
                 \/ /\ stale' = FALSE
                    /\ queue' = <<>>
                    /\ gone' = gone \cup Lost(s, "closed")
                                    \cup Lost({q[k] : k \in DOMAIN q}, "dropped")
              /\ UNCHANGED client

FfmpegEnds == /\ stale
              /\ stale' = FALSE
              /\ gone' = gone \cup Lost(Queued, "dropped")
              /\ queue' = <<>>
              /\ UNCHANGED <<server, client, served>>

\* A faulty variant: the process goes on accepting.
Accept_Again == /\ server = "listening"
                /\ queue # <<>>
                /\ served' = served \cup {Head(queue)}
                /\ queue' = Tail(queue)
                /\ UNCHANGED <<server, stale, client, gone>>
\* accept takes the oldest connection.
Accept == /\ server = "listening"
          /\ queue # <<>>
          /\ served' = {Head(queue)}
          /\ queue' = Tail(queue)
          /\ server' = "serving"
          /\ UNCHANGED <<stale, client, gone>>

\* clilen is not initialised: with some values accept closes what it took.
AcceptFails == /\ server = "listening"
               /\ queue # <<>>
               /\ Exit({Head(queue)}, Tail(queue))

\* A faulty variant: only an error ends the loop, not the end of the stream.
ReadEnd_ErrorsOnly == /\ \E c \in served : c.near = {} /\ c.cut
                      /\ Exit(served, queue)
\* read returns 0: no process has the other end open.
ReadEnd == /\ \E c \in served : c.near = {} /\ ~c.cut
           /\ Exit(served, queue)

\* After a loss of power on the other side read waits, until the obstacle
\* thread writes and is answered by a reset.
ReadError == /\ \E c \in served : c.cut
             /\ Exit(served, queue)

-----------------------------------------------------------------------------
(* The client. *)

Start == /\ client = "down"
         /\ client' = "trying"
         /\ UNCHANGED <<server, stale, queue, served, gone>>

\* connect, again and again; it needs a listening socket, not an accept.
Connect == /\ client = "trying"
           /\ Listening
           /\ Len(queue) < Backlog
           /\ client' = "up"
           /\ queue' = Append(queue, [near |-> {"client"}, cut |-> FALSE])
           /\ UNCHANGED <<server, stale, served, gone>>

\* A player of the client inherits its connection; it ends if another one has
\* the port of the video.
StartPlayer == /\ client = "up"
               /\ ~HasPlayer
               /\ Renew([n \in Ends |-> IF "client" \in n THEN n \cup {"player"} ELSE n])
               /\ UNCHANGED <<server, stale, client>>

EndPlayer == /\ HasPlayer
             /\ Renew(Without("player"))
             /\ UNCHANGED <<server, stale, client>>

ClientEnds == /\ client' = "down"
              /\ Renew(Without("client"))
              /\ UNCHANGED <<server, stale>>

\* The client's kernel learns something of a connection the server has left.
Learn(c, news) == /\ gone' = (gone \ {c}) \cup {[c EXCEPT !.told = news]}
                  /\ UNCHANGED <<server, stale, client, queue, served>>

\* The news of what the server did: data it never read are answered by a
\* reset, and so is everything in the backlog.
Tell(c) == \/ /\ c.far = "closed" /\ c.told = "open"
              /\ Learn(c, "ended") \/ Learn(c, "reset")
           \/ /\ c.far = "dropped" /\ c.told # "reset"
              /\ Learn(c, "reset")

\* A faulty variant: the client ignores SIGPIPE and the error.
Press_NoSigpipe(c) == /\ Mine(c)
                      /\ c.told \in {"open", "ended"}
                      /\ Learn(c, "asked")
\* A press on a connection the server has no more: write sends it, and once it
\* was answered by a reset the next one raises SIGPIPE.
Press(c) == /\ Mine(c)
            /\ \/ c.told \in {"open", "ended"} /\ Learn(c, "asked")
               \/ c.told = "reset" /\ ClientEnds

\* The server's board, if it has power, answers with a reset.
Reset(c) == /\ c.told = "asked"
            /\ server # "dark"
            /\ Learn(c, "reset")

-----------------------------------------------------------------------------
(* Mishaps. *)

\* SIGTERM, or Ctrl-C when no player is running (system ignores it till then).
Quit == /\ client # "down"
        /\ ClientEnds

\* The boards lose power, and nothing is sent any more.
CutServer == /\ server # "dark"
             /\ server' = "dark"
             /\ stale' = FALSE
             /\ gone' = gone \cup Lost(Queued \cup served, "lost")
             /\ queue' = <<>>
             /\ served' = {}
             /\ UNCHANGED client

CutClient == /\ Conns # {} \/ client # "down"
             /\ client' = "down"
             /\ LET cut(c) == [near |-> {}, cut |-> c.cut \/ c.near # {}]
                IN  /\ queue' = [k \in DOMAIN queue |-> cut(queue[k])]
                    /\ served' = {cut(c) : c \in served}
             /\ gone' = {}
             /\ UNCHANGED <<server, stale>>

Mishap == Quit \/ CutServer \/ CutClient \/ AcceptFails

-----------------------------------------------------------------------------

Server == PowerOn \/ Boot \/ Accept \/ ReadEnd \/ FfmpegEnds
Client == Connect \/ \E c \in gone : Tell(c) \/ Reset(c)
Driver == Start \/ \E c \in gone : Press(c)

Next == Server \/ Client \/ Driver \/ Mishap \/ ReadError \/ StartPlayer \/ EndPlayer

\* init, the kernels and the network do their part, and so does a driver who
\* keeps pressing and starts a client that has ended again.
Spec == Init /\ [][Next]_vars /\ WF_vars(Server) /\ WF_vars(Client) /\ WF_vars(Driver)

-----------------------------------------------------------------------------

\* The server reads what the client sends.
Heard == \E c \in served : Mine(c)

\* The server reads a connection no client will send on, and cannot know: a
\* player has it open, or its other end has lost power.
HeldUp == \E c \in served : ~Mine(c) /\ (c.near # {} \/ c.cut)

\* A car whose server or client has ended, or whose boards lost power, is again
\* and again under the control of a driver who restarts the client, unless the
\* server is held up or the mishaps never cease.
Recovers == []<>(Heard \/ HeldUp) \/ []<><<Mishap>>_vars
=============================================================================
