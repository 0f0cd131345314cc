--------------------------- MODULE SocketServers ---------------------------
(***************************************************************************)
(* The three servers of learn_cpp/web that serve all their connections     *)
(* from one thread, select_server, poll_server and epoll_server, and the   *)
(* clients they are given.  One of them runs.  What the kernel knows about *)
(* the connections is shared by the three modules, what the program keeps  *)
(* about them is its own.  They implement one ConnectionService.           *)
(***************************************************************************)
EXTENDS Naturals, FiniteSets

CONSTANTS
    Clients,                   \* the clients poll is given
    Few,                       \* those select and epoll are given
    Chunks, PollChunks,        \* chunks sent to select and epoll, to poll
    listenfd,                  \* see SelectServer
    NoFd, MAX_FDS,             \* see PollServer
    MaxEvents                  \* see EpollServer

ASSUME ServersAssumption ==
    /\ IsFiniteSet(Clients) /\ Few \subseteq Clients
    /\ Chunks \in Nat /\ PollChunks \in Nat
    /\ listenfd \in Nat /\ NoFd \notin Clients /\ "lfd" \notin Clients
    /\ MAX_FDS \in Nat \ {0} /\ MaxEvents \in Nat \ {0}

VARIABLES
    program,                        \* "select", "poll" or "epoll"
    conn, peer, inbox, sent, sock,  \* the connections
    pc, up, maxfd, i,               \* the loop; up is whether it still runs
    rdset, rdtmp, fd,               \* select's sets, and descriptor numbers
    fds, revents,                   \* poll's table
    ready, evs, cur, status, late   \* epoll's lists

selectOnly == <<rdset, rdtmp, fd>>
pollOnly == <<fds, revents>>
loopOnly == <<sock, maxfd, i>>
epollOnly == <<ready, evs, cur, status, late>>
vars == <<program, conn, peer, inbox, sent, pc, up,
          loopOnly, selectOnly, pollOnly, epollOnly>>

Select == INSTANCE SelectServer WITH MaxChunks <- Chunks
Poll == INSTANCE PollServer WITH MaxChunks <- PollChunks
Epoll == INSTANCE EpollServer WITH MaxChunks <- Chunks

Off == "off"
SelectOff == rdset = Off /\ rdtmp = Off /\ fd = Off
PollOff == fds = Off /\ revents = Off
LoopOff == sock = Off /\ maxfd = Off /\ i = Off
EpollOff == ready = Off /\ evs = Off /\ cur = Off /\ status = Off /\ late = Off
-----------------------------------------------------------------------------
Init ==
    \/ program = "select" /\ Select!Init /\ PollOff /\ EpollOff
    \/ program = "poll" /\ Poll!Init /\ SelectOff /\ EpollOff
    \/ program = "epoll" /\ Epoll!Init /\ up = TRUE /\ LoopOff /\ SelectOff /\ PollOff

Others(p) ==
    /\ program = p /\ UNCHANGED program
    /\ p # "select" => UNCHANGED selectOnly
    /\ p # "poll" => UNCHANGED pollOnly
    /\ IF p = "epoll" THEN UNCHANGED <<up, loopOnly>> ELSE UNCHANGED epollOnly

Server ==
    \/ program = "select" /\ Select!Server /\ Others("select")
    \/ program = "poll" /\ Poll!Server /\ Others("poll")
    \/ program = "epoll" /\ Epoll!Server /\ Others("epoll")

Hangup ==
    \/ program = "select" /\ (\E c \in Few : Select!Hangup(c)) /\ Others("select")
    \/ program = "poll" /\ (\E c \in Clients : Poll!Hangup(c)) /\ Others("poll")
    \/ program = "epoll" /\ (\E c \in Few : Epoll!Hangup(c)) /\ Others("epoll")

Client ==
    \/ /\ program = "select" /\ Others("select")
       /\ \E c \in Few : Select!Connect(c) \/ Select!Arrive(c)
    \/ /\ program = "poll" /\ Others("poll")
       /\ \E c \in Clients : Poll!Connect(c) \/ Poll!Arrive(c)
    \/ /\ program = "epoll" /\ Others("epoll")
       /\ \E c \in Few : Epoll!Connect(c) \/ Epoll!Arrive(c)

Next == Server \/ Hangup \/ Client

Spec == Init /\ [][Next]_vars

(* The loop runs whenever it can.  Nothing is assumed of the clients of    *)
(* select and epoll; poll may wait in read() for one, and the assumption   *)
(* is that its clients, each of which hangs up once, do so in the end.     *)
FairSpec == Spec /\ WF_vars(Server) /\ WF_vars(program = "poll" /\ Hangup)
-----------------------------------------------------------------------------
TypeOK ==
    CASE program = "select" -> Select!TypeOK
      [] program = "poll" -> Poll!TypeOK
      [] program = "epoll" -> Epoll!TypeOK

(* What the program watches and what is open agree, although descriptor    *)
(* numbers and table entries are given out again: select's rdset is the    *)
(* open connections, each has one entry of poll's table, and no edge is    *)
(* lost between epoll's accept(), registration, recv() and close().        *)
Watched ==
    CASE program = "select" -> Select!Watched
      [] program = "poll" -> Poll!Watched
      [] program = "epoll" -> Epoll!NoLostEdge

(* The loop never waits for one client while others want something: what   *)
(* is reported and not handled yet is still open and readable, whatever    *)
(* was accepted and closed in the same round.  The exception is poll's,    *)
(* which may read a connection accepted in that round.                     *)
NeverBlocks ==
    CASE program = "select" -> Select!NeverBlocks
      [] program = "poll" -> Poll!BlocksOnNewOnly
      [] program = "epoll" -> Epoll!EventsLive

(* epoll's loop writes to a client that has hung up once at most, and so   *)
(* never dies of SIGPIPE, as the other two may; see EpollServer.           *)
OneLateReply == program = "epoll" => Epoll!OneLateReply

Owed(c) == inbox[c] > 0 \/ (peer[c] # "up" /\ conn[c] # "closed")
GivenUp(c) == ~up \/ conn[c] = "lost"

(* What a client sends is read, and a client that hangs up is closed,      *)
(* unless there was no room for it in poll's table or an answer to         *)
(* somebody who has left ended the server.                                 *)
Served == \A c \in Clients : Owed(c) ~> (~Owed(c) \/ GivenUp(c))

(* Each of the loops is a ConnectionService; a connection that epoll has   *)
(* accepted and not registered yet is still to be taken from the backlog.  *)
connBar == [c \in Clients |-> IF conn[c] = "accepted" THEN "backlog" ELSE conn[c]]

Service == INSTANCE ConnectionService WITH conn <- connBar

ImplementsService == Service!Spec
=============================================================================
