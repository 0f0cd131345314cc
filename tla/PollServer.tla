----------------------------- MODULE PollServer -----------------------------
(***************************************************************************)
(* web/poll_server.cpp: one thread that polls the listening socket and the *)
(* connections in a table of pollfd, accepts at most one connection a      *)
(* round and reads once from every connection reported.  The table's       *)
(* revents are not initialised, and its last entry may be overrun: what    *)
(* lies behind it is taken to be memory nobody else uses.                  *)
(***************************************************************************)
EXTENDS Naturals, FiniteSets

CONSTANTS
    Clients,
    NoFd,        \* fd of a free entry, -1
    MAX_FDS,
    MaxChunks    \* bound: buffer-sized chunks the clients send in all

VARIABLES
    fds,        \* fds[i].fd: the client connected there, for i >= 1
    revents,    \* fds[i].revents & POLLIN, entry 0 is the listening socket
    maxfd, i,
    pc, up,     \* where the loop is, and whether the process lives
    conn,       \* server side of each connection
    peer,       \* client side: "up", or "left"
    sock,       \* "ok"; ECONNRESET pending; or the next write is SIGPIPE
    inbox,      \* chunks in the receive buffer
    sent        \* chunks sent so far

loopVars == <<fds, revents, maxfd, i, pc, up>>
netVars == <<conn, peer, sock, inbox, sent>>
vars == <<loopVars, netVars>>

Entries == 1..(MAX_FDS - 1)
Backlog == {c \in Clients : conn[c] = "backlog"}
Readable(c) == inbox[c] > 0 \/ peer[c] # "up"
Watching(k) == k \in Entries /\ k <= maxfd /\ fds[k] # NoFd
-----------------------------------------------------------------------------
Init ==
    /\ fds = [k \in Entries |-> NoFd]
    /\ revents \in {r \in [{0} \cup Entries -> BOOLEAN] : ~r[0]}
    /\ maxfd = 0 /\ i = 1 /\ pc = "poll" /\ up = TRUE
    /\ conn = [c \in Clients |-> "none"]
    /\ peer = [c \in Clients |-> "up"]
    /\ sock = [c \in Clients |-> "ok"]
    /\ inbox = [c \in Clients |-> 0]
    /\ sent = 0

Connect(c) ==
    /\ up /\ conn[c] = "none"
    /\ conn' = [conn EXCEPT ![c] = "backlog"]
    /\ UNCHANGED <<loopVars, peer, sock, inbox, sent>>

Arrive(c) ==
    /\ up /\ conn[c] \in {"backlog", "open"} /\ peer[c] = "up" /\ sent < MaxChunks
    /\ sent' = sent + 1
    /\ inbox' = [inbox EXCEPT ![c] = @ + 1]
    /\ UNCHANGED <<loopVars, conn, peer, sock>>

Hangup(c) ==
    /\ up /\ conn[c] \in {"backlog", "open"} /\ peer[c] = "up"
    /\ peer' = [peer EXCEPT ![c] = "left"]
    /\ sock' \in {sock, [sock EXCEPT ![c] = "reset"]}
    /\ UNCHANGED <<loopVars, conn, inbox, sent>>
-----------------------------------------------------------------------------
(* poll() looks at the entries up to maxfd. *)
Poll ==
    /\ up /\ pc = "poll"
    /\ Backlog # {} \/ \E k \in Entries : Watching(k) /\ Readable(fds[k])
    /\ revents' = [k \in {0} \cup Entries |->
                     IF k > maxfd THEN revents[k]
                     ELSE IF k = 0 THEN Backlog # {}
                     ELSE Watching(k) /\ Readable(fds[k])]
    /\ pc' = "accept"
    /\ UNCHANGED <<fds, maxfd, i, up, netVars>>

FirstFree ==
    IF \E k \in Entries : fds[k] = NoFd
    THEN CHOOSE k \in Entries : fds[k] = NoFd /\ \A j \in 1..(k - 1) : fds[j] # NoFd
    ELSE MAX_FDS

Highest(index) == IF index > maxfd THEN index ELSE maxfd

(* A full table leaves the connection open and unwatched.                  *)
Accept ==
    /\ up /\ pc = "accept" /\ revents[0]
    /\ \E c \in Backlog :
         /\ fds' = [k \in Entries |-> IF k = FirstFree THEN c ELSE fds[k]]
         /\ conn' = [conn EXCEPT ![c] = IF FirstFree = MAX_FDS THEN "lost" ELSE "open"]
    /\ maxfd' = Highest(FirstFree)
    /\ pc' = "scan" /\ i' = 1
    /\ UNCHANGED <<revents, up, peer, sock, inbox, sent>>

NoAccept ==
    /\ up /\ pc = "accept" /\ ~revents[0]
    /\ pc' = "scan" /\ i' = 1
    /\ UNCHANGED <<fds, revents, maxfd, up, netVars>>

Reported == up /\ pc = "scan" /\ i <= maxfd /\ i \in Entries /\ revents[i]

(* Whoever was not reported is passed by. *)
Pass ==
    /\ up /\ pc = "scan" /\ i <= maxfd /\ ~Reported
    /\ i' = i + 1
    /\ UNCHANGED <<fds, revents, maxfd, pc, up, netVars>>

EndScan ==
    /\ up /\ pc = "scan" /\ i > maxfd
    /\ pc' = "poll"
    /\ UNCHANGED <<fds, revents, maxfd, i, up, netVars>>

(* len > 0: one chunk is read and answered.  An answer to a client that    *)
(* has shut down may come back as a reset, and the one after that raises   *)
(* SIGPIPE.                                                                *)
Serve ==
    /\ Reported /\ inbox[fds[i]] > 0
    /\ inbox' = [inbox EXCEPT ![fds[i]] = @ - 1]
    /\ IF peer[fds[i]] = "up" THEN UNCHANGED <<sock, up>>
       ELSE CASE sock[fds[i]] = "reset" -> sock' = [sock EXCEPT ![fds[i]] = "pipe"] /\ UNCHANGED up
              [] sock[fds[i]] = "pipe" -> up' = FALSE /\ UNCHANGED sock
              [] OTHER -> sock' \in {sock, [sock EXCEPT ![fds[i]] = "pipe"]} /\ UNCHANGED up
    /\ i' = i + 1
    /\ UNCHANGED <<fds, revents, maxfd, pc, conn, peer, sent>>

AtEnd == Reported /\ inbox[fds[i]] = 0 /\ peer[fds[i]] # "up"

(* mutant of Close: the entry keeps the closed descriptor *)
CloseKeepsEntry ==
    /\ AtEnd /\ sock[fds[i]] # "reset"
    /\ conn' = [conn EXCEPT ![fds[i]] = "closed"]
    /\ i' = i + 1
    /\ UNCHANGED <<fds, revents, maxfd, pc, up, peer, sock, inbox, sent>>

(* len = 0 *)
Close ==
    /\ AtEnd /\ sock[fds[i]] # "reset"
    /\ conn' = [conn EXCEPT ![fds[i]] = "closed"]
    /\ fds' = [fds EXCEPT ![i] = NoFd]
    /\ sock' = [sock EXCEPT ![fds[i]] = "ok"]
    /\ i' = i + 1
    /\ UNCHANGED <<revents, maxfd, pc, up, peer, inbox, sent>>

(* len = -1: the error is printed, and the connection stays for a round.   *)
ReadFails ==
    /\ AtEnd /\ sock[fds[i]] = "reset"
    /\ sock' = [sock EXCEPT ![fds[i]] = "pipe"]
    /\ i' = i + 1
    /\ UNCHANGED <<fds, revents, maxfd, pc, up, conn, peer, inbox, sent>>
-----------------------------------------------------------------------------
Server ==
    \/ Poll \/ Accept \/ NoAccept \/ Pass \/ EndScan
    \/ Serve \/ Close \/ ReadFails

Next == Server \/ \E c \in Clients : Connect(c) \/ Arrive(c) \/ Hangup(c)

Spec == Init /\ [][Next]_vars
-----------------------------------------------------------------------------
TypeOK ==
    /\ fds \in [Entries -> Clients \cup {NoFd}]
    /\ revents \in [{0} \cup Entries -> BOOLEAN]
    /\ maxfd \in 0..MAX_FDS /\ i \in 1..(MAX_FDS + 1)
    /\ pc \in {"poll", "accept", "scan"} /\ up \in BOOLEAN
    /\ conn \in [Clients -> {"none", "backlog", "open", "lost", "closed"}]
    /\ peer \in [Clients -> {"up", "left"}]
    /\ sock \in [Clients -> {"ok", "reset", "pipe"}]
    /\ inbox \in [Clients -> 0..MaxChunks] /\ sent \in 0..MaxChunks

(* Every open connection is watched, in one entry below maxfd, and every   *)
(* entry in use is of an open connection.                                  *)
Watched ==
    /\ \A c \in Clients : conn[c] = "open" =>
           \E k \in Entries : k <= maxfd /\ fds[k] = c /\ \A j \in Entries \ {k} : fds[j] # c
    /\ \A k \in Entries : fds[k] # NoFd => conn[fds[k]] = "open"

(* The server waits in read() for one client only if that is the one it    *)
(* has accepted in the same round, into an entry that was never polled:    *)
(* reports never outlive the connection they are about.                    *)
BlocksOnNewOnly ==
    Reported /\ ~Readable(fds[i]) => revents[0] /\ i = maxfd

=============================================================================
