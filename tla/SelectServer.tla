---------------------------- MODULE SelectServer ----------------------------
(***************************************************************************)
(* web/select_server.cpp: one thread that selects on the listening socket  *)
(* and the connections, accepts at most one connection a round and reads   *)
(* once from every descriptor that was reported.  Descriptors are numbers, *)
(* the lowest free one is used for a new connection, and rdset is all the  *)
(* server knows about them.                                                *)
(***************************************************************************)
EXTENDS Naturals, FiniteSets

CONSTANTS
    Clients,
    listenfd,
    MaxChunks    \* bound: buffer-sized chunks the clients send in all

VARIABLES
    rdset, rdtmp, maxfd, i,
    pc, up,     \* where the loop is, and whether the process lives
    fd,         \* the descriptor of each accepted connection
    conn,       \* server side of each connection
    peer,       \* client side: "up", or "left"
    sock,       \* "ok"; ECONNRESET pending; or the next write is SIGPIPE
    inbox,      \* chunks in the receive buffer
    sent        \* chunks sent so far

loopVars == <<rdset, rdtmp, maxfd, i, pc, up>>
netVars == <<fd, conn, peer, sock, inbox, sent>>
vars == <<loopVars, netVars>>

Fds == listenfd..(listenfd + Cardinality(Clients))
Open == {c \in Clients : conn[c] = "open"}
Backlog == {c \in Clients : conn[c] = "backlog"}
Readable(c) == inbox[c] > 0 \/ peer[c] # "up"
-----------------------------------------------------------------------------
Init ==
    /\ rdset = {listenfd} /\ rdtmp = {} /\ maxfd = listenfd
    /\ i = 0 /\ pc = "select" /\ up = TRUE
    /\ fd = [c \in Clients |-> listenfd]
    /\ conn = [c \in Clients |-> "none"]
    /\ peer = [c \in Clients |-> "up"]
    /\ sock = [c \in Clients |-> "ok"]
    /\ inbox = [c \in Clients |-> 0]
    /\ sent = 0

Connect(c) ==
    /\ up /\ conn[c] = "none"
    /\ conn' = [conn EXCEPT ![c] = "backlog"]
    /\ UNCHANGED <<loopVars, fd, peer, sock, inbox, sent>>

Arrive(c) ==
    /\ up /\ conn[c] \in {"backlog", "open"} /\ peer[c] = "up" /\ sent < MaxChunks
    /\ sent' = sent + 1
    /\ inbox' = [inbox EXCEPT ![c] = @ + 1]
    /\ UNCHANGED <<loopVars, fd, conn, peer, sock>>

Hangup(c) ==
    /\ up /\ conn[c] \in {"backlog", "open"} /\ peer[c] = "up"
    /\ peer' = [peer EXCEPT ![c] = "left"]
    /\ sock' \in {sock, [sock EXCEPT ![c] = "reset"]}
    /\ UNCHANGED <<loopVars, fd, conn, inbox, sent>>
-----------------------------------------------------------------------------
Ready == (IF Backlog = {} THEN {} ELSE {listenfd})
           \cup {fd[c] : c \in {d \in Open : Readable(d)}}

(* select() reduces the copy of rdset below maxfd + 1 to what is ready.    *)
Select ==
    /\ up /\ pc = "select"
    /\ rdtmp' = {k \in rdset \cap Ready : k <= maxfd}
    /\ rdtmp' # {}
    /\ pc' = "accept"
    /\ UNCHANGED <<rdset, maxfd, i, up, netVars>>

LowestFree == CHOOSE k \in Fds \ {listenfd} :
    /\ \A c \in Open : fd[c] # k
    /\ \A j \in Fds : listenfd < j /\ j < k => \E c \in Open : fd[c] = j

Highest(k) == IF k > maxfd THEN k ELSE maxfd

(* mutant of Accept: the new descriptor is set in rdtmp too *)
AcceptBoth ==
    /\ up /\ pc = "accept" /\ listenfd \in rdtmp
    /\ \E c \in Backlog :
         /\ conn' = [conn EXCEPT ![c] = "open"]
         /\ fd' = [fd EXCEPT ![c] = LowestFree]
    /\ rdset' = rdset \cup {LowestFree} /\ rdtmp' = rdtmp \cup {LowestFree}
    /\ maxfd' = Highest(LowestFree)
    /\ pc' = "scan" /\ i' = 0
    /\ UNCHANGED <<up, peer, sock, inbox, sent>>

Accept ==
    /\ up /\ pc = "accept" /\ listenfd \in rdtmp
    /\ \E c \in Backlog :
         /\ conn' = [conn EXCEPT ![c] = "open"]
         /\ fd' = [fd EXCEPT ![c] = LowestFree]
    /\ rdset' = rdset \cup {LowestFree}
    /\ maxfd' = Highest(LowestFree)
    /\ pc' = "scan" /\ i' = 0
    /\ UNCHANGED <<rdtmp, up, peer, sock, inbox, sent>>

NoAccept ==
    /\ up /\ pc = "accept" /\ listenfd \notin rdtmp
    /\ pc' = "scan" /\ i' = 0
    /\ UNCHANGED <<rdset, rdtmp, maxfd, up, netVars>>

(* The loop is at descriptor i, which was reported; c is its connection.   *)
Reported(c) ==
    /\ up /\ pc = "scan" /\ i <= maxfd
    /\ i # listenfd /\ i \in rdtmp
    /\ conn[c] = "open" /\ fd[c] = i

Pass ==
    /\ up /\ pc = "scan" /\ i <= maxfd /\ (i = listenfd \/ i \notin rdtmp)
    /\ i' = i + 1
    /\ UNCHANGED <<rdset, rdtmp, maxfd, pc, up, netVars>>

EndScan ==
    /\ up /\ pc = "scan" /\ i > maxfd
    /\ pc' = "select" /\ i' = 0
    /\ UNCHANGED <<rdset, rdtmp, maxfd, up, netVars>>

(* len > 0: one chunk is read and answered.  An answer to a client that    *)
(* has shut down may come back as a reset, and the one after that raises   *)
(* SIGPIPE.                                                                *)
Serve(c) ==
    /\ Reported(c) /\ inbox[c] > 0
    /\ inbox' = [inbox EXCEPT ![c] = @ - 1]
    /\ IF peer[c] = "up" THEN UNCHANGED <<sock, up>>
       ELSE CASE sock[c] = "reset" -> sock' = [sock EXCEPT ![c] = "pipe"] /\ UNCHANGED up
              [] sock[c] = "pipe" -> up' = FALSE /\ UNCHANGED sock
              [] OTHER -> sock' \in {sock, [sock EXCEPT ![c] = "pipe"]} /\ UNCHANGED up
    /\ i' = i + 1
    /\ UNCHANGED <<rdset, rdtmp, maxfd, pc, fd, conn, peer, sent>>

AtEnd(c) == Reported(c) /\ inbox[c] = 0 /\ peer[c] # "up"

(* len = 0 *)
Close(c) ==
    /\ AtEnd(c) /\ sock[c] # "reset"
    /\ rdset' = rdset \ {i}
    /\ conn' = [conn EXCEPT ![c] = "closed"]
    /\ sock' = [sock EXCEPT ![c] = "ok"]
    /\ i' = i + 1
    /\ UNCHANGED <<rdtmp, maxfd, pc, up, fd, peer, inbox, sent>>

(* len = -1: the error is printed, and the connection stays for a round.   *)
ReadFails(c) ==
    /\ AtEnd(c) /\ sock[c] = "reset"
    /\ sock' = [sock EXCEPT ![c] = "pipe"]
    /\ i' = i + 1
    /\ UNCHANGED <<rdset, rdtmp, maxfd, pc, up, fd, conn, peer, inbox, sent>>
-----------------------------------------------------------------------------
Server ==
    \/ Select \/ Accept \/ NoAccept \/ Pass \/ EndScan
    \/ \E c \in Clients : Serve(c) \/ Close(c) \/ ReadFails(c)

Next == Server \/ \E c \in Clients : Connect(c) \/ Arrive(c) \/ Hangup(c)

Spec == Init /\ [][Next]_vars
-----------------------------------------------------------------------------
TypeOK ==
    /\ rdset \subseteq Fds /\ rdtmp \subseteq Fds /\ maxfd \in Fds
    /\ i \in 0..(listenfd + Cardinality(Clients) + 1)
    /\ pc \in {"select", "accept", "scan"} /\ up \in BOOLEAN
    /\ fd \in [Clients -> Fds]
    /\ conn \in [Clients -> {"none", "backlog", "open", "closed"}]
    /\ peer \in [Clients -> {"up", "left"}]
    /\ sock \in [Clients -> {"ok", "reset", "pipe"}]
    /\ inbox \in [Clients -> 0..MaxChunks] /\ sent \in 0..MaxChunks

(* rdset is exactly the listening socket and the open connections, all of  *)
(* them below maxfd, while numbers are given out again and again.          *)
Watched ==
    /\ rdset = {listenfd} \cup {fd[c] : c \in Open}
    /\ \A c, d \in Open : fd[c] = fd[d] => c = d
    /\ \A k \in rdset : k <= maxfd

(* read() never waits: what is reported and not handled yet is still open  *)
(* and has something to read, although the copy dates from before the      *)
(* accept and from before the descriptors closed in this round.            *)
NeverBlocks ==
    pc = "scan" =>
        \A k \in rdtmp : k >= i /\ k # listenfd =>
            \E c \in Open : fd[c] = k /\ Readable(c)

=============================================================================
