---------------------------- MODULE EpollServer ----------------------------
(***************************************************************************)
(* web/epoll_server.cpp: one thread that serves every connection from an   *)
(* edge-triggered epoll loop.  The kernel reports a connection once, when  *)
(* something arrives, so the handler has to read until recv() says EAGAIN; *)
(* the listening socket is level-triggered and one connection is accepted  *)
(* per event.  Sockets, their buffers and the epoll set are external.      *)
(***************************************************************************)
EXTENDS Naturals, Sequences, FiniteSets

CONSTANTS
    Clients,
    MaxEvents,   \* room in evs: epoll_wait() reports no more at a time
    MaxChunks    \* bound: buffer-sized chunks the clients send in all

VARIABLES
    conn,      \* server side of each connection
    peer,      \* client side: "up", or "left"
    inbox,     \* chunks in the receive buffer
    sent,      \* chunks sent so far
    ready,     \* the epoll ready list, a queue of clients and "lfd"
    evs,       \* the rest of the batch epoll_wait() returned
    pc, cur,   \* where the loop is, and the client it handles
    status,    \* enum ConnStatus
    late       \* replies sent to each client after it had hung up

netVars == <<conn, peer, inbox, sent>>
vars == <<netVars, ready, evs, pc, cur, status, late>>

Fds == Clients \cup {"lfd"}
Listed(f) == \E k \in DOMAIN ready : ready[k] = f
Enqueue(f) == IF Listed(f) THEN ready ELSE Append(ready, f)
(* A descriptor is on the list once at most; the others keep their order.  *)
Unlist(f) ==
    LET at == CHOOSE k \in DOMAIN ready : ready[k] = f
    IN  IF Listed(f)
        THEN [k \in 1..(Len(ready) - 1) |-> IF k < at THEN ready[k] ELSE ready[k + 1]]
        ELSE ready
Backlog == {c \in Clients : conn[c] = "backlog"}
Readable(c) == inbox[c] > 0 \/ peer[c] # "up"
-----------------------------------------------------------------------------
Init ==
    /\ conn = [c \in Clients |-> "none"]
    /\ peer = [c \in Clients |-> "up"]
    /\ inbox = [c \in Clients |-> 0]
    /\ sent = 0
    /\ ready = <<>> /\ evs = <<>>
    /\ pc = "wait" /\ cur = "lfd"
    /\ status = "None"
    /\ late = [c \in Clients |-> 0]

(* A registered connection is put on the ready list when something arrives.*)
Edge(c) == ready' = IF conn[c] = "open" THEN Enqueue(c) ELSE ready

Connect(c) ==
    /\ conn[c] = "none"
    /\ conn' = [conn EXCEPT ![c] = "backlog"]
    /\ ready' = Enqueue("lfd")
    /\ UNCHANGED <<peer, inbox, sent, evs, pc, cur, status, late>>

Arrive(c) ==
    /\ conn[c] \in {"backlog", "accepted", "open"} /\ peer[c] = "up"
    /\ sent < MaxChunks
    /\ sent' = sent + 1
    /\ inbox' = [inbox EXCEPT ![c] = @ + 1]
    /\ Edge(c)
    /\ UNCHANGED <<conn, peer, evs, pc, cur, status, late>>

(* The client shuts down, or resets the connection; a reset may take with  *)
(* it what had been sent before.                                           *)
Hangup(c) ==
    /\ conn[c] \in {"backlog", "accepted", "open"} /\ peer[c] = "up"
    /\ peer' = [peer EXCEPT ![c] = "left"]
    /\ inbox' \in {inbox, [inbox EXCEPT ![c] = 0]}
    /\ Edge(c)
    /\ UNCHANGED <<conn, sent, evs, pc, cur, status, late>>
-----------------------------------------------------------------------------
(* epoll_wait: reported edges leave the ready list.  The listening socket  *)
(* stays on it while connections wait.                                     *)
Wait ==
    /\ pc = "wait" /\ evs = <<>>
    /\ ready # <<>>
    /\ LET n == IF Len(ready) < MaxEvents THEN Len(ready) ELSE MaxEvents
           left == SubSeq(ready, n + 1, Len(ready))
           again == Cardinality(Backlog) > 1 /\ \E i \in 1..n : ready[i] = "lfd"
       IN  /\ evs' = SubSeq(ready, 1, n)
           /\ ready' = IF again THEN Append(left, "lfd") ELSE left
    /\ pc' = "next"
    /\ UNCHANGED <<netVars, cur, status, late>>

BatchDone ==
    /\ pc = "next" /\ evs = <<>>
    /\ pc' = "wait"
    /\ UNCHANGED <<netVars, ready, evs, cur, status, late>>

Accept ==
    /\ pc = "next" /\ evs # <<>> /\ Head(evs) = "lfd"
    /\ \E c \in Backlog :
         /\ conn' = [conn EXCEPT ![c] = "accepted"]
         /\ cur' = c
    /\ evs' = Tail(evs)
    /\ pc' = "register"
    /\ UNCHANGED <<peer, inbox, sent, ready, status, late>>

RegisterBlind(c) == ready                               \* mutant of Initially
(* EPOLL_CTL_ADD reports what had arrived before it. *)
Initially(c) == IF Readable(c) THEN Enqueue(c) ELSE ready

(* O_NONBLOCK, then EPOLL_CTL_ADD with EPOLLIN | EPOLLET *)
Register ==
    /\ pc = "register"
    /\ conn' = [conn EXCEPT ![cur] = "open"]
    /\ ready' = Initially(cur)
    /\ pc' = "next"
    /\ UNCHANGED <<peer, inbox, sent, evs, cur, status, late>>

Handle ==
    /\ pc = "next" /\ evs # <<>> /\ Head(evs) # "lfd"
    /\ cur' = Head(evs) /\ evs' = Tail(evs)
    /\ status' = "None"
    /\ pc' = "recv"
    /\ UNCHANGED <<netVars, ready, late>>

Answer == late' = IF peer[cur] = "up" THEN late ELSE [late EXCEPT ![cur] = @ + 1]

(* mutant of Recv: the length recv() returned is not tested *)
RecvUntested ==
    /\ pc = "recv" /\ peer[cur] = "up"
    /\ inbox' = [inbox EXCEPT ![cur] = @ - 1]
    /\ status' = "Send" /\ Answer
    /\ UNCHANGED <<conn, peer, sent, ready, evs, pc, cur>>

(* mutant of Recv: every chunk is answered *)
RecvAnswersAll ==
    /\ pc = "recv" /\ inbox[cur] > 0
    /\ inbox' = [inbox EXCEPT ![cur] = @ - 1]
    /\ status' = "Send" /\ Answer
    /\ UNCHANGED <<conn, peer, sent, ready, evs, pc, cur>>

(* recv() > 0: the first chunk of an event is answered, the others are not.*)
Recv ==
    /\ pc = "recv" /\ inbox[cur] > 0
    /\ inbox' = [inbox EXCEPT ![cur] = @ - 1]
    /\ status' = "Send"
    /\ IF status = "Send" THEN UNCHANGED late ELSE Answer
    /\ UNCHANGED <<conn, peer, sent, ready, evs, pc, cur>>

(* mutant of RecvClosed: a hang-up closes without reading on *)
RecvClosedEarly ==
    /\ pc = "recv" /\ peer[cur] # "up"
    /\ status' = "Close"
    /\ pc' = "close"
    /\ UNCHANGED <<netVars, ready, evs, cur, late>>

(* recv() = 0, or ECONNRESET *)
RecvClosed ==
    /\ pc = "recv" /\ inbox[cur] = 0 /\ peer[cur] # "up"
    /\ status' = "Close"
    /\ pc' = "close"
    /\ UNCHANGED <<netVars, ready, evs, cur, late>>

(* EAGAIN: the buffer is drained. *)
RecvAgain ==
    /\ pc = "recv" /\ inbox[cur] = 0 /\ peer[cur] = "up"
    /\ pc' = "close"
    /\ UNCHANGED <<netVars, ready, evs, cur, status, late>>

(* EPOLL_CTL_DEL and close() *)
Close ==
    /\ pc = "close"
    /\ IF status = "Close"
       THEN /\ conn' = [conn EXCEPT ![cur] = "closed"]
            /\ ready' = Unlist(cur)
       ELSE UNCHANGED <<conn, ready>>
    /\ pc' = "next"
    /\ UNCHANGED <<peer, inbox, sent, evs, cur, status, late>>
-----------------------------------------------------------------------------
Server ==
    \/ Wait \/ BatchDone \/ Accept \/ Register \/ Handle
    \/ Recv \/ RecvClosed \/ RecvAgain \/ Close

Next == Server \/ \E c \in Clients : Connect(c) \/ Arrive(c) \/ Hangup(c)

Spec == Init /\ [][Next]_vars
-----------------------------------------------------------------------------
TypeOK ==
    /\ conn \in [Clients -> {"none", "backlog", "accepted", "open", "closed"}]
    /\ peer \in [Clients -> {"up", "left"}]
    /\ inbox \in [Clients -> 0..MaxChunks] /\ sent \in 0..MaxChunks
    /\ \A i \in DOMAIN ready : ready[i] \in Fds
    /\ Len(evs) <= MaxEvents /\ \A i \in DOMAIN evs : evs[i] \in Fds
    /\ pc \in {"wait", "next", "register", "recv", "close"} /\ cur \in Fds
    /\ status \in {"None", "Send", "Close"}
    /\ late \in [Clients -> Nat]

Pending(f) ==
    \/ Listed(f)
    \/ \E i \in DOMAIN evs : evs[i] = f

(* No edge is lost: a connection with something to read is on the ready    *)
(* list, in the batch, or the one being handled.                           *)
NoLostEdge ==
    /\ \A c \in Clients :
         conn[c] = "open" /\ Readable(c) =>
             Pending(c) \/ (cur = c /\ (pc = "recv" \/ (pc = "close" /\ status = "Close")))
    /\ Backlog # {} => Pending("lfd")

(* An event in hand is for a descriptor that is still open: the handler    *)
(* never reads one it has closed, and accept() never blocks the loop.      *)
EventsLive ==
    /\ \A c \in Clients : Pending(c) => conn[c] = "open"
    /\ Pending("lfd") => Backlog # {}
    /\ \A i, j \in DOMAIN evs : evs[i] = evs[j] => i = j
    /\ pc \in {"recv", "close"} => conn[cur] = "open"

(* A client that has hung up is written to once at most: the second write  *)
(* to it would raise SIGPIPE, which ends the server.  Only the first chunk *)
(* of an event is answered, and the loop reads on to the end of the stream.*)
OneLateReply == \A c \in Clients : late[c] <= 1

=============================================================================
