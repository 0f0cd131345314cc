---------------------------- MODULE ThreadServer ----------------------------
(***************************************************************************)
(* web/thread_server.cpp: the main thread looks for a free entry of infos, *)
(* accepts a connection into it and starts a worker, which reads, answers  *)
(* and frees the entry when its client leaves.  Main and workers share     *)
(* infos without a lock.  A worker does not close its descriptor, so the   *)
(* descriptors of the process run out.  Clients and sockets are external.  *)
(***************************************************************************)
EXTENDS Naturals, FiniteSets

CONSTANTS
    Clients,
    NSlots,    \* MAXLINK
    MaxFds,    \* descriptors the process may have for connections
    Inherited  \* how many of them it may have had open when it started

VARIABLES
    acceptfd,  \* infos[s].acceptfd, NoFd for -1
    up,        \* the process runs
    pc, i,     \* the main loop and its index
    connfd,    \* main's local
    opened,    \* descriptors in use, none is ever closed
    fd,        \* the descriptor of each accepted client
    info,      \* info[c]: the entry the worker of client c points at
    worker,    \* life of the worker thread of client c
    peer,      \* the client side of each connection
    inbox,     \* requests waiting to be read
    broken     \* clients that had left when they were last written to

mainVars == <<up, pc, i, connfd, opened>>
clientVars == <<peer, inbox>>
vars == <<acceptfd, mainVars, fd, info, worker, clientVars, broken>>

Slots == 0..(NSlots - 1)
NoFd == 0
Fds == 1..MaxFds
Running == {c \in Clients : worker[c] \in {"read", "write"}}
Reading(c) == acceptfd[info[c]]       \* the descriptor c's worker uses
-----------------------------------------------------------------------------
Init ==
    /\ acceptfd = [s \in Slots |-> NoFd]
    /\ up = TRUE /\ pc = "scan" /\ i = 0 /\ connfd = NoFd /\ opened \in Inherited
    /\ fd = [c \in Clients |-> NoFd]
    /\ info = [c \in Clients |-> 0]
    /\ worker = [c \in Clients |-> "none"]
    /\ peer = [c \in Clients |-> "away"]
    /\ inbox = [c \in Clients |-> 0]
    /\ broken = {}

Connect(c) ==
    /\ up /\ peer[c] = "away"
    /\ peer' = [peer EXCEPT ![c] = "waiting"]
    /\ UNCHANGED <<acceptfd, mainVars, fd, info, worker, inbox, broken>>

Send(c) ==
    /\ up /\ peer[c] = "talking" /\ inbox[c] < 2
    /\ inbox' = [inbox EXCEPT ![c] = @ + 1]
    /\ UNCHANGED <<acceptfd, mainVars, fd, info, worker, peer, broken>>

(* A reset may take with it what had been sent before. *)
Hangup(c) ==
    /\ up /\ peer[c] = "talking"
    /\ peer' = [peer EXCEPT ![c] = "left"]
    /\ inbox' \in {inbox, [inbox EXCEPT ![c] = 0]}
    /\ UNCHANGED <<acceptfd, mainVars, fd, info, worker, broken>>
-----------------------------------------------------------------------------
(* mutant of Scan: the index goes on behind the last entry, without --i *)
ScanPastEnd ==
    /\ up /\ pc = "scan"
    /\ IF acceptfd[i] = NoFd
       THEN pc' = "accept" /\ UNCHANGED i
       ELSE i' = i + 1 /\ UNCHANGED pc
    /\ UNCHANGED <<acceptfd, up, connfd, opened, fd, info, worker, clientVars, broken>>

(* The scan looks at each entry once and then at the last one only, a      *)
(* second apart: sleep(1); --i.                                            *)
Scan ==
    /\ up /\ pc = "scan"
    /\ IF acceptfd[i] = NoFd
       THEN pc' = "accept" /\ UNCHANGED i
       ELSE i' = (IF i = NSlots - 1 THEN i ELSE i + 1) /\ UNCHANGED pc
    /\ UNCHANGED <<acceptfd, up, connfd, opened, fd, info, worker, clientVars, broken>>

Accept(c) ==
    /\ up /\ pc = "accept" /\ peer[c] = "waiting" /\ opened < MaxFds
    /\ peer' = [peer EXCEPT ![c] = "talking"]
    /\ opened' = opened + 1 /\ connfd' = opened + 1
    /\ fd' = [fd EXCEPT ![c] = opened + 1]
    /\ pc' = "store"
    /\ UNCHANGED <<acceptfd, up, i, info, worker, inbox, broken>>

(* accept() without a free descriptor is -1 and ends the server. *)
AcceptFails ==
    /\ up /\ pc = "accept" /\ opened = MaxFds
    /\ \E c \in Clients : peer[c] = "waiting"
    /\ up' = FALSE
    /\ UNCHANGED <<acceptfd, pc, i, connfd, opened, fd, info, worker, clientVars, broken>>

Store ==
    /\ up /\ pc = "store"
    /\ acceptfd' = [acceptfd EXCEPT ![i] = connfd]
    /\ pc' = "create"
    /\ UNCHANGED <<up, i, connfd, opened, fd, info, worker, clientVars, broken>>

(* pthread_create may fail; its result is not looked at. *)
Create(c) ==
    /\ up /\ pc = "create" /\ fd[c] = connfd
    /\ \/ worker' = [worker EXCEPT ![c] = "read"]
       \/ worker' = [worker EXCEPT ![c] = "failed"]
    /\ info' = [info EXCEPT ![c] = i]
    /\ pc' = "scan" /\ i' = 0
    /\ UNCHANGED <<acceptfd, up, connfd, opened, fd, clientVars, broken>>
-----------------------------------------------------------------------------
Read(c) ==
    /\ up /\ worker[c] = "read"
    /\ \E d \in Clients : 
         /\ fd[d] = Reading(c) /\ inbox[d] > 0
         /\ inbox' = [inbox EXCEPT ![d] = @ - 1]
    /\ worker' = [worker EXCEPT ![c] = "write"]
    /\ UNCHANGED <<acceptfd, mainVars, fd, info, peer, broken>>

(* mutant of ReadEnd: the entry is not freed *)
ReadEndKeeps(c) ==
    /\ up /\ worker[c] = "read" /\ inbox[c] = 0 /\ peer[c] = "left"
    /\ worker' = [worker EXCEPT ![c] = "done"]
    /\ UNCHANGED <<acceptfd, mainVars, fd, info, clientVars, broken>>

(* read() is 0 or -1: the client has left. *)
ReadEnd(c) ==
    /\ up /\ worker[c] = "read"
    /\ \E d \in Clients :
         fd[d] = Reading(c) /\ inbox[d] = 0 /\ peer[d] = "left"
    /\ acceptfd' = [acceptfd EXCEPT ![info[c]] = NoFd]
    /\ worker' = [worker EXCEPT ![c] = "done"]
    /\ UNCHANGED <<mainVars, fd, info, clientVars, broken>>

(* The first write to a client that has left is lost, the next may raise   *)
(* SIGPIPE, which nothing catches.                                         *)
Write(c) ==
    /\ up /\ worker[c] = "write"
    /\ LET gone == {d \in Clients : fd[d] = Reading(c) /\ peer[d] = "left"} IN
       /\ up' \in {TRUE, gone \cap broken = {}}
       /\ broken' = broken \cup gone
    /\ worker' = [worker EXCEPT ![c] = "read"]
    /\ UNCHANGED <<acceptfd, pc, i, connfd, opened, fd, info, clientVars>>
-----------------------------------------------------------------------------
Main == Scan \/ (\E c \in Clients : Accept(c) \/ Create(c)) \/ AcceptFails \/ Store

Work(c) == Read(c) \/ ReadEnd(c) \/ Write(c)

Next ==
    \/ Main
    \/ \E c \in Clients : Work(c) \/ Connect(c) \/ Send(c) \/ Hangup(c)

Spec == Init /\ [][Next]_vars
-----------------------------------------------------------------------------
TypeOK ==
    /\ acceptfd \in [Slots -> Fds \cup {NoFd}]
    /\ up \in BOOLEAN /\ pc \in {"scan", "accept", "store", "create"} /\ i \in Slots
    /\ connfd \in Fds \cup {NoFd} /\ opened \in 0..MaxFds
    /\ fd \in [Clients -> Fds \cup {NoFd}]
    /\ info \in [Clients -> Slots]
    /\ worker \in [Clients -> {"none", "read", "write", "done", "failed"}]
    /\ peer \in [Clients -> {"away", "waiting", "talking", "left"}]
    /\ inbox \in [Clients -> 0..2] /\ broken \subseteq Clients

(* A worker reads and answers its own client: main never fills an entry a  *)
(* worker still points at, and no two workers point at the same entry.     *)
OwnClient == \A c \in Running : Reading(c) = fd[c]

(* An entry is taken exactly as long as there is a worker to free it,      *)
(* except for the entry whose thread could not be created.                 *)
SlotsUsed ==
    \A s \in Slots :
        acceptfd[s] # NoFd <=>
            \/ \E c \in Running : info[c] = s
            \/ \E c \in Clients : worker[c] = "failed" /\ info[c] = s
            \/ pc = "create" /\ i = s

(* If clients leave, whoever waits is accepted, although a full table is   *)
(* watched at its last entry only; a thread that was not created or a      *)
(* server that ran out of descriptors may leave it waiting.                *)
Waiting(c) == peer[c] = "waiting"
Settled(c) == peer[c] # "waiting" \/ ~up \/ \E d \in Clients : worker[d] = "failed"
=============================================================================
