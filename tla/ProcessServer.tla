---------------------------- MODULE ProcessServer ----------------------------
(***************************************************************************)
(* web/process_server.cpp: the parent accepts a connection, forks a child  *)
(* for it and closes its own copy of the descriptor; the child reads and   *)
(* answers until its client leaves.  A connection is hung up only when     *)
(* every process that holds a copy has closed it.                          *)
(*                                                                         *)
(* The SIGCHLD handler is stored in sa_restorer, and sa_handler is not     *)
(* initialised: it may be SIG_DFL, SIG_IGN or a stray address, and         *)
(* callback() is never called.  Processes and sockets are external.        *)
(***************************************************************************)
EXTENDS Naturals, FiniteSets

CONSTANTS
    Clients,
    parent,
    MaxProcs,    \* children, running or not waited for, the system allows
    MaxFds,      \* connections the parent may hold
    MaxRequests  \* bound on the requests of a client

VARIABLES
    sa_handler,
    pc, cur,     \* the parent's loop and the connection it is at
    child,       \* child[c]: the process forked for client c
    holds,       \* holds[p]: connections process p has a descriptor of
    listening,   \* processes that hold listenfd
    peer,        \* the client side of each connection
    inbox,       \* requests not read yet
    sent,        \* requests sent so far
    broken       \* clients that had left when they were last written to

parentVars == <<sa_handler, pc, cur>>
clientVars == <<peer, inbox, sent>>
vars == <<parentVars, child, holds, listening, clientVars, broken>>

Procs == Clients \cup {parent}
Running == {c \in Clients : child[c] \in {"start", "read", "write"}}
Holders(c) == {p \in Procs : c \in holds[p]}
-----------------------------------------------------------------------------
Init ==
    /\ sa_handler \in {"SIG_DFL", "SIG_IGN", "stray"}
    /\ pc = "accept" /\ cur = parent
    /\ child = [c \in Clients |-> "none"]
    /\ holds = [p \in Procs |-> {}]
    /\ listening = {parent}
    /\ peer = [c \in Clients |-> "away"]
    /\ inbox = [c \in Clients |-> 0]
    /\ sent = [c \in Clients |-> 0]
    /\ broken = {}

Connect(c) ==
    /\ peer[c] = "away" /\ listening # {}
    /\ peer' = [peer EXCEPT ![c] = "waiting"]
    /\ UNCHANGED <<parentVars, child, holds, listening, inbox, sent, broken>>

Send(c) ==
    /\ peer[c] = "talking" /\ sent[c] < MaxRequests
    /\ sent' = [sent EXCEPT ![c] = @ + 1]
    /\ inbox' = [inbox EXCEPT ![c] = @ + 1]
    /\ UNCHANGED <<parentVars, child, holds, listening, peer, broken>>

Leave(c) ==
    /\ peer[c] = "talking"
    /\ peer' = [peer EXCEPT ![c] = "left"]
    /\ inbox' \in {inbox, [inbox EXCEPT ![c] = 0]}
    /\ UNCHANGED <<parentVars, child, holds, listening, sent, broken>>
-----------------------------------------------------------------------------
Accept(c) ==
    /\ pc = "accept" /\ peer[c] = "waiting" /\ Cardinality(holds[parent]) < MaxFds
    /\ peer' = [peer EXCEPT ![c] = "talking"]
    /\ holds' = [holds EXCEPT ![parent] = @ \cup {c}]
    /\ cur' = c /\ pc' = "fork"
    /\ UNCHANGED <<sa_handler, child, listening, inbox, sent, broken>>

(* A process that ends closes what it holds. *)
Ends(p) ==
    /\ holds' = [holds EXCEPT ![p] = {}]
    /\ listening' = listening \ {p}

(* Out of descriptors, accept() is -1 at once, whether anyone is waiting   *)
(* or not, and not for a signal: exit.                                     *)
AcceptFails ==
    /\ pc = "accept" /\ Cardinality(holds[parent]) = MaxFds
    /\ pc' = "dead" /\ Ends(parent)
    /\ UNCHANGED <<sa_handler, cur, child, clientVars, broken>>

Children == {c \in Clients : child[c] \in {"start", "read", "write", "zombie"}}

(* The child gets a copy of everything the parent holds. *)
Fork ==
    /\ pc = "fork" /\ Cardinality(Children) < MaxProcs
    /\ child' = [child EXCEPT ![cur] = "start"]
    /\ holds' = [holds EXCEPT ![cur] = holds[parent]]
    /\ listening' = listening \cup {cur}
    /\ pc' = "close"
    /\ UNCHANGED <<sa_handler, cur, clientVars, broken>>

(* pid = -1: the parent goes on and its copy stays open. *)
ForkFails ==
    /\ pc = "fork" /\ Cardinality(Children) = MaxProcs
    /\ pc' = "accept"
    /\ UNCHANGED <<sa_handler, cur, child, holds, listening, clientVars, broken>>

CloseForgotten ==                              \* mutant of CloseAccepted
    /\ pc = "close"
    /\ pc' = "accept"
    /\ UNCHANGED <<sa_handler, cur, child, holds, listening, clientVars, broken>>

CloseAccepted ==
    /\ pc = "close"
    /\ holds' = [holds EXCEPT ![parent] = @ \ {cur}]
    /\ pc' = "accept"
    /\ UNCHANGED <<sa_handler, cur, child, listening, clientVars, broken>>
-----------------------------------------------------------------------------
CloseListen(c) ==
    /\ child[c] = "start"
    /\ listening' = listening \ {c}
    /\ child' = [child EXCEPT ![c] = "read"]
    /\ UNCHANGED <<parentVars, holds, clientVars, broken>>

Read(c) ==
    /\ child[c] = "read" /\ inbox[c] > 0
    /\ inbox' = [inbox EXCEPT ![c] = @ - 1]
    /\ child' = [child EXCEPT ![c] = "write"]
    /\ UNCHANGED <<parentVars, holds, listening, peer, sent, broken>>

(* The process ends and SIGCHLD goes to the parent. *)
Exit(c) ==
    /\ IF pc # "dead" /\ sa_handler = "stray"
       THEN /\ pc' = "dead"
            /\ holds' = [holds EXCEPT ![c] = {}, ![parent] = {}]
            /\ listening' = listening \ {c, parent}
       ELSE Ends(c) /\ UNCHANGED pc
    /\ child' = [child EXCEPT ![c] =
                   IF pc # "dead" /\ sa_handler = "SIG_DFL" THEN "zombie" ELSE "gone"]
    /\ UNCHANGED <<sa_handler, cur>>

(* childWork() > 0: written to a client that has left, an answer is lost,  *)
(* and the next may raise SIGPIPE, which ends this child.                  *)
Write(c) ==
    /\ child[c] = "write"
    /\ \/ /\ child' = [child EXCEPT ![c] = "read"]
          /\ UNCHANGED <<parentVars, holds, listening>>
       \/ peer[c] = "left" /\ c \in broken /\ Exit(c)
    /\ broken' = IF peer[c] = "left" THEN broken \cup {c} ELSE broken
    /\ UNCHANGED clientVars

(* childWork() is 0 or -1: close(acceptfd) and exit. *)
ReadEnd(c) ==
    /\ child[c] = "read" /\ inbox[c] = 0 /\ peer[c] = "left"
    /\ Exit(c)
    /\ UNCHANGED <<clientVars, broken>>
-----------------------------------------------------------------------------
Parent ==
    \/ \E c \in Clients : Accept(c)
    \/ AcceptFails \/ Fork \/ ForkFails \/ CloseAccepted

Child(c) == CloseListen(c) \/ Read(c) \/ Write(c) \/ ReadEnd(c)

Next ==
    \/ Parent
    \/ \E c \in Clients : Child(c) \/ Connect(c) \/ Send(c) \/ Leave(c)

Spec == Init /\ [][Next]_vars

(* Every process runs; nothing is assumed of the clients. *)
FairSpec == Spec /\ WF_vars(Parent) /\ \A c \in Clients : WF_vars(Child(c))
-----------------------------------------------------------------------------
TypeOK ==
    /\ sa_handler \in {"SIG_DFL", "SIG_IGN", "stray"}
    /\ pc \in {"accept", "fork", "close", "dead"} /\ cur \in Procs
    /\ child \in [Clients -> {"none", "start", "read", "write", "zombie", "gone"}]
    /\ holds \in [Procs -> SUBSET Clients]
    /\ Cardinality(holds[parent]) <= MaxFds
    /\ listening \subseteq Procs
    /\ peer \in [Clients -> {"away", "waiting", "talking", "left"}]
    /\ inbox \in [Clients -> 0..MaxRequests] /\ sent \in [Clients -> 0..MaxRequests]
    /\ broken \subseteq Clients

(* A connection is held by its own child only, by the parent as long as it *)
(* has not closed its copy, and by other children only if no child could   *)
(* be forked for it: a child never keeps another client's connection open. *)
OwnConnection ==
    \A c \in Clients :
        /\ c \in Running => Holders(c) \subseteq {c} \cup (IF cur = c THEN {parent} ELSE {})
        /\ parent \in Holders(c) => (cur = c /\ pc \in {"fork", "close"}) \/ child[c] = "none"

(* A client that had a child and leaves is hung up on both sides, whatever *)
(* has become of the parent; and children of a parent that has died wait   *)
(* for no connection.                                                      *)
Gone(p) == IF p = parent THEN pc = "dead" ELSE p \in Running /\ peer[p] = "left"
Noticed(p) == IF p = parent THEN listening = {} ELSE Holders(p) = {}

(* What callback() is there for: a child that has ended is waited for, "or *)
(* the child process has been fully cleaned up" (process_server.cpp:35).   *)
Reaped == \A c \in Clients : (child[c] = "zombie") ~> (child[c] # "zombie" \/ pc = "dead")
=============================================================================
