------------------------- MODULE ConnectionService -------------------------
(***************************************************************************)
(* What a server promises the clients that connect to it, whatever way it  *)
(* has of waiting for them: a connection is taken from the backlog once,   *)
(* everything that arrives is read before the connection is closed, and it *)
(* is closed only after the client has hung up.  A server may also take a  *)
(* connection it has no room for and forget it, or fall over writing to a  *)
(* client that has left.  SocketServers implements it.                     *)
(***************************************************************************)
EXTENDS Naturals

CONSTANT Clients

VARIABLES
    conn,    \* "none", "backlog", "open", "lost" or "closed"
    peer,    \* "up" or "left"
    inbox,   \* chunks that have arrived and were not read
    up       \* whether the server lives

vars == <<conn, peer, inbox, up>>

Moved(c, from, to) == conn[c] = from /\ conn' = [conn EXCEPT ![c] = to]
-----------------------------------------------------------------------------
Init ==
    /\ conn = [c \in Clients |-> "none"]
    /\ peer = [c \in Clients |-> "up"]
    /\ inbox = [c \in Clients |-> 0]
    /\ up = TRUE

Connect(c) == Moved(c, "none", "backlog") /\ UNCHANGED <<peer, inbox, up>>

Arrive(c) ==
    /\ conn[c] \in {"backlog", "open"} /\ peer[c] = "up"
    /\ inbox' = [inbox EXCEPT ![c] = @ + 1]
    /\ UNCHANGED <<conn, peer, up>>

(* A reset may take with it what had arrived before. *)
Hangup(c) ==
    /\ conn[c] \in {"backlog", "open"} /\ peer[c] = "up"
    /\ peer' = [peer EXCEPT ![c] = "left"]
    /\ inbox' \in {inbox, [inbox EXCEPT ![c] = 0]}
    /\ UNCHANGED <<conn, up>>

Accept(c) ==
    /\ Moved(c, "backlog", "open") \/ Moved(c, "backlog", "lost")
    /\ UNCHANGED <<peer, inbox, up>>

Left == {c \in Clients : conn[c] = "open" /\ peer[c] # "up"}

Read(c) ==
    /\ conn[c] = "open" /\ inbox[c] > 0
    /\ inbox' = [inbox EXCEPT ![c] = @ - 1]
    /\ up' \in {up, c \notin Left}
    /\ UNCHANGED <<conn, peer>>

Close(c) ==
    /\ peer[c] # "up" /\ inbox[c] = 0
    /\ Moved(c, "open", "closed")
    /\ UNCHANGED <<peer, inbox, up>>

Next ==
    /\ up
    /\ \E c \in Clients :
         \/ Connect(c) \/ Arrive(c) \/ Hangup(c)
         \/ Accept(c) \/ Read(c) \/ Close(c)

Spec == Init /\ [][Next]_vars
=============================================================================
