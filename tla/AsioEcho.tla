------------------------------ MODULE AsioEcho ------------------------------
(***************************************************************************)
(* syncServer.cpp and syncClient.cpp: one message is sent, and four        *)
(* sessions that share the connection echo it between them, as many at a   *)
(* time as there are workers.  The connection is external: it delivers the *)
(* message in pieces.                                                      *)
(***************************************************************************)
EXTENDS Naturals, Sequences, FiniteSets

CONSTANTS
    Request,   \* length of the message, in pieces
    Sessions   \* parallel_for's range, 4 in the code

VARIABLES
    client,    \* "typing", "waiting", or how it has ended: "told", "cut", "killed"
    sock,      \* _sock: "open", "closed"
    workers,   \* threads of TBB
    todo,      \* sessions that have not read yet
    arrived,   \* pieces that have reached the server
    pos,       \* pieces read_some() has returned
    held,      \* what sessions have read and not written yet: <<first, last>>
    reply      \* what the server has written

vars == <<client, sock, workers, todo, arrived, pos, held, reply>>

Init ==
    /\ client = "typing" /\ sock = "open" /\ workers \in 1..Sessions
    /\ todo = Sessions /\ arrived = 0 /\ pos = 0 /\ held = {} /\ reply = <<>>

Left == client \in {"told", "cut", "killed"}
-----------------------------------------------------------------------------
Send ==
    /\ client = "typing" /\ client' = "waiting"
    /\ UNCHANGED <<sock, workers, todo, arrived, pos, held, reply>>

Arrive ==
    /\ client = "waiting" /\ arrived < Request
    /\ arrived' \in (arrived + 1)..Request
    /\ UNCHANGED <<client, sock, workers, todo, pos, held, reply>>

(* asio::read() returns with as much as was sent, or throws. *)
Read ==
    /\ client = "waiting"
    /\ \/ Len(reply) = Request /\ client' = "told"
       \/ Len(reply) < Request /\ sock = "closed" /\ client' = "cut"
    /\ UNCHANGED <<sock, workers, todo, arrived, pos, held, reply>>

Kill ==
    /\ ~Left /\ client' = "killed"
    /\ UNCHANGED <<sock, workers, todo, arrived, pos, held, reply>>
-----------------------------------------------------------------------------
Starts == todo > 0 /\ Cardinality(held) < workers

(* read_some() takes what is there. *)
ReadSome ==
    /\ Starts /\ pos < arrived
    /\ held' = held \cup {<<pos + 1, arrived>>} /\ pos' = arrived /\ todo' = todo - 1
    /\ UNCHANGED <<client, sock, workers, arrived, reply>>

(* The end of the stream, or a reset, behind which data is lost. *)
ReadEnds ==
    /\ Starts /\ Left
    /\ todo' = todo - 1
    /\ UNCHANGED <<client, sock, workers, arrived, pos, held, reply>>

(* write_some() sends all of so little, or throws because nobody listens.  *)
WriteSome(h) ==
    /\ h \in held /\ held' = held \ {h}
    /\ reply' = IF Left THEN reply ELSE reply \o [k \in 1..(h[2] - h[1] + 1) |-> h[1] + k - 1]
    /\ UNCHANGED <<client, sock, workers, todo, arrived, pos>>

(* parallel_for() is done, and the next connection takes the place of _sock.*)
Replace ==
    /\ sock = "open" /\ todo = 0 /\ held = {}
    /\ sock' = "closed"
    /\ UNCHANGED <<client, workers, todo, arrived, pos, held, reply>>

Server == ReadSome \/ ReadEnds \/ (\E h \in held : WriteSome(h)) \/ Replace
Client == Read \/ Arrive
-----------------------------------------------------------------------------
TypeOK ==
    /\ client \in {"typing", "waiting", "told", "cut", "killed"}
    /\ sock \in {"open", "closed"} /\ workers \in 1..Sessions /\ todo \in 0..Sessions
    /\ arrived \in 0..Request /\ pos \in 0..arrived
    /\ held \subseteq (1..Request) \X (1..Request) /\ Cardinality(held) <= workers

(* No piece is echoed twice; and if one session runs at a time, what the   *)
(* client has is the beginning of what it sent.  Two may change the order. *)
InStep ==
    /\ \A i, j \in DOMAIN reply : reply[i] = reply[j] => i = j
    /\ workers = 1 => \A i \in DOMAIN reply : reply[i] = i
=============================================================================
