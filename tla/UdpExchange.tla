----------------------------- MODULE UdpExchange -----------------------------
(***************************************************************************)
(* web/udp_client.cpp and udp_server.cpp: clients that send a datagram,    *)
(* wait for one and go on, and a server that answers each datagram to the  *)
(* address recvfrom() has left in cliaddr.  Nobody times out or repeats.   *)
(*                                                                         *)
(* The network is external: it loses, duplicates and reorders datagrams.   *)
(* What is sent is a date and tells nothing: the number of the hello and   *)
(* its sender are carried along to state the properties.                   *)
(***************************************************************************)
EXTENDS Integers, Functions

CONSTANTS
    Clients,
    None,         \* no address yet
    MaxHellos,    \* bound on the hellos of a client
    MaxFaults     \* bound on the datagrams lost, and on those duplicated

VARIABLES
    pc, num,           \* each client's loop and counter
    taken,             \* number of the hello whose answer a client got last
    serving, cliaddr,  \* the server's datagram, if it has one, and address
    requests, replies, \* how many of each datagram are in flight
    lost, dups         \* datagrams of each client lost and duplicated

vars == <<pc, num, taken, serving, cliaddr, requests, replies, lost, dups>>

NoHello == [from |-> None, num |-> -1]
Hellos == [from : Clients, num : 0..(MaxHellos - 1)]
Answers == [to : Clients, hello : Hellos]
InFlight(bag) == {m \in DOMAIN bag : bag[m] > 0}
-----------------------------------------------------------------------------
Init ==
    /\ pc = [c \in Clients |-> "send"]
    /\ num = [c \in Clients |-> 0]
    /\ taken = [c \in Clients |-> -1]
    /\ serving = NoHello /\ cliaddr = None
    /\ requests = [m \in Hellos |-> 0] /\ replies = [m \in Answers |-> 0]
    /\ lost = [c \in Clients |-> 0] /\ dups = [c \in Clients |-> 0]

SendHello(c) ==
    /\ pc[c] = "send" /\ num[c] < MaxHellos
    /\ requests' = [requests EXCEPT ![[from |-> c, num |-> num[c]]] = @ + 1]
    /\ num' = [num EXCEPT ![c] = @ + 1]
    /\ pc' = [pc EXCEPT ![c] = "recv"]
    /\ UNCHANGED <<taken, serving, cliaddr, replies, lost, dups>>

(* recvfrom(..., NULL, NULL): any datagram will do. *)
RecvReply(c) ==
    /\ pc[c] = "recv"
    /\ \E m \in InFlight(replies) :
         /\ m.to = c
         /\ replies' = [replies EXCEPT ![m] = @ - 1]
         /\ taken' = [taken EXCEPT ![c] = m.hello.num]
    /\ pc' = [pc EXCEPT ![c] = "send"]
    /\ UNCHANGED <<num, serving, cliaddr, requests, lost, dups>>
-----------------------------------------------------------------------------
RecvHello ==
    /\ serving = NoHello
    /\ \E m \in InFlight(requests) :
         /\ requests' = [requests EXCEPT ![m] = @ - 1]
         /\ serving' = m
         /\ cliaddr' = m.from
    /\ UNCHANGED <<pc, num, taken, replies, lost, dups>>

Reply ==
    /\ serving # NoHello
    /\ replies' = [replies EXCEPT ![[to |-> cliaddr, hello |-> serving]] = @ + 1]
    /\ serving' = NoHello
    /\ UNCHANGED <<pc, num, taken, cliaddr, requests, lost, dups>>
-----------------------------------------------------------------------------
Lose ==
    /\ SumFunction(lost) < MaxFaults
    /\ \/ \E m \in InFlight(requests) :
            /\ requests' = [requests EXCEPT ![m] = @ - 1]
            /\ lost' = [lost EXCEPT ![m.from] = @ + 1]
            /\ UNCHANGED replies
       \/ \E m \in InFlight(replies) :
            /\ replies' = [replies EXCEPT ![m] = @ - 1]
            /\ lost' = [lost EXCEPT ![m.to] = @ + 1]
            /\ UNCHANGED requests
    /\ UNCHANGED <<pc, num, taken, serving, cliaddr, dups>>

Duplicate ==
    /\ SumFunction(dups) < MaxFaults
    /\ \/ \E m \in InFlight(requests) :
            /\ requests' = [requests EXCEPT ![m] = @ + 1]
            /\ dups' = [dups EXCEPT ![m.from] = @ + 1]
            /\ UNCHANGED replies
       \/ \E m \in InFlight(replies) :
            /\ replies' = [replies EXCEPT ![m] = @ + 1]
            /\ dups' = [dups EXCEPT ![m.to] = @ + 1]
            /\ UNCHANGED requests
    /\ UNCHANGED <<pc, num, taken, serving, cliaddr, lost>>
-----------------------------------------------------------------------------
Server == RecvHello \/ Reply

Next ==
    \/ Server \/ Lose \/ Duplicate
    \/ \E c \in Clients : SendHello(c) \/ RecvReply(c)

Spec == Init /\ [][Next]_vars
-----------------------------------------------------------------------------
TypeOK ==
    /\ pc \in [Clients -> {"send", "recv"}]
    /\ num \in [Clients -> 0..MaxHellos] /\ taken \in [Clients -> -1..(MaxHellos - 1)]
    /\ serving \in Hellos \cup {NoHello} /\ cliaddr \in Clients \cup {None}
    /\ requests \in [Hellos -> Nat] /\ replies \in [Answers -> Nat]
    /\ lost \in [Clients -> Nat] /\ dups \in [Clients -> Nat]

(* "The data is returned to the client that sent it" (udp_server.cpp:61),  *)
(* however the datagrams of several clients are interleaved.               *)
RepliesToSender == \A m \in InFlight(replies) : m.to = m.hello.from

(* What a client takes for the answer to its latest hello is the answer to *)
(* it, until one of its datagrams is duplicated: hellos and answers carry  *)
(* nothing that would tell an old answer from a new one.                   *)
InStep == \A c \in Clients : pc[c] = "send" /\ dups[c] = 0 => taken[c] = num[c] - 1

(* A client gets on, unless more of its datagrams were lost than were      *)
(* duplicated: then it waits for ever, while other clients are served.     *)
Waiting(c) == pc[c] = "recv"
Settled(c) == pc[c] = "send" \/ lost[c] > dups[c]
=============================================================================
