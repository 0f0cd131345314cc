----------------------------- MODULE TcpPackage -----------------------------
(***************************************************************************)
(* web/tcp_package.c, tcp_client.cpp and tcp_server.cpp: a client and a    *)
(* server exchange packages, a header and a body of packet_size bytes.     *)
(* Both ends send with hsend() and receive with hrecv(), which work on one *)
(* hpack_t: hsend() turns its packet_size to network order in place, and   *)
(* hrecv() turns it back whether a header was read or not.                 *)
(*                                                                         *)
(* The header travels in two units, "A" (size, sequence, version) and "B"  *)
(* (check and timestamp), the body in two more.  Sockets are external.     *)
(***************************************************************************)
EXTENDS Naturals, Sequences

CONSTANTS
    Tags,          \* values of check and timestamp
    MaxPackages    \* bound on the packages the client sends

VARIABLES
    pc,        \* pc[p]: where endpoint p is in its loop
    hd,        \* hd[p]: its hpack_t
    out,       \* out[p]: what swrite() still has to send
    got,       \* got[p]: units sread() has read
    outcome,   \* outcome[p]: what the last hrecv() returned
    wire,      \* wire[p]: units from p not read yet by its peer
    fd,        \* fd[p]: the state of p's socket
    sent       \* packages the client has sent

vars == <<pc, hd, out, got, outcome, wire, fd, sent>>

Ends == {"client", "server"}
Peer(p) == IF p = "client" THEN "server" ELSE "client"
Alive(p) == pc[p] \notin {"closed", "killed"}

Swap(size) == IF size = "host" THEN "net" ELSE "host"

(* encrypt(): the version is a function of the size and the tag.  It has 8 *)
(* bits, so a header that is not what was sent may still match.            *)
Encrypt(h) == <<h.size, h.tag>>
Valid(h) == IF h.version = Encrypt(h) THEN {TRUE} ELSE BOOLEAN

Header(seq, tag) ==
    LET h == [size |-> "host", seq |-> seq, tag |-> tag, version |-> <<>>]
    IN  [h EXCEPT !.version = Encrypt(h)]

(* A socket is "ok"; "reset" when recv() and send() will say ECONNRESET    *)
(* once; "pipe" when the next send() raises SIGPIPE; "shut" when closed.   *)
Reset(s) == IF s = "ok" THEN "reset" ELSE s
-----------------------------------------------------------------------------
(* Neither hpack_t is initialised; seq counts from whatever it holds.     *)
Init ==
    /\ pc = [p \in Ends |-> IF p = "client" THEN "input" ELSE "head"]
    /\ hd = [p \in Ends |-> [size |-> "host", seq |-> 0, tag |-> "junk",
                             version |-> <<>>]]
    /\ out = [p \in Ends |-> <<>>]
    /\ got = [p \in Ends |-> 0]
    /\ outcome = [p \in Ends |-> "none"]
    /\ wire = [p \in Ends |-> <<>>]
    /\ fd = [p \in Ends |-> "ok"]
    /\ sent = 0

(* What hsend() leaves in the caller's header. *)
Convert(h) == [h EXCEPT !.size = Swap(@)]

Package(h) ==
    LET n == [h EXCEPT !.size = Swap(@)]
    IN  <<[part |-> "A", hd |-> n], [part |-> "B", hd |-> n],
          [part |-> "M", hd |-> n], [part |-> "M", hd |-> n]>>

HSend(p, h) ==
    /\ out' = [out EXCEPT ![p] = Package(h)]
    /\ hd' = [hd EXCEPT ![p] = Convert(h)]
    /\ pc' = [pc EXCEPT ![p] = "send"]

(* The client reads a line, fills the header and sends. *)
Input ==
    /\ pc["client"] = "input" /\ sent < MaxPackages
    /\ \E tag \in Tags : HSend("client", Header(hd["client"].seq + 1, tag))
    /\ sent' = sent + 1
    /\ UNCHANGED <<got, outcome, wire, fd>>

(* mutant of Reply: the version is computed before the size is set *)
ReplyVersionFirst ==
    /\ pc["server"] = "reply"
    /\ \E tag \in Tags :
         LET h == Header(hd["server"].seq + 1, tag)
         IN  HSend("server", [h EXCEPT !.version = <<"net", tag>>])
    /\ UNCHANGED <<got, outcome, wire, fd, sent>>

(* The server answers in the header it has received. *)
Reply ==
    /\ pc["server"] = "reply"
    /\ \E tag \in Tags : HSend("server", Header(hd["server"].seq + 1, tag))
    /\ UNCHANGED <<got, outcome, wire, fd, sent>>
-----------------------------------------------------------------------------
(* swrite(): send() may take a part only. *)
Write(p) ==
    /\ pc[p] = "send" /\ fd[p] = "ok" /\ fd[Peer(p)] = "ok"
    /\ \E k \in 1..Len(out[p]) :
         /\ wire' = [wire EXCEPT ![p] = @ \o SubSeq(out[p], 1, k)]
         /\ out' = [out EXCEPT ![p] = SubSeq(@, k + 1, Len(@))]
         /\ IF k = Len(out[p])
            THEN /\ pc' = [pc EXCEPT ![p] = "head"]
                 /\ got' = [got EXCEPT ![p] = 0]
            ELSE UNCHANGED <<pc, got>>
    /\ UNCHANGED <<hd, outcome, fd, sent>>

(* What is sent to a closed socket is lost, and a reset comes back. *)
WriteLost(p) ==
    /\ pc[p] = "send" /\ fd[p] = "ok" /\ fd[Peer(p)] = "shut"
    /\ \E k \in 1..Len(out[p]) :
         /\ out' = [out EXCEPT ![p] = SubSeq(@, k + 1, Len(@))]
         /\ IF k = Len(out[p])
            THEN /\ pc' = [pc EXCEPT ![p] = "head"]
                 /\ got' = [got EXCEPT ![p] = 0]
            ELSE UNCHANGED <<pc, got>>
    /\ fd' \in {fd, [fd EXCEPT ![p] = "pipe"]}
    /\ UNCHANGED <<hd, outcome, wire, sent>>

(* send() = -1: swrite() closes the descriptor.  The client exits; the     *)
(* server reads on, from the descriptor that is closed.                    *)
WriteFails(p) ==
    /\ pc[p] = "send" /\ fd[p] = "reset"
    /\ fd' = [fd EXCEPT ![p] = "shut"]
    /\ out' = [out EXCEPT ![p] = <<>>]
    /\ pc' = [pc EXCEPT ![p] = IF p = "client" THEN "closed" ELSE "head"]
    /\ got' = [got EXCEPT ![p] = 0]
    /\ UNCHANGED <<hd, outcome, wire, sent>>

Killed(p) ==
    /\ pc' = [pc EXCEPT ![p] = "killed"]
    /\ fd' = [fd EXCEPT ![p] = "shut",
                        ![Peer(p)] = IF wire[Peer(p)] # <<>> THEN Reset(@) ELSE @]
    /\ wire' = [wire EXCEPT ![Peer(p)] = <<>>]
    /\ UNCHANGED <<hd, out, got, outcome, sent>>

BrokenPipe(p) == pc[p] = "send" /\ fd[p] = "pipe" /\ Killed(p)

(* Ctrl-C: SigCatch() closes the client's socket and exits; the server has *)
(* no handler and dies of it.  Unread data turns the close into a reset.   *)
Interrupt(p) == Alive(p) /\ Killed(p)
-----------------------------------------------------------------------------
Arrived(p) == wire[Peer(p)] # <<>> /\ fd[p] # "shut"
Ended(p) == (wire[Peer(p)] = <<>> /\ fd[Peer(p)] = "shut") \/ fd[p] = "shut"
Failed(p) == fd[p] \in {"reset", "shut"}

(* hrecv() after sread() has returned for the header: its result is not    *)
(* looked at, the size is converted and the header tested.                 *)
Checked(p, h) ==
    LET n == [h EXCEPT !.size = Swap(@)] IN
    /\ hd' = [hd EXCEPT ![p] = n]
    /\ got' = [got EXCEPT ![p] = 0]
    /\ \E ok \in Valid(n) :
         IF ok
         THEN pc' = [pc EXCEPT ![p] = "body"] /\ UNCHANGED outcome
         ELSE /\ outcome' = [outcome EXCEPT ![p] = "error"]
              /\ pc' = [pc EXCEPT ![p] = IF p = "client" THEN "input" ELSE "head"]

Filled(h, u) ==
    IF u.part = "A"
    THEN [h EXCEPT !.size = u.hd.size, !.seq = u.hd.seq, !.version = u.hd.version]
    ELSE [h EXCEPT !.tag = u.hd.tag]

(* sread() of the header. *)
ReadHead(p) ==
    /\ pc[p] = "head" /\ Arrived(p)
    /\ LET u == Head(wire[Peer(p)])
           h == Filled(hd[p], u)
       IN  IF got[p] = 0
           THEN /\ got' = [got EXCEPT ![p] = 1] /\ hd' = [hd EXCEPT ![p] = h]
                /\ UNCHANGED <<pc, outcome>>
           ELSE Checked(p, h)
    /\ wire' = [wire EXCEPT ![Peer(p)] = Tail(@)]
    /\ UNCHANGED <<out, fd, sent>>

(* mutant of HeadEnds: the end of the stream is waited out, as in swrite() *)
HeadRetries(p) ==
    /\ pc[p] = "head" /\ Ended(p) /\ Failed(p)
    /\ Checked(p, hd[p])
    /\ fd' = [fd EXCEPT ![p] = IF @ = "reset" THEN "pipe" ELSE @]
    /\ UNCHANGED <<out, wire, sent>>

(* The stream ends, or recv() fails, before the header is complete. *)
HeadEnds(p) ==
    /\ pc[p] = "head" /\ Ended(p)
    /\ Checked(p, hd[p])
    /\ fd' = [fd EXCEPT ![p] = IF @ = "reset" THEN "pipe" ELSE @]
    /\ UNCHANGED <<out, wire, sent>>

(* What the two main loops make of the result of hrecv(). *)
Received(p, result) ==
    /\ outcome' = [outcome EXCEPT ![p] = result]
    /\ got' = [got EXCEPT ![p] = 0]
    /\ pc' = [pc EXCEPT ![p] =
                IF p = "client" THEN "input"
                ELSE CASE result = "message" -> "reply"
                       [] result = "error" -> "head"
                       [] result = "eof" -> "closed"]

(* sread() of the body; in network order the size is larger than anything  *)
(* that can arrive.                                                        *)
ReadBody(p) ==
    /\ pc[p] = "body" /\ Arrived(p)
    /\ wire' = [wire EXCEPT ![Peer(p)] = Tail(@)]
    /\ IF got[p] = 1 /\ hd[p].size = "host"
       THEN Received(p, "message")
       ELSE got' = [got EXCEPT ![p] = 1] /\ UNCHANGED <<pc, outcome>>
    /\ UNCHANGED <<hd, out, fd, sent>>

BodyEnds(p) ==
    /\ pc[p] = "body" /\ Ended(p)
    /\ Received(p, IF Failed(p) THEN "error" ELSE IF got[p] = 1 THEN "message" ELSE "eof")
    /\ fd' = [fd EXCEPT ![p] =
                IF @ = "reset" THEN "pipe"
                ELSE IF p = "server" /\ ~Failed(p) /\ got[p] = 0 THEN "shut" ELSE @]
    /\ UNCHANGED <<hd, out, wire, sent>>
-----------------------------------------------------------------------------
Run(p) ==
    \/ Write(p) \/ WriteLost(p) \/ WriteFails(p) \/ BrokenPipe(p)
    \/ ReadHead(p) \/ HeadEnds(p) \/ ReadBody(p) \/ BodyEnds(p)

Next ==
    \/ Input \/ Reply
    \/ \E p \in Ends : Run(p) \/ Interrupt(p)

Spec == Init /\ [][Next]_vars
-----------------------------------------------------------------------------
HeaderOK(h) ==
    /\ h.size \in {"host", "net"} /\ h.seq \in 0..(2 * MaxPackages)
    /\ h.tag \in Tags \cup {"junk"}

TypeOK ==
    /\ pc \in [Ends -> {"input", "send", "head", "body", "reply", "closed", "killed"}]
    /\ \A p \in Ends : HeaderOK(hd[p])
    /\ got \in [Ends -> 0..1]
    /\ outcome \in [Ends -> {"none", "error", "eof", "message"}]
    /\ fd \in [Ends -> {"ok", "reset", "pipe", "shut"}]
    /\ sent \in 0..MaxPackages

(* The next unit to read is the one the reader is after: no header is ever *)
(* read out of a body, although a header that does not match leaves its    *)
(* body unread.                                                            *)
Framed ==
    \A p \in Ends :
        Alive(p) /\ fd[p] # "shut" /\ wire[Peer(p)] # <<>> =>
            LET next == Head(wire[Peer(p)]).part IN
            /\ pc[p] \in {"head", "send"} =>
                  next = IF pc[p] = "head" /\ got[p] = 1 THEN "B" ELSE "A"
            /\ pc[p] = "body" => next = "M"

(* Packages alternate: what the server answers is the client's last        *)
(* package, and what the client takes for an answer was the answer to it.  *)
InStep ==
    /\ pc["server"] = "reply" => hd["server"].seq = 2 * sent - 1
    /\ pc["client"] = "input" /\ outcome["client"] = "message" =>
           hd["client"].seq = 2 * sent

(* A client that waits settles: its package is answered, or it learns that *)
(* the server is gone.                                                     *)
Waiting == pc["client"] \in {"send", "head", "body"}
Settled == pc["client"] \in {"input", "closed", "killed"}

(* The server notices that its client has left and closes, although it     *)
(* tests a header it has not read: the one left over, with its size turned *)
(* once more by each attempt, so that it matches on one of any two, and    *)
(* the body that follows is empty.  Not so before a first header, behind a *)
(* header cut in two, or once a send has failed and closed the descriptor: *)
(* then the server may go round for ever.                                  *)
ClientLeft ==
    LET first == sent > 1 \/ (sent = 1 /\ Len(out["client"]) <= 2)
        cut == Len(out["client"]) = 3
    IN  fd["client"] = "shut" /\ first /\ ~cut
ServerLeft == ~Alive("server") \/ fd["server"] = "shut"
=============================================================================
