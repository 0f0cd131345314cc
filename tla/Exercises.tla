----------------------------- MODULE Exercises -----------------------------
(***************************************************************************)
(* The exercises of learn_cpp in which ends, processes, threads or numbers *)
(* have a promise to keep to each other: the two exchanges, the two        *)
(* servers that give each client a process or a thread, the locks, the     *)
(* message handed over, the factorials and the checks of a package; and    *)
(* learn_asio's echo.  One of them runs; what each owes is stated for all. *)
(* The variables of the others are Off.                                    *)
(***************************************************************************)
EXTENDS Integers, FiniteSets

CONSTANTS
    Tags, MaxPackages,                      \* see TcpPackage
    Clients, None, MaxHellos, MaxFaults,    \* see UdpExchange
    Guests,                                 \* clients of the two servers
    Subject,                                \* one of all clients, who are alike
    NSlots, ThreadFds, Inherited,           \* see ThreadServer
    parent, MaxProcs, ProcessFds, MaxRequests,  \* see ProcessServer
    Readers, writer, Rounds, Width,         \* see ReaderWriter
    MaxN, Initial,                          \* see BigFactorial
    Request, Sessions,                      \* see AsioEcho
    MaxBytes, Bytes, Stamps                  \* see PackageCheck

ASSUME ExercisesAssumption ==
    /\ "junk" \notin Tags /\ None \notin Clients /\ Clients \subseteq Guests
    /\ Subject \in Clients /\ IsFiniteSet(Guests)
    /\ parent \notin Guests /\ writer \notin Readers
    /\ MaxPackages \in Nat /\ MaxHellos \in Nat \ {0} /\ MaxFaults \in Nat
    /\ NSlots \in Nat \ {0} /\ ThreadFds \in Nat /\ Inherited \subseteq 0..ThreadFds
    /\ MaxProcs \in Nat /\ ProcessFds \in Nat \ {0} /\ MaxRequests \in Nat
    /\ Rounds \in Nat \ {0}
    /\ IsFiniteSet(Readers) /\ Width \in Nat /\ Cardinality(Readers) < Width
    /\ MaxN \in Nat /\ Initial \in Nat \ {0}
    /\ Request \in Nat /\ Sessions \in Nat \ {0}
    /\ MaxBytes \in Nat

ASSUME WordsAssumption ==
    Bytes \subseteq 0..255 /\ Stamps \subseteq (0..65535) \X (0..65535)

VARIABLES
    program,
    pc,                                                   \* of most of them
    hd, out, got, outcome, wire,                          \* TcpPackage
    num, taken, serving, cliaddr, requests, replies, lost, dups,   \* UdpExchange
    acceptfd, up, i, connfd, opened, info, worker,        \* ThreadServer
    sa_handler, cur, child, holds, listening,             \* ProcessServer
    fd,                                                   \* TcpPackage, ThreadServer
    sent,                                                 \* TcpPackage, ProcessServer
    peer, inbox, broken,                                  \* both servers
    kind, left, count, reg, raced, g_num, seen,           \* ReaderWriter
    mtx, data,                                            \* HandOff
    n, lang, x, digits, size, over,                       \* BigFactorial
    client, sock, workers, todo, arrived, pos, held, reply,   \* AsioEcho
    message, crc                                          \* PackageCheck

tcpOnly == <<hd, out, got, outcome, wire>>
udpOnly == <<num, taken, serving, cliaddr, requests, replies, lost, dups>>
threadOnly == <<acceptfd, up, i, connfd, opened, info, worker>>
processOnly == <<sa_handler, cur, child, holds, listening>>
serverOnly == <<peer, inbox, broken>>
lockOnly == <<kind, left, count, reg, raced, g_num, seen>>
handOnly == <<mtx, data>>
numberOnly == <<n, lang, x, digits, size, over>>
echoOnly == <<client, sock, workers, todo, arrived, pos, held, reply>>
checkOnly == <<message, crc>>
vars == <<program, pc, tcpOnly, udpOnly, threadOnly, processOnly, fd, sent, serverOnly,
          lockOnly, handOnly, numberOnly, echoOnly, checkOnly>>

Tcp == INSTANCE TcpPackage
Udp == INSTANCE UdpExchange
Thread == INSTANCE ThreadServer WITH Clients <- Guests, MaxFds <- ThreadFds
Process == INSTANCE ProcessServer WITH Clients <- Guests, MaxFds <- ProcessFds
Locks == INSTANCE ReaderWriter
Hand == INSTANCE HandOff
Number == INSTANCE BigFactorial
Echo == INSTANCE AsioEcho
Check == INSTANCE PackageCheck

Off == "off"
-----------------------------------------------------------------------------
TcpOff == hd = Off /\ out = Off /\ got = Off /\ outcome = Off /\ wire = Off
UdpOff ==
    /\ num = Off /\ taken = Off /\ serving = Off /\ cliaddr = Off
    /\ requests = Off /\ replies = Off /\ lost = Off /\ dups = Off
ThreadOff ==
    /\ acceptfd = Off /\ up = Off /\ i = Off /\ connfd = Off /\ opened = Off
    /\ info = Off /\ worker = Off
ProcessOff == sa_handler = Off /\ cur = Off /\ child = Off /\ holds = Off /\ listening = Off
ServerOff == peer = Off /\ inbox = Off /\ broken = Off
LocksOff ==
    /\ kind = Off /\ left = Off /\ count = Off /\ reg = Off /\ raced = Off
    /\ g_num = Off /\ seen = Off
HandsOff == mtx = Off /\ data = Off
NumberOff == n = Off /\ lang = Off /\ x = Off /\ digits = Off /\ size = Off /\ over = Off
EchoOff ==
    /\ client = Off /\ sock = Off /\ workers = Off /\ todo = Off
    /\ arrived = Off /\ pos = Off /\ held = Off /\ reply = Off
CheckOff == message = Off /\ crc = Off

Init ==
    \/ /\ program = "tcp" /\ Tcp!Init
       /\ UdpOff /\ ThreadOff /\ ProcessOff /\ ServerOff /\ LocksOff /\ HandsOff /\ NumberOff
       /\ EchoOff /\ CheckOff
    \/ /\ program = "udp" /\ Udp!Init /\ fd = Off /\ sent = Off
       /\ TcpOff /\ ThreadOff /\ ProcessOff /\ ServerOff /\ LocksOff /\ HandsOff /\ NumberOff
       /\ EchoOff /\ CheckOff
    \/ /\ program = "thread" /\ Thread!Init /\ sent = Off
       /\ TcpOff /\ UdpOff /\ ProcessOff /\ LocksOff /\ HandsOff /\ NumberOff
       /\ EchoOff /\ CheckOff
    \/ /\ program = "process" /\ Process!Init /\ fd = Off
       /\ TcpOff /\ UdpOff /\ ThreadOff /\ LocksOff /\ HandsOff /\ NumberOff
       /\ EchoOff /\ CheckOff
    \/ /\ program = "locks" /\ Locks!Init /\ fd = Off /\ sent = Off
       /\ TcpOff /\ UdpOff /\ ThreadOff /\ ProcessOff /\ ServerOff /\ HandsOff /\ NumberOff
       /\ EchoOff /\ CheckOff
    \/ /\ program = "hand" /\ Hand!Init /\ fd = Off /\ sent = Off
       /\ TcpOff /\ UdpOff /\ ThreadOff /\ ProcessOff /\ ServerOff /\ LocksOff /\ NumberOff
       /\ EchoOff /\ CheckOff
    \/ /\ program = "number" /\ Number!Init /\ pc = Off /\ fd = Off /\ sent = Off
       /\ TcpOff /\ UdpOff /\ ThreadOff /\ ProcessOff /\ ServerOff /\ LocksOff /\ HandsOff
       /\ EchoOff /\ CheckOff
    \/ /\ program = "echo" /\ Echo!Init /\ pc = Off /\ fd = Off /\ sent = Off
       /\ TcpOff /\ UdpOff /\ ThreadOff /\ ProcessOff /\ ServerOff /\ LocksOff /\ HandsOff
       /\ NumberOff /\ CheckOff
    \/ /\ program = "check" /\ Check!Init /\ pc = Off /\ fd = Off /\ sent = Off
       /\ TcpOff /\ UdpOff /\ ThreadOff /\ ProcessOff /\ ServerOff /\ LocksOff /\ HandsOff
       /\ NumberOff /\ EchoOff

TcpRuns ==
    /\ program = "tcp"
    /\ UNCHANGED <<program, udpOnly, threadOnly, processOnly, serverOnly, lockOnly, handOnly,
                   numberOnly, echoOnly, checkOnly>>
UdpRuns ==
    /\ program = "udp"
    /\ UNCHANGED <<program, tcpOnly, threadOnly, processOnly, fd, sent, serverOnly, lockOnly,
                   handOnly, numberOnly, echoOnly, checkOnly>>
ThreadRuns ==
    /\ program = "thread"
    /\ UNCHANGED <<program, tcpOnly, udpOnly, processOnly, sent, lockOnly, handOnly, numberOnly,
                   echoOnly, checkOnly>>
ProcessRuns ==
    /\ program = "process"
    /\ UNCHANGED <<program, tcpOnly, udpOnly, threadOnly, fd, lockOnly, handOnly, numberOnly,
                   echoOnly, checkOnly>>
LocksRun ==
    /\ program = "locks"
    /\ UNCHANGED <<program, tcpOnly, udpOnly, threadOnly, processOnly, fd, sent, serverOnly,
                   handOnly, numberOnly, echoOnly, checkOnly>>
HandRuns ==
    /\ program = "hand"
    /\ UNCHANGED <<program, tcpOnly, udpOnly, threadOnly, processOnly, fd, sent, serverOnly,
                   lockOnly, numberOnly, echoOnly, checkOnly>>
NumberRuns ==
    /\ program = "number"
    /\ UNCHANGED <<program, pc, tcpOnly, udpOnly, threadOnly, processOnly, fd, sent, serverOnly,
                   lockOnly, handOnly, echoOnly, checkOnly>>
EchoRuns ==
    /\ program = "echo"
    /\ UNCHANGED <<program, pc, tcpOnly, udpOnly, threadOnly, processOnly, fd, sent, serverOnly,
                   lockOnly, handOnly, numberOnly, checkOnly>>
CheckRuns ==
    /\ program = "check"
    /\ UNCHANGED <<program, pc, tcpOnly, udpOnly, threadOnly, processOnly, fd, sent, serverOnly,
                   lockOnly, handOnly, numberOnly, echoOnly>>
-----------------------------------------------------------------------------
(* What the programs do of themselves, thread by thread. *)
TcpClient == TcpRuns /\ Tcp!Run("client")
TcpServer == TcpRuns /\ (Tcp!Run("server") \/ Tcp!Reply)
UdpServer == UdpRuns /\ Udp!Server
UdpClient(c) == UdpRuns /\ (Udp!SendHello(c) \/ Udp!RecvReply(c))
ThreadMain == ThreadRuns /\ Thread!Main
ThreadWork(c) == ThreadRuns /\ Thread!Work(c)
ProcessParent == ProcessRuns /\ Process!Parent
ProcessChild(c) == ProcessRuns /\ Process!Child(c)
LockMain == LocksRun /\ Locks!NextKind
LockWriter == LocksRun /\ Locks!Writes
LockReader(t) == LocksRun /\ Locks!Reads(t)
Receiver == HandRuns /\ Hand!Receive
Sender == HandRuns /\ Hand!Deliver
Multiply == NumberRuns /\ Number!Multiply
Checksum == CheckRuns /\ Check!Crc32
EchoServer == EchoRuns /\ Echo!Server
EchoClient == EchoRuns /\ Echo!Client

(* The user types a line or stops a program, clients of the servers come   *)
(* and go, the network and the scheduler have their way.                   *)
User ==
    \/ TcpRuns /\ (Tcp!Input \/ \E p \in Tcp!Ends : Tcp!Interrupt(p))
    \/ EchoRuns /\ (Echo!Send \/ Echo!Kill)
Network == UdpRuns /\ (Udp!Lose \/ Udp!Duplicate)
ThreadHangup(c) == ThreadRuns /\ Thread!Hangup(c)
ThreadGuest(c) == ThreadRuns /\ (Thread!Connect(c) \/ Thread!Send(c))
ProcessGuest(c) == ProcessRuns /\ (Process!Connect(c) \/ Process!Send(c) \/ Process!Leave(c))
Wakeup == HandRuns /\ Hand!Spurious

(* Programs exclude each other: their main threads have one name, and so   *)
(* have what they do for each client.  The rounds of the readers come to   *)
(* an end, whichever of them goes first: they share a name too.            *)
Main ==
    TcpClient \/ UdpServer \/ ThreadMain \/ ProcessParent \/ LockWriter \/ Receiver \/
    EchoServer
Other ==
    TcpServer \/ LockMain \/ (\E t \in Readers : LockReader(t)) \/ Sender \/ EchoClient
Serve(c) == (c \in Clients /\ UdpClient(c)) \/ ThreadWork(c) \/ ProcessChild(c)

(* Each client of the thread server hangs up once. *)
Hangups == \E c \in Guests : ThreadHangup(c)

Next ==
    \/ Main \/ Other \/ Multiply \/ Checksum
    \/ (\E c \in Guests : Serve(c))
    \/ User \/ Network \/ Wakeup
    \/ Hangups \/ (\E c \in Guests : ThreadGuest(c) \/ ProcessGuest(c))

Spec == Init /\ [][Next]_vars

(* Programs, processes and threads run.  A lock is free in the end, for    *)
(* the rounds of the others do; only a receiver that is woken again and    *)
(* again for nothing could keep the sender from its mutex, and no mutex is *)
(* that unfair.  Nothing makes the user type or interrupt, the network     *)
(* lose or a wait end by itself.  That a client leaves is assumed where    *)
(* there is an entry to be freed.                                          *)
FairSpec ==
    /\ Spec
    /\ WF_vars(Main) /\ SF_vars(Other)
    /\ WF_vars(Hangups) /\ \A c \in Guests : WF_vars(Serve(c))
-----------------------------------------------------------------------------
TypeOK ==
    CASE program = "tcp" -> Tcp!TypeOK
      [] program = "udp" -> Udp!TypeOK
      [] program = "thread" -> Thread!TypeOK
      [] program = "process" -> Process!TypeOK
      [] program = "locks" -> Locks!TypeOK
      [] program = "hand" -> Hand!TypeOK
      [] program = "number" -> Number!TypeOK
      [] program = "echo" -> Echo!TypeOK
      [] program = "check" -> Check!TypeOK

(* Nobody takes one thing for another: no header is read out of a body, no *)
(* answer goes to a client that has not asked for it, no worker reads      *)
(* another's client, no child keeps another's connection.                  *)
Addressed ==
    CASE program = "tcp" -> Tcp!Framed
      [] program = "udp" -> Udp!RepliesToSender
      [] program = "thread" -> Thread!OwnClient
      [] program = "process" -> Process!OwnConnection
      [] OTHER -> TRUE

(* What is taken for the answer to the latest request is the answer to it; *)
(* over UDP, until a datagram of that client is duplicated; of the echo    *)
(* the order too, until two sessions run at a time.                        *)
InStep ==
    CASE program = "tcp" -> Tcp!InStep
      [] program = "udp" -> Udp!InStep
      [] program = "echo" -> Echo!InStep
      [] OTHER -> TRUE

(* An entry of the thread server is taken as long as somebody will free it *)
SlotsUsed == program = "thread" => Thread!SlotsUsed

(* Who holds a lock is alone with what it protects; one lock does not.     *)
Excluded ==
    CASE program = "locks" -> Locks!Excluded
      [] program = "hand" -> Hand!Excluded
      [] OTHER -> TRUE

(* What is computed is right: the digits of a factorial, up to where they  *)
(* stop being right, the checksum of a message, and the version of its     *)
(* header as far as it goes.                                               *)
NumbersRight ==
    CASE program = "number" -> Number!DigitsRight
      [] program = "check" -> Check!Checked
      [] OTHER -> TRUE

Waiting(c) ==
    CASE program = "tcp" -> Tcp!Waiting
      [] program = "udp" -> Udp!Waiting(c)
      [] program = "thread" -> Thread!Waiting(c)
      [] program = "process" -> Process!Gone(parent)
      [] program = "locks" -> Locks!Waiting
      [] program = "hand" -> TRUE
      [] program = "echo" -> client = "waiting"
      [] OTHER -> FALSE

Settled(c) ==
    CASE program = "tcp" -> Tcp!Settled
      [] program = "udp" -> Udp!Settled(c)
      [] program = "thread" -> Thread!Settled(c)
      [] program = "process" -> Process!Noticed(parent)
      [] program = "locks" -> Locks!Settled
      [] program = "hand" -> Hand!Settled
      [] program = "echo" -> Echo!Left
      [] OTHER -> FALSE

(* Whoever waits gets on: a request is answered, or the client learns that *)
(* the server is gone; a UDP client waits for ever if it has lost more     *)
(* datagrams than were duplicated; whoever connects to the thread server   *)
(* is accepted; when the process server has died its children give up its  *)
(* port; the threads of the locks are all joined, unless one has died of   *)
(* waiting; the message handed over arrives; the echo is complete or cut   *)
(* off, after four sessions.                                               *)
Answered == Waiting(Subject) ~> Settled(Subject)

Gone(c) ==
    CASE program = "tcp" -> Tcp!ClientLeft
      [] program = "process" -> Process!Gone(c)
      [] program = "echo" -> Echo!Left
      [] OTHER -> FALSE

Noticed(c) ==
    CASE program = "tcp" -> Tcp!ServerLeft
      [] program = "process" -> Process!Noticed(c)
      [] program = "echo" -> sock = "closed"
      [] OTHER -> FALSE

(* Who has left is noticed: by the TCP server, although it tests headers   *)
(* it has not read (when it does not, see TcpPackage); by both sides of    *)
(* the process server; and by the sessions of the echo.                    *)
NoticesEnd == Gone(Subject) ~> Noticed(Subject)
=============================================================================
