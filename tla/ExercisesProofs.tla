-------------------------- MODULE ExercisesProofs --------------------------
(***************************************************************************)
(* Proofs about Exercises.  One program runs, so an invariant of each is   *)
(* proved from its own steps, and the theorems put them together.  Of what *)
(* is computed, the digits of a factorial are proved right; where they are *)
(* written and what the quick one makes of it depends on how large n and   *)
(* the buffer are, and stays with TLC, as do the bits of a checksum and    *)
(* what must happen in the end.                                            *)
(***************************************************************************)
EXTENDS Exercises, SequenceTheorems, FiniteSetTheorems, WellFoundedInduction, TLAPS

LocksNext == Locks!NextKind \/ Locks!Writes \/ \E t \in Readers : Locks!Reads(t)
HandNext == Hand!Receive \/ Hand!Deliver \/ Hand!Spurious
EchoNext == Echo!Server \/ Echo!Client \/ Echo!Send \/ Echo!Kill

(* Each step is one of the program that runs.                              *)
LEMMA OneRuns ==
  ASSUME [Next]_vars
  PROVE  /\ UNCHANGED program
         /\ program = "tcp" => [Tcp!Next]_(Tcp!vars)
         /\ program = "udp" => [Udp!Next]_(Udp!vars)
         /\ program = "thread" => [Thread!Next]_(Thread!vars)
         /\ program = "process" => [Process!Next]_(Process!vars)
         /\ program = "locks" => [LocksNext]_(Locks!vars)
         /\ program = "hand" => [HandNext]_(Hand!vars)
         /\ program = "number" => [Number!Multiply]_(Number!vars)
         /\ program = "echo" => [EchoNext]_(Echo!vars)
         /\ program = "check" => [Check!Crc32]_(Check!vars)
<1>1. CASE UNCHANGED vars
  BY <1>1 DEF vars, tcpOnly, udpOnly, threadOnly, processOnly, serverOnly, lockOnly, handOnly,
    numberOnly, echoOnly, checkOnly, Tcp!vars, Udp!vars, Thread!vars, Thread!mainVars,
    Thread!clientVars, Process!vars, Process!parentVars, Process!clientVars, Locks!vars,
    Hand!vars, Number!vars, Echo!vars, Check!vars
<1>2. CASE Main
  BY <1>2 DEF Main, TcpClient, UdpServer, ThreadMain, ProcessParent, LockWriter, Receiver,
    EchoServer, TcpRuns, UdpRuns, ThreadRuns, ProcessRuns, LocksRun, HandRuns, EchoRuns,
    Tcp!Next, Tcp!Ends, Udp!Next, Thread!Next, Process!Next, LocksNext, HandNext, EchoNext
<1>3. CASE Other
  BY <1>3 DEF Other, TcpServer, LockMain, LockReader, Sender, EchoClient,
    TcpRuns, LocksRun, HandRuns, EchoRuns,
    Tcp!Next, Tcp!Ends, LocksNext, HandNext, EchoNext
<1>4. CASE Multiply \/ Checksum
  BY <1>4 DEF Multiply, Checksum, NumberRuns, CheckRuns
<1>5. CASE \E c \in Guests : Serve(c)
  <2>1. PICK c \in Guests : Serve(c)
    BY <1>5
  <2>2. CASE c \in Clients /\ UdpClient(c)
    BY <2>2 DEF UdpClient, UdpRuns, Udp!Next
  <2>3. CASE ThreadWork(c)
    BY <2>3 DEF ThreadWork, ThreadRuns, Thread!Next
  <2>4. CASE ProcessChild(c)
    BY <2>4 DEF ProcessChild, ProcessRuns, Process!Next
  <2> QED
    BY <2>1, <2>2, <2>3, <2>4 DEF Serve
<1>6. CASE User
  BY <1>6 DEF User, TcpRuns, EchoRuns, Tcp!Next, EchoNext
<1>7. CASE Network \/ Wakeup
  BY <1>7 DEF Network, Wakeup, UdpRuns, HandRuns, Udp!Next, HandNext
<1>8. CASE Hangups
  BY <1>8 DEF Hangups, ThreadHangup, ThreadRuns, Thread!Next
<1>9. CASE \E c \in Guests : ThreadGuest(c) \/ ProcessGuest(c)
  <2>1. PICK c \in Guests : ThreadGuest(c) \/ ProcessGuest(c)
    BY <1>9
  <2>2. CASE ThreadGuest(c)
    BY <2>2 DEF ThreadGuest, ThreadRuns, Thread!Next
  <2>3. CASE ProcessGuest(c)
    BY <2>3 DEF ProcessGuest, ProcessRuns, Process!Next
  <2> QED
    BY <2>1, <2>2, <2>3
<1> QED
  BY <1>1, <1>2, <1>3, <1>4, <1>5, <1>6, <1>7, <1>8, <1>9 DEF Next
-----------------------------------------------------------------------------
(* The message handed over: what was sent stays there.                     *)
HandInv ==
    /\ Hand!TypeOK /\ Hand!Excluded
    /\ pc["s"] \in {"sent", "done"} => data

LEMMA HandInit == ASSUME Hand!Init PROVE HandInv
  BY DEF Hand!Init, HandInv, Hand!TypeOK, Hand!Excluded, Hand!Ends

LEMMA HandStep ==
  ASSUME HandInv, [HandNext]_(Hand!vars)
  PROVE  HandInv'
<1> USE DEF HandInv, Hand!TypeOK, Hand!Excluded, Hand!Ends
<1>1. CASE UNCHANGED Hand!vars
  BY <1>1 DEF Hand!vars
<1>2. ASSUME NEW t \in {"r", "s"}, Hand!Lock(t) PROVE HandInv'
  BY <1>2 DEF Hand!Lock, Hand!Move
<1>3. CASE Hand!Test
  BY <1>3 DEF Hand!Test, Hand!Move
<1>4. CASE Hand!Put
  BY <1>4 DEF Hand!Put, Hand!Move
<1>5. CASE Hand!Notify
  <2>1. /\ pc["s"] = "sent"
        /\ pc' = [r |-> IF pc["r"] = "waiting" THEN "woken" ELSE pc["r"], s |-> "done"]
        /\ mtx' = mtx /\ data' = data
    BY <1>5 DEF Hand!Notify
  <2>2. /\ DOMAIN pc' = {"r", "s"} /\ pc'["s"] = "done"
        /\ pc'["r"] = IF pc["r"] = "waiting" THEN "woken" ELSE pc["r"]
    BY <2>1
  <2>3. pc' \in [{"r", "s"} -> {"start", "locked", "waiting", "woken", "sent", "done"}]
    <3>1. pc' = [t \in {"r", "s"} |-> pc'[t]]
      BY <2>1, <2>2
    <3> QED
      BY <2>2, <3>1
  <2> QED
    BY <2>1, <2>2, <2>3
<1>6. CASE Hand!Spurious
  BY <1>6 DEF Hand!Spurious, Hand!Move
<1> QED
  BY <1>1, <1>2, <1>3, <1>4, <1>5, <1>6 DEF HandNext, Hand!Receive, Hand!Deliver
-----------------------------------------------------------------------------
(* The locks: a std lock keeps a writer and, if it is a mutex, everybody   *)
(* alone; and as long as no two readers have met at the counter made by    *)
(* hand, the one at it has loaded what it still holds.                     *)
Counted == {t \in Readers : pc[t] \in {"in", "loaded down"}}

LocksInv ==
    /\ Locks!TypeOK
    /\ kind # "diy" =>
         /\ \A t \in Readers \cup {writer} : pc[t] \in {"out", "in"}
         /\ \A t \in Readers \cup {writer} : pc[t] = "in" => left[t] > 0
         /\ pc[writer] = "in" => \A t \in Readers : pc[t] = "out"
         /\ kind = "mutex" =>
              \A s, t \in Readers \cup {writer} : pc[s] = "in" /\ pc[t] = "in" => s = t
    /\ kind = "diy" =>
         /\ \A t \in Readers \cup {writer} :
              pc[t] \in {"in", "loaded up", "loaded down"} => left[t] > 0
         /\ ~raced =>
              /\ count = Cardinality(Counted)
              /\ \A t \in Locks!AtCounter : reg[t] = count
              /\ \A s, t \in Locks!AtCounter : s = t

LEMMA LocksBounds ==
  /\ writer \notin Readers /\ IsFiniteSet(Readers)
  /\ Cardinality(Readers) \in Nat /\ Width \in Nat /\ Cardinality(Readers) < Width
  /\ Rounds \in Nat /\ Rounds > 0
<1>1. /\ writer \notin Readers /\ IsFiniteSet(Readers) /\ Rounds \in Nat \ {0}
      /\ Width \in Nat /\ Cardinality(Readers) < Width
  BY ExercisesAssumption DEF ExercisesAssumption
<1>2. Cardinality(Readers) \in Nat
  BY <1>1, FS_CardinalityType
<1> QED
  BY <1>1, <1>2

(* Remainders: what stays below the divisor is its own.                    *)
LEMMA Remainders ==
  ASSUME NEW a \in Int, NEW b \in Nat, b > 0
  PROVE  /\ a % b \in 0..(b - 1)
         /\ a \in 0..(b - 1) => a % b = a
         /\ a \in b..(2 * b - 1) => a % b = a - b
  OBVIOUS

LEMMA LocksInit == ASSUME Locks!Init PROVE LocksInv
<1>1. ASSUME NEW k \in {"mutex", "diy"}, Locks!InitKind(k) PROVE LocksInv
  <2>1. /\ kind = k /\ count = 0 /\ reg = [t \in Readers |-> 0]
        /\ pc = [t \in Readers \cup {writer} |-> "out"]
        /\ left = [t \in Readers \cup {writer} |->
                    IF k = "diy" /\ t = writer THEN 1 ELSE Rounds]
    BY <1>1 DEF Locks!InitKind, Locks!Members
  <2>2. \A t \in Readers \cup {writer} : pc[t] = "out"
    BY <2>1
  <2>3. Counted = {} /\ Locks!AtCounter = {}
    BY <2>2 DEF Counted, Locks!AtCounter
  <2>4. Cardinality(Counted) = 0
    BY <2>3, FS_EmptySet
  <2>5. Locks!TypeOK
    BY <2>1, LocksBounds DEF Locks!TypeOK, Locks!Members
  <2> QED
    BY <2>1, <2>2, <2>3, <2>4, <2>5 DEF LocksInv
<1> QED
  BY <1>1 DEF Locks!Init

(* How the readers counted change, when one of them moves.                 *)
LEMMA CountedIn ==
  ASSUME NEW t \in Readers, IsFiniteSet(Readers), t \notin Counted, Counted' = Counted \cup {t}
  PROVE  /\ Cardinality(Counted') = Cardinality(Counted) + 1
         /\ Cardinality(Counted') \in 0..Cardinality(Readers)
<1>1. Counted \subseteq Readers /\ Counted' \subseteq Readers
  BY DEF Counted
<1> QED
  BY <1>1, FS_Subset, FS_AddElement, FS_CardinalityType

LEMMA CountedOut ==
  ASSUME NEW t \in Readers, IsFiniteSet(Readers), t \in Counted, Counted' = Counted \ {t}
  PROVE  /\ Cardinality(Counted') = Cardinality(Counted) - 1
         /\ Cardinality(Counted) \in 1..Cardinality(Readers)
<1>1. Counted \subseteq Readers /\ Counted' \subseteq Readers
  BY DEF Counted
<1>2. IsFiniteSet(Counted)
  BY <1>1, FS_Subset
<1>3. Cardinality(Counted) \in Nat /\ Cardinality(Counted) <= Cardinality(Readers)
      /\ Cardinality(Readers) \in Nat
  BY <1>1, FS_Subset, FS_CardinalityType
<1>4. Cardinality(Counted') = Cardinality(Counted) - 1 /\ Cardinality(Counted') \in Nat
  BY <1>2, FS_RemoveElement, FS_CardinalityType, FS_Subset
<1> QED
  BY <1>3, <1>4

LEMMA EnterStep ==
  ASSUME LocksInv, NEW t \in Readers \cup {writer}, Locks!Enter(t)
  PROVE  LocksInv'
<1> USE DEF LocksInv, Locks!TypeOK, Locks!Members
<1>1. /\ kind # "diy" /\ pc[t] = "out" /\ left[t] > 0 /\ pc' = [pc EXCEPT ![t] = "in"]
      /\ kind' = kind /\ left' = left /\ count' = count /\ reg' = reg /\ raced' = raced
  BY DEF Locks!Enter, Locks!Move
<1>2. \/ \A s \in Readers \cup {writer} : pc[s] # "in"
      \/ kind = "shared" /\ t # writer /\ pc[writer] # "in"
  BY DEF Locks!Enter, Locks!MayEnter, Locks!Inside
<1>3. \A s \in Readers \cup {writer} : pc[s] \in {"out", "in"}
  BY <1>1
<1>4. pc'[writer] = "in" => \A s \in Readers : pc'[s] = "out"
  BY <1>1, <1>2, <1>3, LocksBounds
<1>5. kind = "mutex" => \A s \in Readers \cup {writer} : pc'[s] = "in" => s = t
  BY <1>1, <1>2
<1> QED
  BY <1>1, <1>3, <1>4, <1>5

LEMMA LocksTypes ==
  ASSUME LocksInv
  PROVE  /\ count \in Nat /\ \A t \in Readers : reg[t] \in Nat
         /\ left \in [Readers \cup {writer} -> 0..Rounds]
         /\ \A t \in Readers \cup {writer} : left[t] \in 0..Rounds
<1>1. count \in 0..(Width - 1) /\ reg \in [Readers -> 0..(Width - 1)]
  BY DEF LocksInv, Locks!TypeOK
<1>2. left \in [Readers \cup {writer} -> 0..Rounds]
  BY DEF LocksInv, Locks!TypeOK, Locks!Members
<1>3. \A t \in Readers : reg[t] \in Nat
  BY <1>1, LocksBounds
<1> QED
  BY <1>1, <1>2, <1>3, LocksBounds

LEMMA OneRoundLess ==
  ASSUME NEW t \in Readers \cup {writer}, left \in [Readers \cup {writer} -> 0..Rounds],
         left[t] > 0, left' = [left EXCEPT ![t] = left[t] - 1]
  PROVE  left' \in [Readers \cup {writer} -> 0..Rounds]
<1>1. left[t] - 1 \in 0..Rounds
  BY LocksBounds
<1> QED
  BY <1>1

LEMMA LeaveStep ==
  ASSUME LocksInv, NEW t \in Readers \cup {writer}, Locks!Leave(t)
  PROVE  LocksInv'
<1> USE DEF LocksInv, Locks!TypeOK, Locks!Members
<1>1. /\ kind # "diy" /\ pc[t] = "in" /\ left[t] > 0 /\ pc' = [pc EXCEPT ![t] = "out"]
      /\ left' = [left EXCEPT ![t] = left[t] - 1]
      /\ kind' = kind /\ count' = count /\ reg' = reg /\ raced' = raced
  BY DEF Locks!Leave, Locks!Move
<1>2. left \in [Readers \cup {writer} -> 0..Rounds]
  BY LocksTypes
<1>3. left' \in [Readers \cup {writer} -> 0..Rounds]
  BY <1>1, <1>2, OneRoundLess
<1> QED
  BY <1>1, <1>2, <1>3

LEMMA LoadStep ==
  ASSUME LocksInv, NEW t \in Readers, Locks!Load(t)
  PROVE  LocksInv'
<1> USE DEF LocksInv, Locks!TypeOK, Locks!Members
<1>1. /\ kind = "diy" /\ left[t] > 0 /\ pc[t] \in {"out", "in"}
      /\ pc' = [pc EXCEPT ![t] = IF pc[t] = "out" THEN "loaded up" ELSE "loaded down"]
      /\ reg' = [reg EXCEPT ![t] = count] /\ raced' = (raced \/ Locks!AtCounter # {})
      /\ kind' = kind /\ left' = left /\ count' = count
  BY DEF Locks!Load, Locks!Move, Locks!Alive
<1>2. Counted' = Counted
  BY <1>1 DEF Counted
<1>3. ASSUME ~raced'
      PROVE  \A s \in Locks!AtCounter' : s = t /\ reg'[s] = count
  BY <1>1, <1>3 DEF Locks!AtCounter
<1>4. ASSUME ~raced'
      PROVE  count' = Cardinality(Counted')
  BY <1>1, <1>2, <1>4
<1> QED
  BY <1>1, <1>3, <1>4

LEMMA IncrementStep ==
  ASSUME LocksInv, NEW t \in Readers, Locks!Increment(t)
  PROVE  LocksInv'
<1>1. /\ kind = "diy" /\ pc[t] = "loaded up" /\ pc' = [pc EXCEPT ![t] = "in"]
      /\ count' = (reg[t] + 1) % Width
      /\ kind' = kind /\ left' = left /\ reg' = reg /\ raced' = raced
  BY DEF Locks!Increment, Locks!Move, Locks!Alive, LocksInv
<1>2. count' \in 0..(Width - 1)
  <2>1. reg[t] + 1 \in Int
    BY LocksTypes
  <2>2. Width \in Nat /\ Width > 0
    BY LocksBounds
  <2>3. (reg[t] + 1) % Width \in 0..(Width - 1)
    BY <2>1, <2>2, Remainders
  <2> QED
    BY <1>1, <2>3
<1>3. t \notin Counted /\ Counted' = Counted \cup {t}
  BY <1>1 DEF Counted, LocksInv, Locks!TypeOK, Locks!Members
<1>4. /\ Cardinality(Counted') = Cardinality(Counted) + 1
      /\ Cardinality(Counted') \in 0..Cardinality(Readers)
  BY <1>3, CountedIn, LocksBounds
<1>5. ASSUME ~raced
      PROVE  count' = Cardinality(Counted') /\ Locks!AtCounter' = {}
  <2>1. t \in Locks!AtCounter
    BY <1>1 DEF Locks!AtCounter
  <2>2. reg[t] = count /\ \A s \in Locks!AtCounter : s = t
    BY <1>1, <1>5, <2>1 DEF LocksInv
  <2>3. Locks!AtCounter' = {}
    BY <1>1, <2>2 DEF Locks!AtCounter, LocksInv, Locks!TypeOK, Locks!Members
  <2>4. count = Cardinality(Counted) /\ count + 1 \in 0..Cardinality(Readers)
    BY <1>1, <1>4, <1>5, LocksTypes DEF LocksInv
  <2>5. count + 1 \in Int /\ count + 1 \in 0..(Width - 1)
    BY <2>4, LocksBounds
  <2>6. (count + 1) % Width = count + 1
    BY <2>5, LocksBounds, Remainders
  <2> QED
    BY <1>1, <1>4, <2>2, <2>3, <2>4, <2>6
<1> QED
  BY <1>1, <1>2, <1>5 DEF LocksInv, Locks!TypeOK, Locks!Members

LEMMA DecrementStep ==
  ASSUME LocksInv, NEW t \in Readers, Locks!Decrement(t)
  PROVE  LocksInv'
<1>1. /\ kind = "diy" /\ pc[t] = "loaded down" /\ pc' = [pc EXCEPT ![t] = "out"]
      /\ left[t] > 0 /\ left' = [left EXCEPT ![t] = left[t] - 1]
      /\ count' = (reg[t] + Width - 1) % Width
      /\ kind' = kind /\ reg' = reg /\ raced' = raced
  BY DEF Locks!Decrement, Locks!Move, Locks!Alive, LocksInv
<1>2. count' \in 0..(Width - 1)
  <2>1. reg[t] + Width - 1 \in Int
    BY LocksBounds, LocksTypes
  <2>2. Width \in Nat /\ Width > 0
    BY LocksBounds
  <2>3. (reg[t] + Width - 1) % Width \in 0..(Width - 1)
    BY <2>1, <2>2, Remainders
  <2> QED
    BY <1>1, <2>3
<1>7. left' \in [Readers \cup {writer} -> 0..Rounds]
  BY <1>1, LocksTypes, OneRoundLess
<1>3. t \in Counted /\ Counted' = Counted \ {t}
  BY <1>1 DEF Counted, LocksInv, Locks!TypeOK, Locks!Members
<1>4. /\ Cardinality(Counted') = Cardinality(Counted) - 1
      /\ Cardinality(Counted) \in 1..Cardinality(Readers)
  BY <1>3, CountedOut, LocksBounds
<1>5. ASSUME ~raced
      PROVE  count' = Cardinality(Counted') /\ Locks!AtCounter' = {}
  <2>1. t \in Locks!AtCounter
    BY <1>1 DEF Locks!AtCounter
  <2>2. reg[t] = count /\ \A s \in Locks!AtCounter : s = t
    BY <1>1, <1>5, <2>1 DEF LocksInv
  <2>3. Locks!AtCounter' = {}
    BY <1>1, <2>2 DEF Locks!AtCounter, LocksInv, Locks!TypeOK, Locks!Members
  <2>4. count = Cardinality(Counted) /\ count \in 1..Cardinality(Readers)
    BY <1>1, <1>4, <1>5, LocksTypes DEF LocksInv
  <2>5. count + Width - 1 \in Int /\ count + Width - 1 \in Width..(2 * Width - 1)
    BY <2>4, LocksBounds
  <2>6. (count + Width - 1) % Width = count - 1
    BY <2>4, <2>5, LocksBounds, Remainders
  <2> QED
    BY <1>1, <1>4, <2>2, <2>3, <2>4, <2>6
<1>6. \A s \in Readers \cup {writer} : pc'[s] \in {"in", "loaded up", "loaded down"} => left'[s] > 0
  BY <1>1 DEF LocksInv, Locks!TypeOK, Locks!Members
<1> QED
  BY <1>1, <1>2, <1>5, <1>6, <1>7 DEF LocksInv, Locks!TypeOK, Locks!Members

LEMMA LocksStep ==
  ASSUME LocksInv, [LocksNext]_(Locks!vars)
  PROVE  LocksInv'
<1>1. CASE UNCHANGED Locks!vars
  BY <1>1 DEF Locks!vars, Counted, Locks!AtCounter, LocksInv, Locks!TypeOK, Locks!Members
<1>2. CASE Locks!NextKind
  <2>1. /\ kind = "mutex" /\ kind' = "shared" /\ left' = [t \in Readers \cup {writer} |-> Rounds]
        /\ pc' = pc /\ count' = count /\ reg' = reg
        /\ \A t \in Readers \cup {writer} : left[t] = 0
    BY <1>2 DEF Locks!NextKind, Locks!Members
  <2>2. \A t \in Readers \cup {writer} : pc[t] = "out"
    <3>1. \A t \in Readers \cup {writer} : pc[t] # "in" /\ pc[t] \in {"out", "in"}
      BY <2>1 DEF LocksInv
    <3> QED
      BY <3>1
  <2>3. left' \in [Readers \cup {writer} -> 0..Rounds]
    BY <2>1, LocksBounds
  <2> QED
    BY <2>1, <2>2, <2>3 DEF LocksInv, Locks!TypeOK, Locks!Members
<1>3. CASE Locks!Try
  <2>1. /\ kind = "diy" /\ left[writer] > 0 /\ pc[writer] \in {"out", "tested"}
        /\ kind' = kind /\ left' = left /\ count' = count /\ reg' = reg /\ raced' = raced
        /\ \E to \in {"dead", "tested", "in"} : pc' = [pc EXCEPT ![writer] = to]
    BY <1>3 DEF Locks!Try, Locks!Move, Locks!Alive
  <2>2. \A s \in Readers : pc'[s] = pc[s]
    BY <2>1, LocksBounds DEF LocksInv, Locks!TypeOK, Locks!Members
  <2>3. Counted' = Counted /\ Locks!AtCounter' = Locks!AtCounter
    BY <2>2 DEF Counted, Locks!AtCounter
  <2>4. \A s \in Readers \cup {writer} :
           pc'[s] \in {"in", "loaded up", "loaded down"} => left'[s] > 0
    BY <2>1, <2>2 DEF LocksInv
  <2> QED
    BY <2>1, <2>3, <2>4 DEF LocksInv, Locks!TypeOK, Locks!Members
<1>4. CASE Locks!Unlock
  <2>1. /\ kind = "diy" /\ pc' = [pc EXCEPT ![writer] = "out"]
        /\ left' = [left EXCEPT ![writer] = 0]
        /\ kind' = kind /\ count' = count /\ reg' = reg /\ raced' = raced
    BY <1>4 DEF Locks!Unlock, Locks!Move, Locks!Alive
  <2>2. \A s \in Readers : pc'[s] = pc[s]
    BY <2>1, LocksBounds DEF LocksInv, Locks!TypeOK, Locks!Members
  <2>3. Counted' = Counted /\ Locks!AtCounter' = Locks!AtCounter
    BY <2>2 DEF Counted, Locks!AtCounter
  <2>4. left' \in [Readers \cup {writer} -> 0..Rounds]
    BY <2>1, LocksBounds, LocksTypes
  <2>5. \A s \in Readers \cup {writer} :
           pc'[s] \in {"in", "loaded up", "loaded down"} => left'[s] > 0
    BY <2>1, <2>2, LocksTypes DEF LocksInv, Locks!TypeOK, Locks!Members
  <2> QED
    BY <2>1, <2>3, <2>4, <2>5 DEF LocksInv, Locks!TypeOK, Locks!Members
<1>5. ASSUME NEW t \in Readers \cup {writer}, Locks!Enter(t) \/ Locks!Leave(t)
      PROVE  LocksInv'
  BY <1>5, EnterStep, LeaveStep
<1>6. ASSUME NEW t \in Readers, Locks!Load(t) \/ Locks!Increment(t) \/ Locks!Decrement(t)
      PROVE  LocksInv'
  BY <1>6, LoadStep, IncrementStep, DecrementStep
<1> QED
  BY <1>1, <1>2, <1>3, <1>4, <1>5, <1>6 DEF LocksNext, Locks!Reads, Locks!Writes

LEMMA LocksExcluded == LocksInv => Locks!Excluded
<1> SUFFICES ASSUME LocksInv PROVE Locks!Excluded
  OBVIOUS
<1>1. Locks!Inside = {t \in Readers \cup {writer} : pc[t] = "in"}
  BY DEF Locks!Inside, Locks!Members
<1> \A S : Locks!Cardinality(S) = Cardinality(S)
  BY DEF Locks!Cardinality, Cardinality
<1>2. ASSUME kind # "diy", writer \in Locks!Inside PROVE Locks!Inside = {writer}
  BY <1>1, <1>2 DEF LocksInv
<1>3. ASSUME kind = "mutex" PROVE Cardinality(Locks!Inside) <= 1
  <2>1. \A s, t \in Locks!Inside : s = t
    BY <1>1, <1>3 DEF LocksInv
  <2>2. CASE Locks!Inside = {}
    BY <2>2, FS_EmptySet
  <2>3. CASE Locks!Inside # {}
    <3>1. PICK t : Locks!Inside = {t}
      BY <2>1, <2>3
    <3>2. Cardinality({t}) = 1
      BY FS_Singleton
    <3> QED
      BY <3>1, <3>2
  <2> QED
    BY <2>2, <2>3
<1>4. ASSUME kind = "diy", ~raced PROVE count = Cardinality(Counted)
  BY <1>4 DEF LocksInv
<1> QED
  BY <1>2, <1>3, <1>4 DEF Locks!Excluded, Counted
-----------------------------------------------------------------------------
(* The thread server.  A descriptor is one client's; the entry a worker    *)
(* points at holds the descriptor of its client; and the entry main is at  *)
(* is free until it has stored into it, and is nobody's until it has made  *)
(* the thread for it.                                                      *)
ThreadTypes ==
    /\ acceptfd \in [0..(NSlots - 1) -> (1..ThreadFds) \cup {0}]
    /\ up \in BOOLEAN /\ pc \in {"scan", "accept", "store", "create"} /\ i \in 0..(NSlots - 1)
    /\ connfd \in (1..ThreadFds) \cup {0} /\ opened \in 0..ThreadFds
    /\ fd \in [Guests -> (1..ThreadFds) \cup {0}]
    /\ info \in [Guests -> 0..(NSlots - 1)]
    /\ worker \in [Guests -> {"none", "read", "write", "done", "failed"}]
    /\ peer \in [Guests -> {"away", "waiting", "talking", "left"}]
    /\ inbox \in [Guests -> 0..2] /\ broken \subseteq Guests

Uses(c) == worker[c] \in {"read", "write", "failed"}

EntriesUsed ==
    \A s \in 0..(NSlots - 1) :
        acceptfd[s] # 0 <=> (\E c \in Guests : Uses(c) /\ info[c] = s) \/ (pc = "create" /\ i = s)

OwnEntry == \A c \in Guests : Uses(c) => fd[c] # 0 /\ acceptfd[info[c]] = fd[c]

OwnFd ==
    /\ \A c \in Guests : fd[c] <= opened
    /\ \A c, d \in Guests : fd[c] = fd[d] /\ fd[c] # 0 => c = d
    /\ \A c \in Guests : peer[c] \in {"away", "waiting"} => fd[c] = 0 /\ worker[c] = "none"

MainsEntry ==
    /\ pc \in {"accept", "store"} => acceptfd[i] = 0
    /\ pc = "create" => acceptfd[i] = connfd
    /\ pc \in {"store", "create"} =>
         connfd # 0 /\ \A c \in Guests : fd[c] = connfd => worker[c] = "none"

ThreadInv == ThreadTypes /\ EntriesUsed /\ OwnEntry /\ OwnFd /\ MainsEntry

LEMMA ThreadBounds == NSlots \in Nat /\ NSlots > 0 /\ ThreadFds \in Nat
  BY ExercisesAssumption DEF ExercisesAssumption

LEMMA ThreadInit == ASSUME Thread!Init PROVE ThreadInv
<1>1. opened \in 0..ThreadFds
  BY ExercisesAssumption DEF ExercisesAssumption, Thread!Init
<1>2. /\ acceptfd = [s \in 0..(NSlots - 1) |-> 0]
      /\ up = TRUE /\ pc = "scan" /\ i = 0 /\ connfd = 0
      /\ fd = [c \in Guests |-> 0] /\ info = [c \in Guests |-> 0]
      /\ worker = [c \in Guests |-> "none"] /\ peer = [c \in Guests |-> "away"]
      /\ inbox = [c \in Guests |-> 0] /\ broken = {}
  BY DEF Thread!Init, Thread!Slots, Thread!NoFd
<1>3. 0 \in 0..(NSlots - 1)
  BY ThreadBounds
<1>4. ThreadTypes
  BY <1>1, <1>2, <1>3 DEF ThreadTypes
<1> QED
  BY <1>1, <1>2, <1>4, ThreadBounds
    DEF ThreadInv, EntriesUsed, OwnEntry, OwnFd, MainsEntry, Uses

(* What the clients do moves no descriptor and no entry.                   *)
LEMMA ThreadClients ==
  ASSUME ThreadInv, NEW c \in Guests, Thread!Connect(c) \/ Thread!Send(c) \/ Thread!Hangup(c)
  PROVE  ThreadInv'
<1>1. /\ acceptfd' = acceptfd /\ up' = up /\ pc' = pc /\ i' = i /\ connfd' = connfd
      /\ opened' = opened /\ fd' = fd /\ info' = info /\ worker' = worker /\ broken' = broken
  BY DEF Thread!Connect, Thread!Send, Thread!Hangup, Thread!mainVars
<1>2. inbox' \in [Guests -> 0..2]
  <2>1. CASE Thread!Send(c)
    <3>1. inbox[c] \in 0..2 /\ inbox[c] < 2 /\ inbox' = [inbox EXCEPT ![c] = inbox[c] + 1]
      BY <2>1 DEF Thread!Send, ThreadInv, ThreadTypes
    <3>2. inbox[c] + 1 \in 0..2
      BY <3>1
    <3> QED
      BY <3>1, <3>2 DEF ThreadInv, ThreadTypes
  <2>2. CASE Thread!Connect(c)
    BY <2>2 DEF Thread!Connect, ThreadInv, ThreadTypes
  <2>3. CASE Thread!Hangup(c)
    <3>1. inbox \in [Guests -> 0..2] /\ inbox' \in {inbox, [inbox EXCEPT ![c] = 0]}
      BY <2>3 DEF Thread!Hangup, ThreadInv, ThreadTypes
    <3> QED
      BY <3>1
  <2> QED
    BY <2>1, <2>2, <2>3
<1>3. /\ peer' \in [Guests -> {"away", "waiting", "talking", "left"}]
      /\ \A d \in Guests : peer'[d] \in {"away", "waiting"} => peer[d] \in {"away", "waiting"}
  BY DEF Thread!Connect, Thread!Send, Thread!Hangup, ThreadInv, ThreadTypes
<1> QED
  BY <1>1, <1>2, <1>3
    DEF ThreadInv, ThreadTypes, EntriesUsed, OwnEntry, OwnFd, MainsEntry, Uses

LEMMA ThreadScan == ASSUME ThreadInv, Thread!Scan PROVE ThreadInv'
<1>1. /\ pc = "scan"
      /\ acceptfd' = acceptfd /\ up' = up /\ connfd' = connfd /\ opened' = opened /\ fd' = fd
      /\ info' = info /\ worker' = worker /\ peer' = peer /\ inbox' = inbox /\ broken' = broken
      /\ \/ acceptfd[i] = 0 /\ pc' = "accept" /\ i' = i
         \/ pc' = pc /\ i' = IF i = NSlots - 1 THEN i ELSE i + 1
  BY DEF Thread!Scan, Thread!clientVars, Thread!NoFd
<1>2. i' \in 0..(NSlots - 1)
  BY <1>1, ThreadBounds DEF ThreadInv, ThreadTypes
<1> QED
  BY <1>1, <1>2 DEF ThreadInv, ThreadTypes, EntriesUsed, OwnEntry, OwnFd, MainsEntry, Uses

LEMMA ThreadAccept == ASSUME ThreadInv, NEW c \in Guests, Thread!Accept(c) PROVE ThreadInv'
<1>1. /\ pc = "accept" /\ pc' = "store" /\ peer[c] = "waiting" /\ opened < ThreadFds
      /\ peer' = [peer EXCEPT ![c] = "talking"]
      /\ opened' = opened + 1 /\ connfd' = opened + 1 /\ fd' = [fd EXCEPT ![c] = opened + 1]
      /\ acceptfd' = acceptfd /\ up' = up /\ i' = i /\ info' = info /\ worker' = worker
      /\ inbox' = inbox /\ broken' = broken
  BY DEF Thread!Accept
<1>2. opened \in 0..ThreadFds /\ fd \in [Guests -> (1..ThreadFds) \cup {0}]
      /\ \A d \in Guests : fd[d] <= opened /\ fd[d] \in Int
  BY ThreadBounds DEF ThreadInv, ThreadTypes, OwnFd
<1>3. /\ opened + 1 \in 1..ThreadFds /\ opened + 1 \in 0..ThreadFds /\ opened + 1 # 0
      /\ \A d \in Guests : fd[d] <= opened + 1 /\ fd[d] # opened + 1
  BY <1>1, <1>2, ThreadBounds
<1>4. fd[c] = 0 /\ worker[c] = "none"
  BY <1>1 DEF ThreadInv, OwnFd
<1>5. ThreadTypes'
  BY <1>1, <1>2, <1>3 DEF ThreadInv, ThreadTypes
<1>6. EntriesUsed' /\ OwnEntry'
  BY <1>1, <1>2, <1>4 DEF ThreadInv, ThreadTypes, EntriesUsed, OwnEntry, Uses
<1>7. OwnFd'
  <2>1. fd'[c] = opened + 1 /\ \A d \in Guests : d # c => fd'[d] = fd[d]
    BY <1>1, <1>2
  <2>2. \A d \in Guests : fd'[d] <= opened'
    BY <1>1, <1>3, <2>1, <1>2
  <2>3. \A d, e \in Guests : fd'[d] = fd'[e] /\ fd'[d] # 0 => d = e
    BY <1>3, <2>1 DEF ThreadInv, OwnFd
  <2>4. \A d \in Guests :
           peer'[d] \in {"away", "waiting"} => fd'[d] = 0 /\ worker'[d] = "none"
    BY <1>1, <2>1 DEF ThreadInv, ThreadTypes, OwnFd
  <2> QED
    BY <2>2, <2>3, <2>4 DEF OwnFd
<1>8. MainsEntry'
  BY <1>1, <1>2, <1>3, <1>4 DEF ThreadInv, MainsEntry
<1> QED
  BY <1>5, <1>6, <1>7, <1>8 DEF ThreadInv

LEMMA ThreadStore == ASSUME ThreadInv, Thread!Store PROVE ThreadInv'
<1>1. /\ pc = "store" /\ pc' = "create" /\ acceptfd' = [acceptfd EXCEPT ![i] = connfd]
      /\ up' = up /\ i' = i /\ connfd' = connfd /\ opened' = opened /\ fd' = fd
      /\ info' = info /\ worker' = worker /\ peer' = peer /\ inbox' = inbox /\ broken' = broken
  BY DEF Thread!Store, Thread!clientVars
<1>2. acceptfd[i] = 0 /\ connfd # 0 /\ \A c \in Guests : Uses(c) => info[c] # i
  BY <1>1 DEF ThreadInv, MainsEntry, OwnEntry
<1>3. ThreadTypes'
  BY <1>1 DEF ThreadInv, ThreadTypes
<1>4. EntriesUsed'
  BY <1>1, <1>2 DEF ThreadInv, ThreadTypes, EntriesUsed, Uses
<1>5. OwnEntry' /\ OwnFd'
  BY <1>1, <1>2 DEF ThreadInv, ThreadTypes, OwnEntry, OwnFd, Uses
<1>6. MainsEntry'
  BY <1>1, <1>2 DEF ThreadInv, ThreadTypes, MainsEntry
<1> QED
  BY <1>3, <1>4, <1>5, <1>6 DEF ThreadInv

LEMMA ThreadCreate == ASSUME ThreadInv, NEW c \in Guests, Thread!Create(c) PROVE ThreadInv'
<1>1. /\ pc = "create" /\ pc' = "scan" /\ fd[c] = connfd /\ i' = 0
      /\ \E w \in {"read", "failed"} : worker' = [worker EXCEPT ![c] = w]
      /\ info' = [info EXCEPT ![c] = i]
      /\ acceptfd' = acceptfd /\ up' = up /\ connfd' = connfd /\ opened' = opened /\ fd' = fd
      /\ peer' = peer /\ inbox' = inbox /\ broken' = broken
  BY DEF Thread!Create, Thread!clientVars
<1>2. acceptfd[i] = fd[c] /\ fd[c] # 0 /\ worker[c] = "none"
  BY <1>1 DEF ThreadInv, MainsEntry
<1>3. ThreadTypes'
  BY <1>1, ThreadBounds DEF ThreadInv, ThreadTypes
<1>4. /\ worker'[c] \in {"read", "failed"} /\ info'[c] = i
      /\ \A d \in Guests : d # c => worker'[d] = worker[d] /\ info'[d] = info[d]
  BY <1>1 DEF ThreadInv, ThreadTypes
<1>5. \A d \in Guests : Uses(d)' <=> Uses(d) \/ d = c
  BY <1>2, <1>4 DEF Uses
<1>6. EntriesUsed'
  <2>1. ASSUME NEW s \in 0..(NSlots - 1)
        PROVE  acceptfd'[s] # 0 <=> \E d \in Guests : Uses(d)' /\ info'[d] = s
    BY <1>1, <1>2, <1>4, <1>5 DEF ThreadInv, EntriesUsed, Uses
  <2> QED
    BY <1>1, <2>1 DEF EntriesUsed, Uses
<1>7. OwnEntry'
  BY <1>1, <1>2, <1>4, <1>5 DEF ThreadInv, OwnEntry, Uses
<1>8. OwnFd' /\ MainsEntry'
  BY <1>1, <1>2, <1>4 DEF ThreadInv, OwnFd, MainsEntry
<1> QED
  BY <1>3, <1>6, <1>7, <1>8 DEF ThreadInv

LEMMA ThreadRead == ASSUME ThreadInv, NEW c \in Guests, Thread!Read(c) PROVE ThreadInv'
<1>1. /\ worker[c] = "read" /\ worker' = [worker EXCEPT ![c] = "write"]
      /\ acceptfd' = acceptfd /\ up' = up /\ pc' = pc /\ i' = i /\ connfd' = connfd
      /\ opened' = opened /\ fd' = fd /\ info' = info /\ peer' = peer /\ broken' = broken
  BY DEF Thread!Read, Thread!mainVars
<1>2. PICK d \in Guests : inbox[d] > 0 /\ inbox' = [inbox EXCEPT ![d] = inbox[d] - 1]
  BY DEF Thread!Read
<1>3. inbox' \in [Guests -> 0..2]
  <2>1. inbox[d] \in 0..2 /\ inbox \in [Guests -> 0..2]
    BY DEF ThreadInv, ThreadTypes
  <2>2. inbox[d] - 1 \in 0..2
    BY <1>2, <2>1
  <2> QED
    BY <1>2, <2>1, <2>2
<1>4. /\ \A e \in Guests : Uses(e)' <=> Uses(e)
      /\ \A e \in Guests : worker'[e] = "none" <=> worker[e] = "none"
  BY <1>1 DEF ThreadInv, ThreadTypes, Uses
<1>5. ThreadTypes'
  BY <1>1, <1>3 DEF ThreadInv, ThreadTypes
<1> QED
  BY <1>1, <1>4, <1>5 DEF ThreadInv, EntriesUsed, OwnEntry, OwnFd, MainsEntry, Uses

LEMMA ThreadReadEnd == ASSUME ThreadInv, NEW c \in Guests, Thread!ReadEnd(c) PROVE ThreadInv'
<1>1. /\ worker[c] = "read" /\ worker' = [worker EXCEPT ![c] = "done"]
      /\ acceptfd' = [acceptfd EXCEPT ![info[c]] = 0]
      /\ up' = up /\ pc' = pc /\ i' = i /\ connfd' = connfd /\ opened' = opened /\ fd' = fd
      /\ info' = info /\ peer' = peer /\ inbox' = inbox /\ broken' = broken
  BY DEF Thread!ReadEnd, Thread!mainVars, Thread!clientVars, Thread!NoFd
<1>2. Uses(c) /\ fd[c] # 0 /\ acceptfd[info[c]] = fd[c]
  BY <1>1 DEF ThreadInv, OwnEntry, Uses
<1>3. /\ \A d \in Guests : Uses(d)' <=> Uses(d) /\ d # c
      /\ \A d \in Guests : d # c => worker'[d] = worker[d]
      /\ worker'[c] = "done"
  BY <1>1 DEF ThreadInv, ThreadTypes, Uses
<1>4. \A d \in Guests : Uses(d) /\ info[d] = info[c] => d = c
  BY <1>2 DEF ThreadInv, OwnEntry, OwnFd
<1>5. pc = "create" => i # info[c]
  BY <1>1, <1>2 DEF ThreadInv, MainsEntry
<1>6. /\ acceptfd'[info[c]] = 0
      /\ \A s \in 0..(NSlots - 1) : s # info[c] => acceptfd'[s] = acceptfd[s]
  BY <1>1 DEF ThreadInv, ThreadTypes
<1>7. ThreadTypes'
  BY <1>1 DEF ThreadInv, ThreadTypes
<1>8. EntriesUsed'
  <2>1. ASSUME NEW s \in 0..(NSlots - 1)
        PROVE  acceptfd'[s] # 0 <=> \/ \E d \in Guests : Uses(d)' /\ info'[d] = s
                                    \/ pc' = "create" /\ i' = s
    <3>1. CASE s = info[c]
      BY <1>1, <1>3, <1>4, <1>5, <1>6, <3>1
    <3>2. CASE s # info[c]
      BY <1>1, <1>3, <1>6, <3>2 DEF ThreadInv, EntriesUsed
    <3> QED
      BY <3>1, <3>2
  <2> QED
    BY <2>1 DEF EntriesUsed, Uses
<1>9. OwnEntry'
  <2>1. ASSUME NEW d \in Guests, Uses(d)' PROVE fd'[d] # 0 /\ acceptfd'[info'[d]] = fd'[d]
    <3>1. Uses(d) /\ d # c
      BY <1>3, <2>1
    <3>2. info[d] # info[c] /\ info[d] \in 0..(NSlots - 1)
      BY <1>4, <3>1 DEF ThreadInv, ThreadTypes
    <3> QED
      BY <1>1, <1>6, <3>1, <3>2 DEF ThreadInv, OwnEntry
  <2> QED
    BY <2>1 DEF OwnEntry, Uses
<1>10. OwnFd'
  BY <1>1, <1>2, <1>3 DEF ThreadInv, OwnFd, Uses
<1>11. MainsEntry'
  BY <1>1, <1>3, <1>5, <1>6 DEF ThreadInv, ThreadTypes, MainsEntry
<1> QED
  BY <1>7, <1>8, <1>9, <1>10, <1>11 DEF ThreadInv

LEMMA ThreadWrite == ASSUME ThreadInv, NEW c \in Guests, Thread!Write(c) PROVE ThreadInv'
<1>1. /\ worker[c] = "write" /\ worker' = [worker EXCEPT ![c] = "read"]
      /\ acceptfd' = acceptfd /\ pc' = pc /\ i' = i /\ connfd' = connfd
      /\ opened' = opened /\ fd' = fd /\ info' = info /\ peer' = peer /\ inbox' = inbox
  BY DEF Thread!Write, Thread!mainVars, Thread!clientVars
<1>2. up' \in BOOLEAN /\ broken' \subseteq Guests
  BY DEF Thread!Write, ThreadInv, ThreadTypes
<1>3. /\ \A e \in Guests : Uses(e)' <=> Uses(e)
      /\ \A e \in Guests : worker'[e] = "none" <=> worker[e] = "none"
  BY <1>1 DEF ThreadInv, ThreadTypes, Uses
<1>4. ThreadTypes'
  BY <1>1, <1>2 DEF ThreadInv, ThreadTypes
<1> QED
  BY <1>1, <1>3, <1>4 DEF ThreadInv, EntriesUsed, OwnEntry, OwnFd, MainsEntry, Uses

LEMMA ThreadStep == ASSUME ThreadInv, [Thread!Next]_(Thread!vars) PROVE ThreadInv'
<1>1. CASE UNCHANGED Thread!vars
  BY <1>1 DEF Thread!vars, Thread!mainVars, Thread!clientVars, ThreadInv, ThreadTypes,
    EntriesUsed, OwnEntry, OwnFd, MainsEntry, Uses
<1>2. CASE Thread!Main
  <2>1. CASE Thread!AcceptFails
    <3>1. /\ pc = "accept" /\ up' = FALSE
          /\ acceptfd' = acceptfd /\ pc' = pc /\ i' = i /\ connfd' = connfd
          /\ opened' = opened /\ fd' = fd /\ info' = info /\ worker' = worker
          /\ peer' = peer /\ inbox' = inbox /\ broken' = broken
      BY <2>1 DEF Thread!AcceptFails, Thread!clientVars
    <3>2. ThreadTypes'
      BY <3>1 DEF ThreadInv, ThreadTypes
    <3> QED
      BY <3>1, <3>2 DEF ThreadInv, EntriesUsed, OwnEntry, OwnFd, MainsEntry, Uses
  <2> QED
    BY <1>2, <2>1, ThreadScan, ThreadAccept, ThreadStore, ThreadCreate DEF Thread!Main
<1>3. ASSUME NEW c \in Guests, Thread!Work(c) PROVE ThreadInv'
  BY <1>3, ThreadRead, ThreadReadEnd, ThreadWrite DEF Thread!Work
<1> QED
  BY <1>1, <1>2, <1>3, ThreadClients DEF Thread!Next

LEMMA ThreadHolds == ThreadInv => Thread!TypeOK /\ Thread!OwnClient /\ Thread!SlotsUsed
<1> SUFFICES ASSUME ThreadInv PROVE Thread!TypeOK /\ Thread!OwnClient /\ Thread!SlotsUsed
  OBVIOUS
<1>1. Thread!TypeOK
  BY DEF ThreadInv, ThreadTypes, Thread!TypeOK, Thread!Slots, Thread!NoFd, Thread!Fds
<1>2. Thread!OwnClient
  BY DEF ThreadInv, OwnEntry, Uses, Thread!OwnClient, Thread!Running, Thread!Reading
<1>3. Thread!SlotsUsed
  BY DEF ThreadInv, EntriesUsed, Uses, Thread!SlotsUsed, Thread!Slots, Thread!NoFd,
    Thread!Running
<1> QED
  BY <1>1, <1>2, <1>3
-----------------------------------------------------------------------------
(* The process server.  A client that has not been accepted has no child   *)
(* and its connection no holder; the one just accepted is held by the      *)
(* parent alone until it forks; and what is left in the parent's hands is  *)
(* of clients that never get a child, whatever later children inherit.     *)
ProcessTypes ==
    /\ sa_handler \in {"SIG_DFL", "SIG_IGN", "stray"}
    /\ pc \in {"accept", "fork", "close", "dead"} /\ cur \in Guests \cup {parent}
    /\ child \in [Guests -> {"none", "start", "read", "write", "zombie", "gone"}]
    /\ holds \in [Guests \cup {parent} -> SUBSET Guests]
    /\ listening \subseteq Guests \cup {parent}
    /\ peer \in [Guests -> {"away", "waiting", "talking", "left"}]
    /\ broken \subseteq Guests

RequestTypes ==
    /\ inbox \in [Guests -> 0..MaxRequests] /\ sent \in [Guests -> 0..MaxRequests]
    /\ \A c \in Guests : inbox[c] <= sent[c]

Lives(c) == child[c] \in {"start", "read", "write"}

NotAccepted ==
    \A c \in Guests : peer[c] \in {"away", "waiting"} =>
        child[c] = "none" /\ \A p \in Guests \cup {parent} : c \notin holds[p]

JustAccepted ==
    /\ pc \in {"fork", "close"} => cur \in Guests
    /\ pc = "fork" =>
         /\ child[cur] = "none" /\ peer[cur] \notin {"away", "waiting"}
         /\ \A p \in Guests \cup {parent} : cur \in holds[p] => p = parent

OwnHolder ==
    \A c \in Guests, p \in Guests \cup {parent} :
        Lives(c) /\ c \in holds[p] => p = c \/ (p = parent /\ cur = c)

ParentsOwn ==
    \A c \in holds[parent] : (cur = c /\ pc \in {"fork", "close"}) \/ child[c] = "none"

ProcessInv ==
    /\ ProcessTypes /\ RequestTypes /\ Cardinality(holds[parent]) <= ProcessFds
    /\ NotAccepted /\ JustAccepted /\ OwnHolder /\ ParentsOwn

LEMMA ProcessBounds ==
  ProcessFds \in Nat /\ MaxRequests \in Nat /\ parent \notin Guests /\ IsFiniteSet(Guests)
  BY ExercisesAssumption DEF ExercisesAssumption

LEMMA ProcessInit == ASSUME Process!Init PROVE ProcessInv
<1>1. /\ sa_handler \in {"SIG_DFL", "SIG_IGN", "stray"} /\ pc = "accept" /\ cur = parent
      /\ child = [c \in Guests |-> "none"] /\ holds = [p \in Guests \cup {parent} |-> {}]
      /\ listening = {parent} /\ peer = [c \in Guests |-> "away"]
      /\ inbox = [c \in Guests |-> 0] /\ sent = [c \in Guests |-> 0] /\ broken = {}
  BY DEF Process!Init, Process!Procs
<1>2. Cardinality(holds[parent]) <= ProcessFds
  <2>1. holds[parent] = {}
    BY <1>1
  <2> QED
    BY <2>1, FS_EmptySet, ProcessBounds
<1>3. RequestTypes
  BY <1>1, ProcessBounds DEF RequestTypes
<1>4. ProcessTypes
  BY <1>1 DEF ProcessTypes
<1> QED
  BY <1>1, <1>2, <1>3, <1>4
    DEF ProcessInv, NotAccepted, JustAccepted, OwnHolder, ParentsOwn, Lives

(* A subset of what the parent holds is no larger than what it holds.      *)
LEMMA HoldsLess ==
  ASSUME ProcessInv, NEW S \in SUBSET holds[parent]
  PROVE  Cardinality(S) <= ProcessFds
<1>1. holds[parent] \subseteq Guests
  BY DEF ProcessInv, ProcessTypes
<1>2. IsFiniteSet(holds[parent])
  BY <1>1, FS_Subset, ProcessBounds
<1>3. /\ Cardinality(S) <= Cardinality(holds[parent])
      /\ Cardinality(S) \in Nat /\ Cardinality(holds[parent]) \in Nat
  BY <1>2, FS_Subset, FS_CardinalityType
<1> QED
  BY <1>3, ProcessBounds DEF ProcessInv

LEMMA ProcessClients ==
  ASSUME ProcessInv, NEW c \in Guests, Process!Connect(c) \/ Process!Send(c) \/ Process!Leave(c)
  PROVE  ProcessInv'
<1>1. /\ sa_handler' = sa_handler /\ pc' = pc /\ cur' = cur /\ child' = child
      /\ holds' = holds /\ listening' = listening /\ broken' = broken
  BY DEF Process!Connect, Process!Send, Process!Leave, Process!parentVars
<1>2. RequestTypes'
  <2> USE DEF RequestTypes
  <2>1. RequestTypes
    BY DEF ProcessInv
  <2>2. CASE Process!Connect(c)
    BY <2>1, <2>2 DEF Process!Connect
  <2>3. CASE Process!Leave(c)
    <3>1. sent' = sent /\ inbox' \in {inbox, [inbox EXCEPT ![c] = 0]}
      BY <2>3 DEF Process!Leave
    <3>2. \A d \in Guests : inbox'[d] \in {inbox[d], 0} /\ 0 <= sent[d]
      BY <2>1, <3>1
    <3>3. inbox' \in [Guests -> 0..MaxRequests]
      BY <2>1, <3>1, ProcessBounds
    <3> QED
      BY <2>1, <3>1, <3>2, <3>3
  <2>4. CASE Process!Send(c)
    <3>1. /\ sent[c] < MaxRequests /\ sent' = [sent EXCEPT ![c] = sent[c] + 1]
          /\ inbox' = [inbox EXCEPT ![c] = inbox[c] + 1]
      BY <2>4 DEF Process!Send
    <3>2. sent[c] \in 0..MaxRequests /\ inbox[c] \in 0..MaxRequests /\ inbox[c] <= sent[c]
      BY <2>1
    <3>3. sent[c] + 1 \in 0..MaxRequests /\ inbox[c] + 1 \in 0..MaxRequests
          /\ inbox[c] + 1 <= sent[c] + 1
      BY <3>1, <3>2, ProcessBounds
    <3> QED
      BY <2>1, <3>1, <3>3
  <2> QED
    BY <2>2, <2>3, <2>4
<1>3. /\ peer' \in [Guests -> {"away", "waiting", "talking", "left"}]
      /\ \A d \in Guests : peer'[d] \in {"away", "waiting"} => peer[d] \in {"away", "waiting"}
  BY DEF Process!Connect, Process!Send, Process!Leave, ProcessInv, ProcessTypes
<1>4. ProcessTypes'
  BY <1>1, <1>3 DEF ProcessInv, ProcessTypes
<1> QED
  BY <1>1, <1>2, <1>3, <1>4
    DEF ProcessInv, NotAccepted, JustAccepted, OwnHolder, ParentsOwn, Lives

LEMMA ProcessAccept == ASSUME ProcessInv, NEW c \in Guests, Process!Accept(c) PROVE ProcessInv'
<1>1. /\ pc = "accept" /\ pc' = "fork" /\ peer[c] = "waiting" /\ cur' = c
      /\ peer' = [peer EXCEPT ![c] = "talking"]
      /\ holds' = [holds EXCEPT ![parent] = holds[parent] \cup {c}]
      /\ sa_handler' = sa_handler /\ child' = child /\ listening' = listening
      /\ inbox' = inbox /\ sent' = sent /\ broken' = broken
  BY DEF Process!Accept
<1>2. child[c] = "none" /\ \A p \in Guests \cup {parent} : c \notin holds[p]
  BY <1>1 DEF ProcessInv, NotAccepted
<1>3. /\ holds'[parent] = holds[parent] \cup {c}
      /\ \A p \in Guests \cup {parent} : p # parent => holds'[p] = holds[p]
  BY <1>1 DEF ProcessInv, ProcessTypes
<1>4. Cardinality(holds'[parent]) <= ProcessFds
  <2>1. Cardinality(holds[parent]) < ProcessFds
    <3>1. Process!Cardinality(holds[parent]) = Cardinality(holds[parent])
      BY DEF Process!Cardinality, Cardinality
    <3> QED
      BY <3>1 DEF Process!Accept
  <2>2. IsFiniteSet(holds[parent])
    <3>1. holds[parent] \subseteq Guests
      BY DEF ProcessInv, ProcessTypes
    <3> QED
      BY <3>1, FS_Subset, ProcessBounds
  <2>3. c \notin holds[parent]
    BY <1>2
  <2>4. Cardinality(holds[parent] \cup {c}) = Cardinality(holds[parent]) + 1
        /\ Cardinality(holds[parent]) \in Nat
    BY <2>2, <2>3, FS_AddElement, FS_CardinalityType
  <2> QED
    BY <1>3, <2>1, <2>4, ProcessBounds
<1>5. ProcessTypes' /\ RequestTypes'
  BY <1>1 DEF ProcessInv, ProcessTypes, RequestTypes
<1>6. \A d \in holds[parent] : child[d] = "none"
  BY <1>1 DEF ProcessInv, ParentsOwn
<1>7. NotAccepted' /\ JustAccepted' /\ ParentsOwn'
  BY <1>1, <1>2, <1>3, <1>6 DEF ProcessInv, ProcessTypes, NotAccepted, JustAccepted, ParentsOwn
<1>8. OwnHolder'
  <2>1. ASSUME NEW d \in Guests, NEW p \in Guests \cup {parent}, Lives(d)', d \in holds'[p]
        PROVE  p = d
    <3>1. Lives(d) /\ d # c
      BY <1>1, <1>2, <2>1 DEF Lives
    <3>2. p # parent
      BY <1>3, <1>6, <2>1, <3>1 DEF Lives
    <3> QED
      BY <1>3, <2>1, <3>1, <3>2 DEF ProcessInv, OwnHolder
  <2> QED
    BY <2>1 DEF OwnHolder, Lives
<1> QED
  BY <1>4, <1>5, <1>7, <1>8 DEF ProcessInv

LEMMA ProcessFork == ASSUME ProcessInv, Process!Fork PROVE ProcessInv'
<1>1. /\ pc = "fork" /\ pc' = "close" /\ child' = [child EXCEPT ![cur] = "start"]
      /\ holds' = [holds EXCEPT ![cur] = holds[parent]] /\ listening' = listening \cup {cur}
      /\ sa_handler' = sa_handler /\ cur' = cur /\ peer' = peer
      /\ inbox' = inbox /\ sent' = sent /\ broken' = broken
  BY DEF Process!Fork, Process!clientVars
<1>2. /\ cur \in Guests /\ cur # parent /\ child[cur] = "none"
      /\ peer[cur] \notin {"away", "waiting"}
      /\ \A p \in Guests \cup {parent} : cur \in holds[p] => p = parent
  BY <1>1, ProcessBounds DEF ProcessInv, JustAccepted
<1>3. /\ holds'[cur] = holds[parent] /\ holds[parent] \subseteq Guests
      /\ \A p \in Guests \cup {parent} : p # cur => holds'[p] = holds[p]
      /\ child'[cur] = "start" /\ \A c \in Guests : c # cur => child'[c] = child[c]
  BY <1>1, <1>2 DEF ProcessInv, ProcessTypes
<1>4. ProcessTypes' /\ RequestTypes'
  BY <1>1, <1>2 DEF ProcessInv, ProcessTypes, RequestTypes
<1>5. Cardinality(holds'[parent]) <= ProcessFds
  BY <1>2, <1>3 DEF ProcessInv
<1>6. \A d \in holds[parent] : d # cur => child[d] = "none"
  BY <1>1, <1>3 DEF ProcessInv, ParentsOwn
<1>7. NotAccepted'
  <2>1. ASSUME NEW c \in Guests, peer'[c] \in {"away", "waiting"}
        PROVE  child'[c] = "none" /\ \A p \in Guests \cup {parent} : c \notin holds'[p]
    <3>1. child[c] = "none" /\ \A p \in Guests \cup {parent} : c \notin holds[p]
      BY <1>1, <2>1 DEF ProcessInv, NotAccepted
    <3>2. c # cur
      BY <1>1, <1>2, <2>1
    <3> QED
      BY <1>3, <3>1, <3>2
  <2> QED
    BY <2>1 DEF NotAccepted
<1>8. JustAccepted' /\ ParentsOwn'
  BY <1>1, <1>2, <1>3, <1>6 DEF JustAccepted, ParentsOwn
<1>9. OwnHolder'
  <2>1. ASSUME NEW c \in Guests, NEW p \in Guests \cup {parent}, Lives(c)', c \in holds'[p]
        PROVE  p = c \/ (p = parent /\ cur = c)
    <3>1. CASE c = cur
      BY <1>2, <1>3, <2>1, <3>1
    <3>2. CASE c # cur
      <4>1. Lives(c) /\ child[c] # "none"
        BY <1>3, <2>1, <3>2 DEF Lives
      <4>2. p # cur
        BY <1>3, <1>6, <2>1, <3>2, <4>1
      <4> QED
        BY <1>3, <2>1, <4>1, <4>2 DEF ProcessInv, OwnHolder
    <3> QED
      BY <3>1, <3>2
  <2> QED
    BY <1>1, <2>1 DEF OwnHolder, Lives
<1> QED
  BY <1>4, <1>5, <1>7, <1>8, <1>9 DEF ProcessInv

(* Every other step of a process only gives up connections and children.   *)
LEMMA ProcessLess ==
  ASSUME ProcessInv, ProcessTypes', RequestTypes', ParentsOwn',
         cur' = cur, peer' = peer, pc' \in {"fork", "close"} => pc' = pc,
         \A p \in Guests \cup {parent} : holds'[p] \subseteq holds[p],
         \A c \in Guests : Lives(c)' => Lives(c),
         \A c \in Guests : child'[c] = "none" <=> child[c] = "none"
  PROVE  ProcessInv'
<1>1. Cardinality(holds'[parent]) <= ProcessFds
  BY HoldsLess
<1>2. NotAccepted' /\ JustAccepted'
  BY DEF ProcessInv, NotAccepted, JustAccepted
<1>3. OwnHolder'
  BY DEF ProcessInv, OwnHolder
<1> QED
  BY <1>1, <1>2, <1>3 DEF ProcessInv

LEMMA ProcessParent2 ==
  ASSUME ProcessInv, Process!AcceptFails \/ Process!ForkFails \/ Process!CloseAccepted
  PROVE  ProcessInv'
<1>1. /\ child' = child /\ cur' = cur /\ peer' = peer /\ sa_handler' = sa_handler
      /\ inbox' = inbox /\ sent' = sent /\ broken' = broken /\ pc' \in {"accept", "dead"}
      /\ listening' \subseteq listening
  BY DEF Process!AcceptFails, Process!ForkFails, Process!CloseAccepted, Process!Ends,
    Process!clientVars
<1>2. /\ holds' \in [Guests \cup {parent} -> SUBSET Guests]
      /\ \A p \in Guests \cup {parent} : holds'[p] \subseteq holds[p]
  BY DEF Process!AcceptFails, Process!ForkFails, Process!CloseAccepted, Process!Ends,
    ProcessInv, ProcessTypes
<1>3. ProcessTypes' /\ RequestTypes'
  BY <1>1, <1>2 DEF ProcessInv, ProcessTypes, RequestTypes
<1>4. \A c \in holds'[parent] : child[c] = "none"
  <2>1. CASE Process!AcceptFails
    BY <2>1 DEF Process!AcceptFails, Process!Ends, ProcessInv, ProcessTypes
  <2>2. CASE Process!ForkFails
    BY <2>2 DEF Process!ForkFails, ProcessInv, ParentsOwn, JustAccepted
  <2>3. CASE Process!CloseAccepted
    BY <2>3 DEF Process!CloseAccepted, ProcessInv, ProcessTypes, ParentsOwn
  <2> QED
    BY <2>1, <2>2, <2>3
<1>5. ParentsOwn'
  BY <1>1, <1>4 DEF ParentsOwn
<1>6. /\ \A c \in Guests : Lives(c)' => Lives(c)
      /\ \A c \in Guests : child'[c] = "none" <=> child[c] = "none"
      /\ pc' \in {"fork", "close"} => pc' = pc
  BY <1>1 DEF Lives
<1> QED
  BY <1>1, <1>2, <1>3, <1>5, <1>6, ProcessLess

(* An exit takes with it what the process held, and the parent if the      *)
(* handler of SIGCHLD is a stray address.                                  *)
LEMMA ProcessExit ==
  ASSUME ProcessInv, NEW c \in Guests, Lives(c), Process!Exit(c), peer' = peer,
         inbox' = inbox, sent' = sent, broken' \subseteq Guests
  PROVE  ProcessInv'
<1>1. cur' = cur /\ sa_handler' = sa_handler
      /\ \E w \in {"zombie", "gone"} : child' = [child EXCEPT ![c] = w]
  BY DEF Process!Exit
<1>2. \/ /\ pc' = "dead" /\ holds' = [holds EXCEPT ![c] = {}, ![parent] = {}]
         /\ listening' \subseteq listening
      \/ /\ pc' = pc /\ holds' = [holds EXCEPT ![c] = {}] /\ listening' \subseteq listening
  BY DEF Process!Exit, Process!Ends
<1>3. /\ holds' \in [Guests \cup {parent} -> SUBSET Guests]
      /\ \A p \in Guests \cup {parent} : holds'[p] \subseteq holds[p]
      /\ pc' # pc => pc' = "dead" /\ holds'[parent] = {}
  BY <1>2, ProcessBounds DEF ProcessInv, ProcessTypes
<1>4. pc' \in {"accept", "fork", "close", "dead"}
  BY <1>2 DEF ProcessInv, ProcessTypes
<1>5. child' \in [Guests -> {"none", "start", "read", "write", "zombie", "gone"}]
  BY <1>1 DEF ProcessInv, ProcessTypes
<1>6. ProcessTypes' /\ RequestTypes'
  BY <1>1, <1>2, <1>3, <1>4, <1>5 DEF ProcessInv, ProcessTypes, RequestTypes
<1>7. /\ \A d \in Guests : Lives(d)' => Lives(d)
      /\ \A d \in Guests : child'[d] = "none" <=> child[d] = "none"
  BY <1>1 DEF ProcessInv, ProcessTypes, Lives
<1>8. ParentsOwn'
  <2>1. CASE pc' = pc
    <3>1. \A d \in holds'[parent] : d \in holds[parent] /\ d \in Guests
      BY <1>3, <1>6 DEF ProcessTypes
    <3> QED
      BY <1>1, <1>7, <2>1, <3>1 DEF ProcessInv, ParentsOwn
  <2>2. CASE pc' # pc
    BY <1>3, <2>2 DEF ParentsOwn
  <2> QED
    BY <2>1, <2>2
<1>9. pc' \in {"fork", "close"} => pc' = pc
  BY <1>3
<1> QED
  BY <1>1, <1>3, <1>6, <1>7, <1>8, <1>9, ProcessLess

(* Of the other steps of a child only its own state and requests matter.   *)
LEMMA ProcessMoves ==
  ASSUME ProcessInv, NEW c \in Guests, NEW w \in {"read", "write"}, Lives(c),
         child' = [child EXCEPT ![c] = w], RequestTypes', broken' \subseteq Guests,
         listening' \subseteq listening, sa_handler' = sa_handler, pc' = pc, cur' = cur,
         holds' = holds, peer' = peer
  PROVE  ProcessInv'
<1>1. child' \in [Guests -> {"none", "start", "read", "write", "zombie", "gone"}]
  BY DEF ProcessInv, ProcessTypes
<1>2. ProcessTypes'
  BY <1>1 DEF ProcessInv, ProcessTypes
<1>3. /\ \A d \in Guests : Lives(d)' => Lives(d)
      /\ \A d \in Guests : child'[d] = "none" <=> child[d] = "none"
  BY DEF ProcessInv, ProcessTypes, Lives
<1>4. ParentsOwn'
  BY <1>3 DEF ProcessInv, ProcessTypes, ParentsOwn
<1> QED
  BY <1>2, <1>3, <1>4, ProcessLess

LEMMA ProcessChildStep ==
  ASSUME ProcessInv, NEW c \in Guests, Process!Child(c)
  PROVE  ProcessInv'
<1>1. RequestTypes /\ broken \subseteq Guests
  BY DEF ProcessInv, ProcessTypes
<1>2. CASE Process!CloseListen(c)
  <2>1. /\ Lives(c) /\ child' = [child EXCEPT ![c] = "read"] /\ listening' \subseteq listening
        /\ sa_handler' = sa_handler /\ pc' = pc /\ cur' = cur /\ holds' = holds
        /\ peer' = peer /\ inbox' = inbox /\ sent' = sent /\ broken' = broken
    BY <1>2 DEF Process!CloseListen, Process!parentVars, Process!clientVars, Lives
  <2>2. RequestTypes' /\ broken' \subseteq Guests
    BY <1>1, <2>1 DEF RequestTypes
  <2> QED
    BY <2>1, <2>2, ProcessMoves
<1>3. CASE Process!Read(c)
  <2>1. /\ Lives(c) /\ child' = [child EXCEPT ![c] = "write"] /\ listening' \subseteq listening
        /\ sa_handler' = sa_handler /\ pc' = pc /\ cur' = cur /\ holds' = holds
        /\ peer' = peer /\ sent' = sent /\ broken' = broken
        /\ inbox[c] > 0 /\ inbox' = [inbox EXCEPT ![c] = inbox[c] - 1]
    BY <1>3 DEF Process!Read, Process!parentVars, Lives
  <2>2. RequestTypes' /\ broken' \subseteq Guests
    <3>1. /\ inbox[c] \in 0..MaxRequests /\ sent[c] \in 0..MaxRequests /\ inbox[c] <= sent[c]
          /\ inbox \in [Guests -> 0..MaxRequests]
      BY <1>1 DEF RequestTypes
    <3>2. inbox[c] - 1 \in 0..MaxRequests /\ inbox[c] - 1 <= sent[c]
      BY <2>1, <3>1, ProcessBounds
    <3> QED
      BY <1>1, <2>1, <3>1, <3>2 DEF RequestTypes
  <2> QED
    BY <2>1, <2>2, ProcessMoves
<1>4. CASE Process!Write(c)
  <2>1. /\ Lives(c) /\ broken' \subseteq Guests
        /\ peer' = peer /\ inbox' = inbox /\ sent' = sent
    BY <1>1, <1>4 DEF Process!Write, Process!clientVars, Lives
  <2>2. RequestTypes'
    BY <1>1, <2>1 DEF RequestTypes
  <2>3. CASE Process!Exit(c)
    BY <2>1, <2>3, ProcessExit
  <2>4. CASE ~Process!Exit(c)
    <3>1. /\ child' = [child EXCEPT ![c] = "read"] /\ listening' \subseteq listening
          /\ sa_handler' = sa_handler /\ pc' = pc /\ cur' = cur /\ holds' = holds
      BY <1>4, <2>4 DEF Process!Write, Process!parentVars
    <3> QED
      BY <2>1, <2>2, <3>1, ProcessMoves
  <2> QED
    BY <2>3, <2>4
<1>5. CASE Process!ReadEnd(c)
  <2>1. /\ Lives(c) /\ Process!Exit(c) /\ broken' \subseteq Guests
        /\ peer' = peer /\ inbox' = inbox /\ sent' = sent
    BY <1>1, <1>5 DEF Process!ReadEnd, Process!clientVars, Lives
  <2> QED
    BY <2>1, ProcessExit
<1> QED
  BY <1>2, <1>3, <1>4, <1>5 DEF Process!Child

LEMMA ProcessStep == ASSUME ProcessInv, [Process!Next]_(Process!vars) PROVE ProcessInv'
<1>1. CASE UNCHANGED Process!vars
  BY <1>1 DEF Process!vars, Process!parentVars, Process!clientVars, ProcessInv, ProcessTypes,
    RequestTypes, NotAccepted, JustAccepted, OwnHolder, ParentsOwn, Lives
<1>2. CASE Process!Parent
  BY <1>2, ProcessAccept, ProcessFork, ProcessParent2 DEF Process!Parent
<1> QED
  BY <1>1, <1>2, ProcessChildStep, ProcessClients DEF Process!Next

LEMMA ProcessHolds == ProcessInv => Process!TypeOK /\ Process!OwnConnection
<1> SUFFICES ASSUME ProcessInv PROVE Process!TypeOK /\ Process!OwnConnection
  OBVIOUS
<1>1. Process!Cardinality(holds[parent]) = Cardinality(holds[parent])
  BY DEF Process!Cardinality, Cardinality
<1>2. Process!TypeOK
  BY <1>1 DEF ProcessInv, ProcessTypes, RequestTypes, Process!TypeOK, Process!Procs
<1>3. Process!OwnConnection
  <2>1. ASSUME NEW c \in Guests, c \in Process!Running
        PROVE  Process!Holders(c) \subseteq {c} \cup (IF cur = c THEN {parent} ELSE {})
    BY <2>1 DEF ProcessInv, OwnHolder, Lives, Process!Running, Process!Holders, Process!Procs
  <2>2. ASSUME NEW c \in Guests, parent \in Process!Holders(c)
        PROVE  (cur = c /\ pc \in {"fork", "close"}) \/ child[c] = "none"
    BY <2>2 DEF ProcessInv, ParentsOwn, Process!Holders
  <2> QED
    BY <2>1, <2>2 DEF Process!OwnConnection
<1> QED
  BY <1>2, <1>3
-----------------------------------------------------------------------------
(* The echo.  What sessions hold are pieces that have been read, apart     *)
(* from each other and from what was written; one session at a time holds  *)
(* what comes next, unless the client has left.                            *)
EchoTypes ==
    /\ client \in {"typing", "waiting", "told", "cut", "killed"}
    /\ sock \in {"open", "closed"} /\ workers \in 1..Sessions /\ todo \in 0..Sessions
    /\ arrived \in 0..Request /\ pos \in 0..arrived
    /\ held \subseteq (1..Request) \X (1..Request)
    /\ IsFiniteSet(held) /\ Cardinality(held) <= workers
    /\ reply \in Seq(1..Request)

HeldApart ==
    /\ \A h \in held : h[1] <= h[2] /\ h[2] <= pos
    /\ \A g, h \in held : g = h \/ g[2] < h[1] \/ h[2] < g[1]

WrittenApart ==
    /\ \A k \in 1..Len(reply) :
         reply[k] <= pos /\ \A h \in held : reply[k] < h[1] \/ h[2] < reply[k]
    /\ \A j, k \in 1..Len(reply) : reply[j] = reply[k] => j = k

InOrder ==
    workers = 1 =>
        /\ \A k \in 1..Len(reply) : reply[k] = k
        /\ client \in {"typing", "waiting"} =>
             /\ held = {} => Len(reply) = pos
             /\ \A h \in held : h[1] = Len(reply) + 1 /\ h[2] = pos

EchoInv == EchoTypes /\ HeldApart /\ WrittenApart /\ InOrder

LEMMA EchoBounds == Request \in Nat /\ Sessions \in Nat /\ Sessions > 0
  BY ExercisesAssumption DEF ExercisesAssumption

LEMMA EchoInit == ASSUME Echo!Init PROVE EchoInv
<1>1. /\ client = "typing" /\ sock = "open" /\ workers \in 1..Sessions
      /\ todo = Sessions /\ arrived = 0 /\ pos = 0 /\ held = {} /\ reply = <<>>
  BY DEF Echo!Init
<1>2. IsFiniteSet(held) /\ Cardinality(held) = 0 /\ Len(reply) = 0 /\ reply \in Seq(1..Request)
  BY <1>1, FS_EmptySet
<1>3. /\ Sessions \in 0..Sessions /\ 0 \in 0..Request /\ 0 \in 0..0 /\ workers > 0
      /\ 0 <= workers
  BY <1>1, EchoBounds
<1>4. EchoTypes
  BY <1>1, <1>2, <1>3 DEF EchoTypes
<1> QED
  BY <1>1, <1>2, <1>4 DEF EchoInv, HeldApart, WrittenApart, InOrder

(* The numbers in what is held.                                            *)
LEMMA HeldPieces ==
  ASSUME EchoTypes, NEW h \in held
  PROVE  h[1] \in 1..Request /\ h[2] \in 1..Request /\ h = <<h[1], h[2]>>
  BY DEF EchoTypes

LEMMA EchoNumbers ==
  ASSUME EchoTypes
  PROVE  /\ pos \in Nat /\ arrived \in Nat /\ pos <= arrived /\ arrived <= Request
         /\ Len(reply) \in Nat /\ \A k \in 1..Len(reply) : reply[k] \in 1..Request
         /\ todo \in Nat /\ workers \in Nat /\ workers > 0 /\ todo <= Sessions
<1>1. /\ arrived \in 0..Request /\ pos \in 0..arrived /\ reply \in Seq(1..Request)
      /\ todo \in 0..Sessions /\ workers \in 1..Sessions
  BY DEF EchoTypes
<1>2. Len(reply) \in Nat /\ \A k \in 1..Len(reply) : reply[k] \in 1..Request
  <2>1. reply \in Seq(1..Request)
    BY <1>1
  <2>2. Len(reply) \in Nat /\ reply \in [1..Len(reply) -> 1..Request]
    BY <2>1, LenProperties
  <2> QED
    BY <2>2
<1> QED
  BY <1>1, <1>2, EchoBounds

(* The client, its user and the network: nothing is held or written.       *)
LEMMA EchoOutside ==
  ASSUME EchoInv, Echo!Send \/ Echo!Kill \/ Echo!Client
  PROVE  EchoInv'
<1>1. /\ sock' = sock /\ workers' = workers /\ todo' = todo /\ pos' = pos /\ held' = held
      /\ reply' = reply
  BY DEF Echo!Send, Echo!Kill, Echo!Client, Echo!Read, Echo!Arrive
<1>2. /\ client' \in {"typing", "waiting", "told", "cut", "killed"}
      /\ client' \in {"typing", "waiting"} => client \in {"typing", "waiting"}
  BY DEF Echo!Send, Echo!Kill, Echo!Client, Echo!Read, Echo!Arrive, Echo!Left, EchoInv, EchoTypes
<1>3. arrived' \in 0..Request /\ pos \in 0..arrived'
  <2>1. CASE arrived' = arrived
    BY <2>1 DEF EchoInv, EchoTypes
  <2>2. CASE arrived' # arrived
    <3>1. arrived' \in (arrived + 1)..Request
      BY <2>2 DEF Echo!Send, Echo!Kill, Echo!Client, Echo!Read, Echo!Arrive
    <3> QED
      BY <3>1, EchoNumbers, EchoBounds DEF EchoInv
  <2> QED
    BY <2>1, <2>2
<1>4. EchoTypes'
  BY <1>1, <1>2, <1>3 DEF EchoInv, EchoTypes
<1> QED
  BY <1>1, <1>2, <1>4 DEF EchoInv, HeldApart, WrittenApart, InOrder

LEMMA EchoReadSome == ASSUME EchoInv, Echo!ReadSome PROVE EchoInv'
<1> DEFINE new == <<pos + 1, arrived>>
<1>1. /\ todo > 0 /\ pos < arrived /\ held' = held \cup {new} /\ pos' = arrived
      /\ todo' = todo - 1 /\ client' = client /\ sock' = sock /\ workers' = workers
      /\ arrived' = arrived /\ reply' = reply
  BY DEF Echo!ReadSome, Echo!Starts
<1>2. Cardinality(held) < workers /\ Cardinality(held) \in Nat /\ IsFiniteSet(held)
  <2>1. Echo!Cardinality(held) = Cardinality(held)
    BY DEF Echo!Cardinality, Cardinality
  <2> QED
    BY <2>1, FS_CardinalityType DEF Echo!ReadSome, Echo!Starts, EchoInv, EchoTypes
<1>3. EchoTypes
  BY DEF EchoInv
<1>4. new[1] = pos + 1 /\ new[2] = arrived /\ new \in (1..Request) \X (1..Request)
  <2>1. pos + 1 \in 1..Request /\ arrived \in 1..Request
    BY <1>1, <1>3, EchoNumbers, EchoBounds
  <2> QED
    BY <2>1
<1> HIDE DEF new
<1>5. IsFiniteSet(held') /\ Cardinality(held') <= workers'
  <2>1. CASE new \in held
    <3>1. held' = held /\ workers' = workers
      BY <1>1, <2>1
    <3>2. workers \in Nat /\ Cardinality(held) < workers /\ Cardinality(held) \in Nat
      BY <1>2, <1>3, EchoNumbers
    <3>3. Cardinality(held) <= workers
      BY <3>2
    <3> QED
      BY <1>2, <3>1, <3>3
  <2>2. CASE new \notin held
    <3>1. IsFiniteSet(held') /\ Cardinality(held') = Cardinality(held) + 1
      BY <1>1, <1>2, <2>2, FS_AddElement
    <3> QED
      BY <1>1, <1>2, <1>3, <3>1, EchoNumbers
  <2> QED
    BY <2>1, <2>2
<1>6. EchoTypes'
  <2>1. arrived \in 0..Request /\ pos' \in 0..arrived' /\ todo' \in 0..Sessions
    BY <1>1, <1>3, EchoNumbers, EchoBounds
  <2>2. held' \subseteq (1..Request) \X (1..Request)
    BY <1>1, <1>4 DEF EchoInv, EchoTypes
  <2> QED
    BY <1>1, <1>5, <2>1, <2>2 DEF EchoInv, EchoTypes
<1>7. \A h \in held : h[1] <= h[2] /\ h[2] <= pos /\ h[1] \in Int /\ h[2] \in Int
  BY <1>3, HeldPieces DEF EchoInv, HeldApart
<1>8. HeldApart'
  <2>1. \A h \in held' : h[1] <= h[2] /\ h[2] <= pos'
    BY <1>1, <1>3, <1>4, <1>7, EchoNumbers
  <2>2. \A h \in held : h[2] < new[1]
    BY <1>3, <1>4, <1>7, EchoNumbers
  <2>3. \A g, h \in held' : g = h \/ g[2] < h[1] \/ h[2] < g[1]
    BY <1>1, <2>2 DEF EchoInv, HeldApart
  <2> QED
    BY <2>1, <2>3 DEF HeldApart
<1>9. WrittenApart'
  <2>1. \A k \in 1..Len(reply) : reply[k] <= pos /\ reply[k] \in Int
    BY <1>3, EchoNumbers DEF EchoInv, WrittenApart
  <2>2. \A k \in 1..Len(reply) : reply[k] <= pos' /\ reply[k] < new[1]
    BY <1>1, <1>3, <1>4, <2>1, EchoNumbers
  <2> QED
    BY <1>1, <2>2 DEF EchoInv, WrittenApart
<1>10. InOrder'
  <2>1. SUFFICES ASSUME workers = 1
                 PROVE  /\ \A k \in 1..Len(reply) : reply[k] = k
                        /\ client \in {"typing", "waiting"} =>
                             \A h \in held' : h[1] = Len(reply) + 1 /\ h[2] = pos'
    BY <1>1 DEF InOrder
  <2>2. held = {}
    <3>1. Cardinality(held) = 0
      BY <1>2, <2>1
    <3> QED
      BY <1>2, <3>1, FS_EmptySet
  <2>3. client \in {"typing", "waiting"} => Len(reply) = pos
    BY <2>1, <2>2 DEF EchoInv, InOrder
  <2> QED
    BY <1>1, <1>4, <2>1, <2>2, <2>3 DEF EchoInv, InOrder
<1> QED
  BY <1>6, <1>8, <1>9, <1>10 DEF EchoInv

LEMMA EchoStill ==
  ASSUME EchoInv, Echo!ReadEnds \/ Echo!Replace
  PROVE  EchoInv'
<1>1. /\ client' = client /\ workers' = workers /\ arrived' = arrived /\ pos' = pos
      /\ held' = held /\ reply' = reply
  BY DEF Echo!ReadEnds, Echo!Replace
<1>2. sock' \in {"open", "closed"} /\ todo' \in 0..Sessions
  <2>1. CASE Echo!Replace
    BY <2>1 DEF Echo!Replace, EchoInv, EchoTypes
  <2>2. CASE Echo!ReadEnds
    <3>1. todo > 0 /\ todo' = todo - 1 /\ sock' = sock /\ EchoTypes
      BY <2>2 DEF Echo!ReadEnds, Echo!Starts, EchoInv
    <3>2. todo' \in 0..Sessions
      BY <3>1, EchoNumbers, EchoBounds
    <3> QED
      BY <3>1, <3>2 DEF EchoTypes
  <2> QED
    BY <2>1, <2>2
<1>3. EchoTypes'
  BY <1>1, <1>2 DEF EchoInv, EchoTypes
<1> QED
  BY <1>1, <1>3 DEF EchoInv, HeldApart, WrittenApart, InOrder

(* The numbers from a to b, one behind the other.                          *)
LEMMA Pieces ==
  ASSUME NEW a \in 1..Request, NEW b \in 1..Request, a <= b,
         NEW s \in Seq(1..Request)
  PROVE  LET t == s \o [k \in 1..(b - a + 1) |-> a + k - 1] IN
         /\ t \in Seq(1..Request) /\ Len(t) = Len(s) + (b - a + 1)
         /\ \A k \in 1..Len(s) : t[k] = s[k]
         /\ \A k \in (Len(s) + 1)..Len(t) : t[k] = a + (k - Len(s)) - 1
<1> DEFINE u == [k \in 1..(b - a + 1) |-> a + k - 1]
<1>1. b - a + 1 \in Nat /\ Request \in Nat
  BY EchoBounds
<1>2. \A k \in 1..(b - a + 1) : a + k - 1 \in 1..Request
  BY EchoBounds
<1>3. u \in Seq(1..Request) /\ Len(u) = b - a + 1
  BY <1>1, <1>2
<1>4. \A k \in 1..Len(u) : u[k] = a + k - 1
  BY <1>3
<1> HIDE DEF u
<1>5. /\ s \o u \in Seq(1..Request) /\ Len(s \o u) = Len(s) + Len(u)
      /\ \A k \in 1..Len(s) : (s \o u)[k] = s[k]
  BY <1>3
<1>6. ASSUME NEW k \in (Len(s) + 1)..Len(s \o u) PROVE (s \o u)[k] = a + (k - Len(s)) - 1
  <2>1. k - Len(s) \in 1..Len(u) /\ (s \o u)[k] = u[k - Len(s)]
    BY <1>3, <1>5
  <2> QED
    BY <1>4, <2>1
<1> QED
  BY <1>3, <1>5, <1>6 DEF u

LEMMA EchoWriteSome == ASSUME EchoInv, NEW h \in held, Echo!WriteSome(h) PROVE EchoInv'
<1> DEFINE said == reply \o [k \in 1..(h[2] - h[1] + 1) |-> h[1] + k - 1]
<1>1. /\ held' = held \ {h} /\ client' = client /\ sock' = sock /\ workers' = workers
      /\ todo' = todo /\ arrived' = arrived /\ pos' = pos
      /\ reply' = IF client \in {"told", "cut", "killed"} THEN reply ELSE said
  BY DEF Echo!WriteSome, Echo!Left
<1>2. EchoTypes
  BY DEF EchoInv
<1>3. /\ h[1] \in 1..Request /\ h[2] \in 1..Request /\ h[1] <= h[2] /\ h[2] <= pos
      /\ reply \in Seq(1..Request)
  BY <1>2, HeldPieces DEF EchoInv, EchoTypes, HeldApart
<1>4. /\ said \in Seq(1..Request) /\ Len(said) = Len(reply) + (h[2] - h[1] + 1)
      /\ \A k \in 1..Len(reply) : said[k] = reply[k]
      /\ \A k \in (Len(reply) + 1)..Len(said) : said[k] = h[1] + (k - Len(reply)) - 1
  BY <1>3, Pieces
<1> HIDE DEF said
<1>5. IsFiniteSet(held') /\ Cardinality(held') <= workers'
  <2>1. IsFiniteSet(held) /\ Cardinality(held) <= workers
    BY <1>2 DEF EchoTypes
  <2>2. IsFiniteSet(held') /\ Cardinality(held') <= Cardinality(held)
    BY <1>1, <2>1, FS_Subset
  <2>3. Cardinality(held) \in Nat /\ Cardinality(held') \in Nat
    BY <2>1, <2>2, FS_CardinalityType
  <2> QED
    BY <1>1, <1>2, <2>1, <2>2, <2>3, EchoNumbers
<1>6. EchoTypes'
  BY <1>1, <1>3, <1>4, <1>5 DEF EchoInv, EchoTypes
<1>7. HeldApart'
  BY <1>1 DEF EchoInv, HeldApart
<1>8. CASE client \in {"told", "cut", "killed"}
  <2>1. reply' = reply /\ client \notin {"typing", "waiting"}
    BY <1>1, <1>8
  <2>2. WrittenApart' /\ InOrder'
    BY <1>1, <2>1 DEF EchoInv, WrittenApart, InOrder
  <2> QED
    BY <1>6, <1>7, <2>2 DEF EchoInv
<1>9. CASE client \notin {"told", "cut", "killed"}
  <2>1. reply' = said /\ client \in {"typing", "waiting"}
    BY <1>1, <1>2, <1>9 DEF EchoTypes
  <2>2. Len(reply) \in Nat /\ \A k \in 1..Len(reply) : reply[k] \in Int
    BY <1>2, EchoNumbers
  <2>3. \A k \in (Len(reply) + 1)..Len(said) : said[k] >= h[1] /\ said[k] <= h[2]
    BY <1>3, <1>4, <2>2
  <2>4. \A k \in 1..Len(said) : k \in 1..Len(reply) \/ k \in (Len(reply) + 1)..Len(said)
    BY <1>3, <1>4, <2>2
  <2>5. \A k \in 1..Len(said) : said[k] <= pos
    <3>1. \A k \in 1..Len(reply) : said[k] <= pos
      BY <1>4 DEF EchoInv, WrittenApart
    <3>2. pos \in Int /\ \A k \in (Len(reply) + 1)..Len(said) : said[k] \in Int
      BY <1>2, <1>3, <1>4, <2>2, EchoNumbers
    <3>3. \A k \in (Len(reply) + 1)..Len(said) : said[k] <= pos
      BY <1>3, <2>3, <3>2
    <3> QED
      BY <2>4, <3>1, <3>3
  <2>6. ASSUME NEW k \in 1..Len(said), NEW g \in held, g # h
        PROVE  said[k] < g[1] \/ g[2] < said[k]
    <3>1. CASE k \in 1..Len(reply)
      BY <1>4, <2>6, <3>1 DEF EchoInv, WrittenApart
    <3>2. CASE k \in (Len(reply) + 1)..Len(said)
      <4>1. g[1] \in Int /\ g[2] \in Int /\ said[k] \in Int
        BY <1>2, <1>3, <1>4, <2>2, <3>2, HeldPieces
      <4>2. g[2] < h[1] \/ h[2] < g[1]
        BY <2>6 DEF EchoInv, HeldApart
      <4> QED
        BY <1>3, <2>3, <3>2, <4>1, <4>2
    <3> QED
      BY <2>4, <3>1, <3>2
  <2>7. ASSUME NEW j \in 1..Len(said), NEW k \in 1..Len(said), said[j] = said[k]
        PROVE  j = k
    <3>1. \A l \in 1..Len(reply) : reply[l] < h[1] \/ h[2] < reply[l]
      BY DEF EchoInv, WrittenApart
    <3>2. ASSUME NEW l \in 1..Len(reply), NEW m \in (Len(reply) + 1)..Len(said)
          PROVE  said[l] # said[m]
      <4>1. said[l] = reply[l] /\ said[l] \in Int /\ said[m] \in Int
        BY <1>3, <1>4, <2>2, <3>2
      <4>2. said[m] >= h[1] /\ said[m] <= h[2]
        BY <2>3, <3>2
      <4> QED
        BY <1>3, <3>1, <3>2, <4>1, <4>2
    <3>3. ASSUME NEW l \in (Len(reply) + 1)..Len(said), NEW m \in (Len(reply) + 1)..Len(said),
                 said[l] = said[m]
          PROVE  l = m
      BY <1>3, <1>4, <2>2, <3>3
    <3>4. CASE j \in 1..Len(reply) /\ k \in 1..Len(reply)
      BY <1>4, <2>7, <3>4 DEF EchoInv, WrittenApart
    <3> QED
      BY <2>4, <2>7, <3>2, <3>3, <3>4
  <2>8. WrittenApart'
    BY <1>1, <2>1, <2>5, <2>6, <2>7 DEF WrittenApart
  <2>9. InOrder'
    <3>1. SUFFICES ASSUME workers = 1
                   PROVE  /\ \A k \in 1..Len(said) : said[k] = k
                          /\ Len(said) = pos /\ held' = {}
      BY <1>1, <2>1 DEF InOrder
    <3>2. \A g \in held : g[1] = Len(reply) + 1 /\ g[2] = pos
      BY <2>1, <3>1 DEF EchoInv, InOrder
    <3>3. \A k \in 1..Len(reply) : said[k] = k
      BY <1>4, <3>1 DEF EchoInv, InOrder
    <3>4. \A k \in (Len(reply) + 1)..Len(said) : said[k] = k
      BY <1>3, <1>4, <2>2, <3>2
    <3>5. Len(said) = pos
      BY <1>2, <1>3, <1>4, <2>2, <3>2, EchoNumbers
    <3>6. held' = {}
      <4>1. ASSUME NEW g \in held PROVE g = h
        <5>1. g[1] = h[1] /\ g[2] = h[2] /\ h[1] <= h[2] /\ h[1] \in Int /\ h[2] \in Int
          BY <1>3, <3>2
        <5> QED
          BY <5>1 DEF EchoInv, HeldApart
      <4> QED
        BY <1>1, <4>1
    <3> QED
      BY <2>4, <3>3, <3>4, <3>5, <3>6
  <2> QED
    BY <1>6, <1>7, <2>8, <2>9 DEF EchoInv
<1> QED
  BY <1>8, <1>9

LEMMA EchoStep == ASSUME EchoInv, [EchoNext]_(Echo!vars) PROVE EchoInv'
<1>1. CASE UNCHANGED Echo!vars
  BY <1>1 DEF Echo!vars, EchoInv, EchoTypes, HeldApart, WrittenApart, InOrder
<1>2. CASE Echo!Server
  BY <1>2, EchoReadSome, EchoStill, EchoWriteSome DEF Echo!Server
<1> QED
  BY <1>1, <1>2, EchoOutside DEF EchoNext

LEMMA EchoHolds == EchoInv => Echo!TypeOK /\ Echo!InStep
<1> SUFFICES ASSUME EchoInv PROVE Echo!TypeOK /\ Echo!InStep
  OBVIOUS
<1>1. Echo!Cardinality(held) = Cardinality(held)
  BY DEF Echo!Cardinality, Cardinality
<1>2. Echo!TypeOK
  BY <1>1 DEF EchoInv, EchoTypes, Echo!TypeOK
<1>3. DOMAIN reply = 1..Len(reply)
  BY DEF EchoInv, EchoTypes
<1>4. Echo!InStep
  BY <1>3 DEF EchoInv, WrittenApart, InOrder, Echo!InStep
<1> QED
  BY <1>2, <1>4
-----------------------------------------------------------------------------
(* The exchange over UDP.  As long as none of its datagrams has been       *)
(* duplicated a client has one at most on its way, as a hello, in the      *)
(* server or as an answer, and only while it waits; it is the latest.      *)
Hellos == [from : Clients, num : 0..(MaxHellos - 1)]
Answers == [to : Clients, hello : Hellos]
NoHello == [from |-> None, num |-> -1]

UdpTypes ==
    /\ pc \in [Clients -> {"send", "recv"}]
    /\ num \in [Clients -> 0..MaxHellos] /\ taken \in [Clients -> -1..(MaxHellos - 1)]
    /\ serving \in Hellos \cup {NoHello} /\ cliaddr \in Clients \cup {None}
    /\ requests \in [Hellos -> Nat] /\ replies \in [Answers -> Nat]
    /\ lost \in [Clients -> Nat] /\ dups \in [Clients -> Nat]

ToSender ==
    /\ serving # NoHello => cliaddr = serving.from
    /\ \A m \in Answers : replies[m] > 0 => m.to = m.hello.from

Latest(c, h) == pc[c] = "recv" /\ h = [from |-> c, num |-> num[c] - 1]

OneOnItsWay(c) ==
    /\ \A h \in Hellos : requests[h] > 0 /\ h.from = c =>
         requests[h] = 1 /\ Latest(c, h) /\ serving.from # c
    /\ serving.from = c => Latest(c, serving)
    /\ \A m \in Answers : replies[m] > 0 /\ m.to = c =>
         replies[m] = 1 /\ Latest(c, m.hello) /\ serving.from # c
    /\ \A h \in Hellos, m \in Answers :
         h.from = c /\ m.to = c => ~(requests[h] > 0 /\ replies[m] > 0)
    /\ pc[c] = "send" => taken[c] = num[c] - 1

UdpInv == UdpTypes /\ ToSender /\ \A c \in Clients : dups[c] = 0 => OneOnItsWay(c)

LEMMA UdpBounds ==
  MaxHellos \in Nat /\ MaxHellos > 0 /\ None \notin Clients /\ NoHello \notin Hellos
  BY ExercisesAssumption DEF ExercisesAssumption, NoHello, Hellos

LEMMA UdpNames ==
  /\ Udp!Hellos = Hellos /\ Udp!Answers = Answers /\ Udp!NoHello = NoHello
  /\ \A f : Udp!InFlight(f) = {m \in DOMAIN f : f[m] > 0}
  BY DEF Udp!Hellos, Udp!Answers, Udp!NoHello, Udp!InFlight, Hellos, Answers, NoHello

LEMMA UdpInit == ASSUME Udp!Init PROVE UdpInv
<1>1. /\ pc = [c \in Clients |-> "send"] /\ num = [c \in Clients |-> 0]
      /\ taken = [c \in Clients |-> -1] /\ serving = NoHello /\ cliaddr = None
      /\ requests = [m \in Hellos |-> 0] /\ replies = [m \in Answers |-> 0]
      /\ lost = [c \in Clients |-> 0] /\ dups = [c \in Clients |-> 0]
  BY UdpNames DEF Udp!Init
<1>2. UdpTypes
  BY <1>1, UdpBounds DEF UdpTypes
<1>3. ToSender
  BY <1>1 DEF ToSender
<1>4. \A c \in Clients : OneOnItsWay(c)
  BY <1>1, UdpBounds DEF OneOnItsWay, NoHello
<1> QED
  BY <1>2, <1>3, <1>4 DEF UdpInv

(* A datagram more, or one less.                                           *)
LEMMA OneMore ==
  ASSUME NEW D, NEW f \in [D -> Nat], NEW m \in D
  PROVE  LET g == [f EXCEPT ![m] = f[m] + 1] IN
         /\ g \in [D -> Nat] /\ g[m] = f[m] + 1 /\ \A k \in D : k # m => g[k] = f[k]
  OBVIOUS

LEMMA OneLess ==
  ASSUME NEW D, NEW f \in [D -> Nat], NEW m \in D, f[m] > 0
  PROVE  LET g == [f EXCEPT ![m] = f[m] - 1] IN
         /\ g \in [D -> Nat] /\ g[m] = f[m] - 1 /\ \A k \in D : k # m => g[k] = f[k]
         /\ \A k \in D : g[k] > 0 => f[k] > 0
         /\ \A k \in D : g[k] > 0 /\ f[k] = 1 => g[k] = 1
<1>1. f[m] - 1 \in Nat
  OBVIOUS
<1> QED
  BY <1>1

LEMMA UdpSend == ASSUME UdpInv, NEW c \in Clients, Udp!SendHello(c) PROVE UdpInv'
<1> DEFINE new == [from |-> c, num |-> num[c]]
<1>1. /\ pc[c] = "send" /\ num[c] < MaxHellos
      /\ requests' = [requests EXCEPT ![new] = requests[new] + 1]
      /\ num' = [num EXCEPT ![c] = num[c] + 1] /\ pc' = [pc EXCEPT ![c] = "recv"]
      /\ taken' = taken /\ serving' = serving /\ cliaddr' = cliaddr /\ replies' = replies
      /\ lost' = lost /\ dups' = dups
  BY DEF Udp!SendHello
<1>2. num[c] \in 0..MaxHellos /\ num \in [Clients -> 0..MaxHellos]
      /\ requests \in [Hellos -> Nat] /\ replies \in [Answers -> Nat]
      /\ pc \in [Clients -> {"send", "recv"}]
  BY DEF UdpInv, UdpTypes
<1>3. num[c] \in 0..(MaxHellos - 1) /\ num[c] + 1 \in 0..MaxHellos /\ (num[c] + 1) - 1 = num[c]
  BY <1>1, <1>2, UdpBounds
<1>4. new \in Hellos /\ new.from = c
  BY <1>3 DEF Hellos
<1>5. /\ num'[c] = num[c] + 1 /\ pc'[c] = "recv"
      /\ \A d \in Clients : d # c => num'[d] = num[d] /\ pc'[d] = pc[d]
  BY <1>1, <1>2
<1>6. /\ requests' \in [Hellos -> Nat] /\ requests'[new] = requests[new] + 1
      /\ \A h \in Hellos : h # new => requests'[h] = requests[h]
  BY <1>1, <1>2, <1>4, OneMore
<1>7. UdpTypes'
  BY <1>1, <1>2, <1>3, <1>6 DEF UdpInv, UdpTypes
<1>8. ToSender'
  BY <1>1 DEF UdpInv, ToSender
<1>9. ASSUME NEW d \in Clients, dups[d] = 0 PROVE OneOnItsWay(d)'
  <2>1. OneOnItsWay(d)
    BY <1>9 DEF UdpInv
  <2>2. CASE d # c
    <3>1. \A h \in Hellos : h.from = d => requests'[h] = requests[h]
      BY <1>4, <1>6, <2>2
    <3> QED
      BY <1>1, <1>5, <2>1, <2>2, <3>1 DEF OneOnItsWay, Latest
  <2>3. CASE d = c
    <3>1. /\ \A h \in Hellos : h.from = c => ~(requests[h] > 0)
          /\ \A m \in Answers : m.to = c => ~(replies[m] > 0)
          /\ serving.from # c
      BY <1>1, <2>1, <2>3 DEF OneOnItsWay, Latest
    <3>2. requests[new] = 0
      BY <1>2, <1>4, <3>1
    <3>3. requests'[new] = 1
      BY <1>6, <3>2
    <3>4. \A h \in Hellos : requests'[h] > 0 /\ h.from = c => h = new
      BY <1>6, <3>1
    <3>5. pc'[c] = "recv" /\ new = [from |-> c, num |-> num'[c] - 1]
      BY <1>3, <1>5
    <3> QED
      BY <1>1, <1>5, <2>3, <3>1, <3>3, <3>4, <3>5 DEF OneOnItsWay, Latest
  <2> QED
    BY <2>2, <2>3
<1> QED
  BY <1>1, <1>7, <1>8, <1>9 DEF UdpInv

LEMMA UdpRecv == ASSUME UdpInv, NEW c \in Clients, Udp!RecvReply(c) PROVE UdpInv'
<1>1. /\ pc[c] = "recv" /\ pc' = [pc EXCEPT ![c] = "send"]
      /\ num' = num /\ serving' = serving /\ cliaddr' = cliaddr /\ requests' = requests
      /\ lost' = lost /\ dups' = dups
  BY DEF Udp!RecvReply
<1>2. /\ replies \in [Answers -> Nat] /\ taken \in [Clients -> -1..(MaxHellos - 1)]
      /\ pc \in [Clients -> {"send", "recv"}]
  BY DEF UdpInv, UdpTypes
<1>3. PICK m \in Answers : /\ replies[m] > 0 /\ m.to = c
                           /\ replies' = [replies EXCEPT ![m] = replies[m] - 1]
                           /\ taken' = [taken EXCEPT ![c] = m.hello.num]
  BY <1>2, UdpNames DEF Udp!RecvReply
<1>4. /\ replies' \in [Answers -> Nat] /\ replies'[m] = replies[m] - 1
      /\ \A k \in Answers : k # m => replies'[k] = replies[k]
      /\ \A k \in Answers : replies'[k] > 0 => replies[k] > 0
  BY <1>2, <1>3, OneLess
<1>5. m.hello \in Hellos /\ m.hello.num \in 0..(MaxHellos - 1)
  BY DEF Answers, Hellos
<1>6. m.hello.num \in -1..(MaxHellos - 1)
  BY <1>5, UdpBounds
<1>7. /\ pc'[c] = "send" /\ taken'[c] = m.hello.num
      /\ \A d \in Clients : d # c => pc'[d] = pc[d] /\ taken'[d] = taken[d]
  BY <1>1, <1>2, <1>3
<1>8. UdpTypes'
  BY <1>1, <1>2, <1>3, <1>4, <1>6 DEF UdpInv, UdpTypes
<1>9. ToSender'
  BY <1>1, <1>4 DEF UdpInv, ToSender
<1>10. ASSUME NEW d \in Clients, dups[d] = 0 PROVE OneOnItsWay(d)'
  <2>1. OneOnItsWay(d)
    BY <1>10 DEF UdpInv
  <2>2. CASE d # c
    <3>1. \A k \in Answers : k.to = d => replies'[k] = replies[k]
      BY <1>3, <1>4, <2>2
    <3> QED
      BY <1>1, <1>7, <2>1, <2>2, <3>1 DEF OneOnItsWay, Latest
  <2>3. CASE d = c
    <3>1. /\ replies[m] = 1 /\ m.hello = [from |-> c, num |-> num[c] - 1] /\ serving.from # c
          /\ \A h \in Hellos : h.from = c => ~(requests[h] > 0)
      BY <1>3, <2>1, <2>3 DEF OneOnItsWay, Latest
    <3>2. ASSUME NEW k \in Answers, k.to = c PROVE ~(replies'[k] > 0)
      <4>1. CASE k = m
        BY <1>4, <3>1, <4>1
      <4>2. CASE k # m
        <5>1. SUFFICES ASSUME replies[k] > 0 PROVE FALSE
          BY <1>4, <4>2
        <5>2. k.hello = m.hello
          BY <2>1, <2>3, <3>1, <3>2, <5>1 DEF OneOnItsWay, Latest
        <5>3. k = [to |-> c, hello |-> k.hello] /\ m = [to |-> c, hello |-> m.hello]
          BY <1>3, <3>2 DEF Answers
        <5> QED
          BY <4>2, <5>2, <5>3
      <4> QED
        BY <4>1, <4>2
    <3>3. taken'[c] = num'[c] - 1
      BY <1>1, <1>7, <3>1
    <3> QED
      BY <1>1, <2>3, <3>1, <3>2, <3>3 DEF OneOnItsWay
  <2> QED
    BY <2>2, <2>3
<1> QED
  BY <1>1, <1>8, <1>9, <1>10 DEF UdpInv

LEMMA UdpRecvHello == ASSUME UdpInv, Udp!RecvHello PROVE UdpInv'
<1>1. /\ serving = NoHello /\ pc' = pc /\ num' = num /\ taken' = taken /\ replies' = replies
      /\ lost' = lost /\ dups' = dups
  BY UdpNames DEF Udp!RecvHello
<1>2. requests \in [Hellos -> Nat]
  BY DEF UdpInv, UdpTypes
<1>3. PICK m \in Hellos : /\ requests[m] > 0 /\ requests' = [requests EXCEPT ![m] = requests[m] - 1]
                          /\ serving' = m /\ cliaddr' = m.from
  BY <1>2, UdpNames DEF Udp!RecvHello
<1>4. /\ requests' \in [Hellos -> Nat] /\ requests'[m] = requests[m] - 1
      /\ \A k \in Hellos : k # m => requests'[k] = requests[k]
  BY <1>2, <1>3, OneLess
<1>5. m.from \in Clients /\ NoHello.from \notin Clients
  BY UdpBounds DEF Hellos, NoHello
<1>6. UdpTypes'
  BY <1>1, <1>3, <1>4, <1>5 DEF UdpInv, UdpTypes
<1>7. ToSender'
  BY <1>1, <1>3 DEF UdpInv, ToSender
<1>8. ASSUME NEW d \in Clients, dups[d] = 0 PROVE OneOnItsWay(d)'
  <2>1. OneOnItsWay(d)
    BY <1>8 DEF UdpInv
  <2>2. CASE d # m.from
    <3>1. \A k \in Hellos : k.from = d => requests'[k] = requests[k]
      BY <1>4, <2>2
    <3> QED
      BY <1>1, <1>3, <2>1, <2>2, <3>1 DEF OneOnItsWay, Latest
  <2>3. CASE d = m.from
    <3>1. /\ requests[m] = 1 /\ Latest(d, m)
          /\ \A k \in Answers : k.to = d => ~(replies[k] > 0)
      BY <1>3, <2>1, <2>3 DEF OneOnItsWay
    <3>2. \A k \in Hellos : requests[k] > 0 /\ k.from = d => k = m
      BY <2>1, <3>1 DEF OneOnItsWay, Latest
    <3>3. \A k \in Hellos : k.from = d => ~(requests'[k] > 0)
      BY <1>4, <3>1, <3>2
    <3>4. Latest(d, serving)'
      BY <1>1, <1>3, <3>1 DEF Latest
    <3> QED
      BY <1>1, <2>1, <3>1, <3>3, <3>4 DEF OneOnItsWay, Latest
  <2> QED
    BY <2>2, <2>3
<1> QED
  BY <1>1, <1>6, <1>7, <1>8 DEF UdpInv

LEMMA UdpReply == ASSUME UdpInv, Udp!Reply PROVE UdpInv'
<1> DEFINE new == [to |-> cliaddr, hello |-> serving]
<1>1. /\ serving # NoHello /\ serving' = NoHello
      /\ replies' = [replies EXCEPT ![new] = replies[new] + 1]
      /\ pc' = pc /\ num' = num /\ taken' = taken /\ cliaddr' = cliaddr /\ requests' = requests
      /\ lost' = lost /\ dups' = dups
  BY UdpNames DEF Udp!Reply
<1>2. replies \in [Answers -> Nat] /\ serving \in Hellos
  BY <1>1 DEF UdpInv, UdpTypes
<1>3. cliaddr = serving.from /\ serving.from \in Clients
  BY <1>1, <1>2 DEF UdpInv, ToSender, Hellos
<1>4. new \in Answers /\ new.to = serving.from /\ new.hello = serving
  BY <1>2, <1>3 DEF Answers
<1> HIDE DEF new
<1>5. /\ replies' \in [Answers -> Nat] /\ replies'[new] = replies[new] + 1
      /\ \A k \in Answers : k # new => replies'[k] = replies[k]
  BY <1>1, <1>2, <1>4, OneMore
<1>6. NoHello.from \notin Clients
  BY UdpBounds DEF NoHello
<1>7. UdpTypes'
  BY <1>1, <1>5 DEF UdpInv, UdpTypes
<1>8. ToSender'
  BY <1>1, <1>4, <1>5 DEF UdpInv, ToSender
<1>9. ASSUME NEW d \in Clients, dups[d] = 0 PROVE OneOnItsWay(d)'
  <2>1. OneOnItsWay(d)
    BY <1>9 DEF UdpInv
  <2>2. CASE d # serving.from
    <3>1. \A k \in Answers : k.to = d => replies'[k] = replies[k]
      BY <1>4, <1>5, <2>2
    <3> QED
      BY <1>1, <1>6, <2>1, <2>2, <3>1 DEF OneOnItsWay, Latest
  <2>3. CASE d = serving.from
    <3>1. /\ Latest(d, serving)
          /\ \A h \in Hellos : h.from = d => ~(requests[h] > 0)
          /\ \A k \in Answers : k.to = d => ~(replies[k] > 0)
      BY <2>1, <2>3 DEF OneOnItsWay
    <3>2. replies[new] = 0
      BY <1>2, <1>4, <2>3, <3>1
    <3>3. \A k \in Answers : replies'[k] > 0 /\ k.to = d => k = new /\ replies'[k] = 1
      <4>1. replies'[new] = 1
        BY <1>5, <3>2
      <4> QED
        BY <1>5, <3>1, <4>1
    <3>4. pc'[d] = "recv" /\ new.hello = [from |-> d, num |-> num'[d] - 1]
      BY <1>1, <1>4, <3>1 DEF Latest
    <3> QED
      BY <1>1, <1>4, <1>6, <2>1, <3>1, <3>3, <3>4 DEF OneOnItsWay, Latest
  <2> QED
    BY <2>2, <2>3
<1> QED
  BY <1>1, <1>7, <1>8, <1>9 DEF UdpInv

(* Fewer datagrams do no harm.                                             *)
LEMMA UdpLose == ASSUME UdpInv, Udp!Lose PROVE UdpInv'
<1>1. /\ pc' = pc /\ num' = num /\ taken' = taken /\ serving' = serving /\ cliaddr' = cliaddr
      /\ dups' = dups
  BY DEF Udp!Lose
<1>2. requests \in [Hellos -> Nat] /\ replies \in [Answers -> Nat] /\ lost \in [Clients -> Nat]
  BY DEF UdpInv, UdpTypes
<1>3. /\ requests' \in [Hellos -> Nat] /\ replies' \in [Answers -> Nat]
      /\ lost' \in [Clients -> Nat]
      /\ \A h \in Hellos : requests'[h] > 0 => requests[h] > 0
      /\ \A h \in Hellos : requests'[h] > 0 /\ requests[h] = 1 => requests'[h] = 1
      /\ \A m \in Answers : replies'[m] > 0 => replies[m] > 0
      /\ \A m \in Answers : replies'[m] > 0 /\ replies[m] = 1 => replies'[m] = 1
  <2>1. CASE \E m \in Hellos : /\ requests[m] > 0 /\ replies' = replies
                               /\ requests' = [requests EXCEPT ![m] = requests[m] - 1]
                               /\ lost' = [lost EXCEPT ![m.from] = lost[m.from] + 1]
    <3>1. PICK m \in Hellos : /\ requests[m] > 0 /\ replies' = replies
                              /\ requests' = [requests EXCEPT ![m] = requests[m] - 1]
                              /\ lost' = [lost EXCEPT ![m.from] = lost[m.from] + 1]
      BY <2>1
    <3>2. lost' \in [Clients -> Nat]
      BY <1>2, <3>1, OneMore DEF Hellos
    <3> QED
      BY <1>2, <3>1, <3>2, OneLess
  <2>2. CASE \E m \in Answers : /\ replies[m] > 0 /\ requests' = requests
                                /\ replies' = [replies EXCEPT ![m] = replies[m] - 1]
                                /\ lost' = [lost EXCEPT ![m.to] = lost[m.to] + 1]
    <3>1. PICK m \in Answers : /\ replies[m] > 0 /\ requests' = requests
                               /\ replies' = [replies EXCEPT ![m] = replies[m] - 1]
                               /\ lost' = [lost EXCEPT ![m.to] = lost[m.to] + 1]
      BY <2>2
    <3>2. lost' \in [Clients -> Nat]
      BY <1>2, <3>1, OneMore DEF Answers
    <3> QED
      BY <1>2, <3>1, <3>2, OneLess
  <2> QED
    BY <1>2, <2>1, <2>2, UdpNames DEF Udp!Lose
<1>4. UdpTypes'
  BY <1>1, <1>3 DEF UdpInv, UdpTypes
<1>5. ToSender'
  BY <1>1, <1>3 DEF UdpInv, ToSender
<1>6. ASSUME NEW d \in Clients, dups[d] = 0 PROVE OneOnItsWay(d)'
  <2>1. OneOnItsWay(d)
    BY <1>6 DEF UdpInv
  <2> QED
    BY <1>1, <1>3, <2>1 DEF OneOnItsWay, Latest
<1> QED
  BY <1>1, <1>4, <1>5, <1>6 DEF UdpInv

(* Whose datagram is duplicated has lost count: nothing is said of it.     *)
LEMMA UdpDuplicate == ASSUME UdpInv, Udp!Duplicate PROVE UdpInv'
<1>1. /\ pc' = pc /\ num' = num /\ taken' = taken /\ serving' = serving /\ cliaddr' = cliaddr
      /\ lost' = lost
  BY DEF Udp!Duplicate
<1>2. requests \in [Hellos -> Nat] /\ replies \in [Answers -> Nat] /\ dups \in [Clients -> Nat]
  BY DEF UdpInv, UdpTypes
<1>3. \E c \in Clients :
        /\ requests' \in [Hellos -> Nat] /\ replies' \in [Answers -> Nat]
        /\ dups' \in [Clients -> Nat] /\ dups'[c] # 0
        /\ \A d \in Clients : d # c => dups'[d] = dups[d]
        /\ \A h \in Hellos : h.from # c => requests'[h] = requests[h]
        /\ \A m \in Answers : m.to # c => replies'[m] = replies[m]
        /\ \A m \in Answers : replies'[m] > 0 => replies[m] > 0
  <2>1. CASE \E m \in Hellos : /\ replies' = replies
                               /\ requests' = [requests EXCEPT ![m] = requests[m] + 1]
                               /\ dups' = [dups EXCEPT ![m.from] = dups[m.from] + 1]
    <3>1. PICK m \in Hellos : /\ replies' = replies
                              /\ requests' = [requests EXCEPT ![m] = requests[m] + 1]
                              /\ dups' = [dups EXCEPT ![m.from] = dups[m.from] + 1]
      BY <2>1
    <3>2. m.from \in Clients
      BY DEF Hellos
    <3>3. /\ dups' \in [Clients -> Nat] /\ dups'[m.from] = dups[m.from] + 1
          /\ \A d \in Clients : d # m.from => dups'[d] = dups[d]
      BY <1>2, <3>1, <3>2, OneMore
    <3>4. dups'[m.from] # 0
      BY <1>2, <3>2, <3>3
    <3>5. /\ requests' \in [Hellos -> Nat]
          /\ \A h \in Hellos : h.from # m.from => requests'[h] = requests[h]
      BY <1>2, <3>1, OneMore
    <3> QED
      BY <1>2, <3>1, <3>2, <3>3, <3>4, <3>5
  <2>2. CASE \E m \in Answers : /\ requests' = requests /\ replies[m] > 0
                                /\ replies' = [replies EXCEPT ![m] = replies[m] + 1]
                                /\ dups' = [dups EXCEPT ![m.to] = dups[m.to] + 1]
    <3>1. PICK m \in Answers : /\ requests' = requests /\ replies[m] > 0
                               /\ replies' = [replies EXCEPT ![m] = replies[m] + 1]
                               /\ dups' = [dups EXCEPT ![m.to] = dups[m.to] + 1]
      BY <2>2
    <3>2. m.to \in Clients
      BY DEF Answers
    <3>3. /\ dups' \in [Clients -> Nat] /\ dups'[m.to] = dups[m.to] + 1
          /\ \A d \in Clients : d # m.to => dups'[d] = dups[d]
      BY <1>2, <3>1, <3>2, OneMore
    <3>4. dups'[m.to] # 0
      BY <1>2, <3>2, <3>3
    <3>5. /\ replies' \in [Answers -> Nat]
          /\ \A k \in Answers : k # m => replies'[k] = replies[k]
      BY <1>2, <3>1, OneMore
    <3> QED
      BY <1>2, <3>1, <3>2, <3>3, <3>4, <3>5
  <2> QED
    BY <1>2, <2>1, <2>2, UdpNames DEF Udp!Duplicate
<1>4. PICK c \in Clients :
        /\ requests' \in [Hellos -> Nat] /\ replies' \in [Answers -> Nat]
        /\ dups' \in [Clients -> Nat] /\ dups'[c] # 0
        /\ \A d \in Clients : d # c => dups'[d] = dups[d]
        /\ \A h \in Hellos : h.from # c => requests'[h] = requests[h]
        /\ \A m \in Answers : m.to # c => replies'[m] = replies[m]
        /\ \A m \in Answers : replies'[m] > 0 => replies[m] > 0
  BY <1>3
<1>5. UdpTypes'
  BY <1>1, <1>4 DEF UdpInv, UdpTypes
<1>6. ToSender'
  BY <1>1, <1>4 DEF UdpInv, ToSender
<1>7. ASSUME NEW d \in Clients, dups'[d] = 0 PROVE OneOnItsWay(d)'
  <2>1. d # c /\ OneOnItsWay(d)
    BY <1>4, <1>7 DEF UdpInv
  <2>2. /\ \A h \in Hellos : h.from = d => requests'[h] = requests[h]
        /\ \A m \in Answers : m.to = d => replies'[m] = replies[m]
    BY <1>4, <2>1
  <2> QED
    BY <1>1, <2>1, <2>2 DEF OneOnItsWay, Latest
<1> QED
  BY <1>5, <1>6, <1>7 DEF UdpInv

LEMMA UdpStep == ASSUME UdpInv, [Udp!Next]_(Udp!vars) PROVE UdpInv'
<1>1. CASE UNCHANGED Udp!vars
  BY <1>1 DEF Udp!vars, UdpInv, UdpTypes, ToSender, OneOnItsWay, Latest
<1> QED
  BY <1>1, UdpSend, UdpRecv, UdpRecvHello, UdpReply, UdpLose, UdpDuplicate
    DEF Udp!Next, Udp!Server

LEMMA UdpHolds == UdpInv => Udp!TypeOK /\ Udp!RepliesToSender /\ Udp!InStep
<1> SUFFICES ASSUME UdpInv PROVE Udp!TypeOK /\ Udp!RepliesToSender /\ Udp!InStep
  OBVIOUS
<1>1. Udp!TypeOK
  BY UdpNames DEF UdpInv, UdpTypes, Udp!TypeOK
<1>2. Udp!RepliesToSender
  BY UdpNames DEF UdpInv, UdpTypes, ToSender, Udp!RepliesToSender
<1>3. Udp!InStep
  BY DEF UdpInv, OneOnItsWay, Udp!InStep
<1> QED
  BY <1>1, <1>2, <1>3
-----------------------------------------------------------------------------
(* The numbers: the loop ends at n!, whatever becomes of the digits.       *)
NumberInv ==
    /\ n \in 0..MaxN /\ lang \in {"C", "C++"} /\ size \in Nat
    /\ over \in {"no", "yes", "dead"}
    /\ x \in Nat \ {0} /\ (x = 1 \/ x <= n)

LEMMA NumberBounds == MaxN \in Nat /\ Initial \in Nat
  BY ExercisesAssumption DEF ExercisesAssumption

LEMMA NumberInit == ASSUME Number!Init PROVE NumberInv
  BY NumberBounds DEF Number!Init, NumberInv

LEMMA NumberStep == ASSUME NumberInv, [Number!Multiply]_(Number!vars) PROVE NumberInv'
<1>1. CASE UNCHANGED Number!vars
  BY <1>1 DEF Number!vars, NumberInv
<1>2. CASE Number!Multiply
  <2>1. x < n /\ x' = x + 1 /\ n' = n /\ lang' = lang
    BY <1>2 DEF Number!Multiply
  <2>2. size' \in {size, 2 * size} /\ over' \in {"yes", "dead", over}
    BY <1>2 DEF Number!Multiply
  <2> QED
    BY <2>1, <2>2, NumberBounds DEF NumberInv
<1> QED
  BY <1>1, <1>2

LEMMA NumberHolds == NumberInv => Number!TypeOK
  BY NumberBounds DEF NumberInv, Number!TypeOK
-----------------------------------------------------------------------------
(* The checksum: its register keeps its width, and so does what is added.  *)
CheckInv ==
    /\ message \in Seq(0..255) /\ Len(message) <= MaxBytes
    /\ crc \in Check!Word \X Check!Word

LEMMA XorKeepsWidth == ASSUME NEW a, NEW b PROVE Check!Xor(a, b) \in Check!Word
<1> DEFINE one(v, w) == IF v % 2 = w % 2 THEN 0 ELSE 1
           two(v, w) == 2 * one(v \div 2, w \div 2) + one(v, w)
           four(v, w) == 4 * two(v \div 4, w \div 4) + two(v, w)
           eight(v, w) == 16 * four(v \div 16, w \div 16) + four(v, w)
<1>1. Check!Xor(a, b) = 256 * eight(a \div 256, b \div 256) + eight(a, b)
  BY DEF Check!Xor
<1>2. \A v, w : one(v, w) \in Nat /\ one(v, w) < 2
  OBVIOUS
<1> HIDE DEF one
<1>3. \A v, w : two(v, w) \in Nat /\ two(v, w) < 4
  BY <1>2
<1> HIDE DEF two
<1>4. \A v, w : four(v, w) \in Nat /\ four(v, w) < 16
  BY <1>3
<1> HIDE DEF four
<1>5. \A v, w : eight(v, w) \in Nat /\ eight(v, w) < 256
  BY <1>4
<1> HIDE DEF eight
<1> DEFINE high == eight(a \div 256, b \div 256)
           low == eight(a, b)
<1>6. high \in Nat /\ high < 256 /\ low \in Nat /\ low < 256 /\ Check!Xor(a, b) = 256 * high + low
  BY <1>1, <1>5, Zenon
<1> HIDE DEF high, low
<1>7. Check!Xor(a, b) \in Nat /\ Check!Xor(a, b) < 65536
  BY <1>6, SMT
<1> QED
  BY <1>7, SMT DEF Check!Word

LEMMA CheckBounds == MaxBytes \in Nat
  BY ExercisesAssumption DEF ExercisesAssumption

LEMMA CheckInit == ASSUME Check!Init PROVE CheckInv
<1>1. message = <<>> /\ crc = <<65535, 65535>>
  BY DEF Check!Init
<1>2. 65535 \in Check!Word
  BY SMT DEF Check!Word
<1>3. crc \in Check!Word \X Check!Word
  BY <1>1, <1>2
<1> QED
  BY <1>1, <1>3, CheckBounds DEF CheckInv

LEMMA CheckStep == ASSUME CheckInv, [Check!Crc32]_(Check!vars) PROVE CheckInv'
<1>1. CASE UNCHANGED Check!vars
  BY <1>1 DEF Check!vars, CheckInv
<1>2. CASE Check!Crc32
  <2>1. PICK b \in 0..255 : Check!ReadByte(b)
    BY <1>2 DEF Check!Crc32
  <2>2. message' \in Seq(0..255) /\ Len(message') <= MaxBytes
    <3>1. Len(message) < MaxBytes /\ message' = Append(message, b)
      BY <2>1 DEF Check!ReadByte
    <3>2. message \in Seq(0..255)
      BY DEF CheckInv
    <3> QED
      BY <3>1, <3>2, CheckBounds
  <2>3. \E v, w : crc' = Check!WordXor(v, w)
    BY <2>1 DEF Check!ReadByte
  <2>4. crc' \in Check!Word \X Check!Word
    BY <2>3, XorKeepsWidth DEF Check!WordXor
  <2> QED
    BY <2>2, <2>4 DEF CheckInv
<1> QED
  BY <1>1, <1>2

LEMMA CheckHolds == CheckInv => Check!TypeOK
  BY DEF CheckInv, Check!TypeOK
-----------------------------------------------------------------------------
(* The packages over TCP.  While both sockets are open the ends take       *)
(* turns: what is on its way is the rest of one package, as much of it as  *)
(* its reader still needs, and nothing goes the other way.  What is left   *)
(* on the wire by an end that has gone is the beginning of such a rest.    *)
TcpHeaders ==
    [size : {"host", "net"}, seq : Nat, tag : Tags \cup {"junk"},
     version : {<<>>} \cup ({"host"} \X Tags)]
TcpUnits == [part : {"A", "B", "M"}, hd : TcpHeaders]

TcpTypes ==
    /\ pc \in [Tcp!Ends -> {"input", "send", "head", "body", "reply", "closed", "killed"}]
    /\ hd \in [Tcp!Ends -> TcpHeaders]
    /\ out \in [Tcp!Ends -> Seq(TcpUnits)] /\ wire \in [Tcp!Ends -> Seq(TcpUnits)]
    /\ got \in [Tcp!Ends -> {0, 1}]
    /\ outcome \in [Tcp!Ends -> {"none", "error", "eof", "message"}]
    /\ fd \in [Tcp!Ends -> {"ok", "reset", "pipe", "shut"}]
    /\ sent \in Nat /\ sent <= MaxPackages
    /\ \A p \in Tcp!Ends : hd[p].seq <= 2 * sent

PartOf(m) == IF m = 1 THEN "A" ELSE IF m = 2 THEN "B" ELSE "M"
Unit(h, m) == [part |-> PartOf(m), hd |-> h]
Reading(p) == pc[p] \in {"head", "body"}
Needs(p) == IF pc[p] = "head" THEN 4 - got[p] ELSE 2 - got[p]
Turn(q) == IF q = "client" THEN 2 * sent - 1 ELSE 2 * sent
BothOpen == fd["client"] # "shut" /\ fd["server"] # "shut"

(* A descriptor is closed by an end that goes; the server may go on        *)
(* reading from one, but then its client has gone.                         *)
SocketsShut ==
    /\ fd["client"] = "shut" <=> pc["client"] \in {"closed", "killed"}
    /\ pc["server"] \in {"closed", "killed"} => fd["server"] = "shut"
    /\ fd["server"] = "shut" =>
          \/ pc["server"] \in {"closed", "killed"}
          \/ Reading("server") /\ got["server"] = 0 /\ fd["client"] = "shut"
    /\ \A p \in Tcp!Ends : fd[p] \in {"reset", "pipe"} => fd[Tcp!Peer(p)] = "shut"

Unsent ==
    \A p \in Tcp!Ends : pc[p] = "send" =>
        /\ out[p] # <<>> /\ Len(out[p]) <= 4
        /\ \A j \in 1..Len(out[p]) : out[p][j] = Unit(hd[p], 4 - Len(out[p]) + j)

(* What q has sent and p = Peer(q) has not read. *)
OnItsWay(q, p) ==
    /\ hd[q].size = "net" /\ hd[q].version = <<"host", hd[q].tag>> /\ hd[q].seq = Turn(q)
    /\ Reading(p) /\ Len(wire[q]) <= Needs(p)
    /\ \A j \in 1..Len(wire[q]) : wire[q][j] = Unit(hd[q], 4 - Needs(p) + j)
    /\ Needs(p) = 3 =>
          hd[p].size = "net" /\ hd[p].seq = hd[q].seq /\ hd[p].version = hd[q].version
    /\ Needs(p) <= 2 => hd[p].size = "host" /\ hd[p].seq = hd[q].seq

Arriving ==
    \A q \in Tcp!Ends : wire[q] # <<>> => fd[Tcp!Peer(q)] # "shut" /\ OnItsWay(q, Tcp!Peer(q))

Passing(q, p) ==
    /\ pc[q] = "send" \/ (pc[q] = "head" /\ got[q] = 0 /\ out[q] = <<>>)
    /\ OnItsWay(q, p) /\ Len(wire[q]) + Len(out[q]) = Needs(p)
    /\ wire[p] = <<>> /\ out[p] = <<>>

Quiet == \A p \in Tcp!Ends : wire[p] = <<>> /\ out[p] = <<>>
ClientsTurn ==
    /\ Quiet /\ pc["client"] = "input" /\ pc["server"] = "head" /\ got["server"] = 0
    /\ hd["client"].seq = 2 * sent
ServersTurn == Quiet /\ pc["client"] = "head" /\ got["client"] = 0 /\ pc["server"] = "reply"

Alternating ==
    BothOpen =>
        \/ Passing("client", "server") \/ Passing("server", "client")
        \/ ClientsTurn \/ ServersTurn

OfLatest ==
    /\ pc["server"] = "reply" => hd["server"].seq = 2 * sent - 1
    /\ pc["server"] = "body" /\ got["server"] = 1 => hd["server"].seq = 2 * sent - 1
    /\ pc["client"] = "body" /\ got["client"] = 1 => hd["client"].seq = 2 * sent
    /\ pc["client"] = "input" /\ outcome["client"] = "message" => hd["client"].seq = 2 * sent

TcpInv == TcpTypes /\ SocketsShut /\ Unsent /\ Arriving /\ Alternating /\ OfLatest

LEMMA Pairs ==
  ASSUME NEW p \in Tcp!Ends
  PROVE  \E q \in Tcp!Ends :
            /\ q # p /\ Tcp!Ends = {p, q} /\ Tcp!Peer(p) = q /\ Tcp!Peer(q) = p
            /\ (p = "client" /\ q = "server") \/ (p = "server" /\ q = "client")
<1>1. CASE p = "client"
  BY <1>1 DEF Tcp!Ends, Tcp!Peer
<1>2. CASE p = "server"
  BY <1>2 DEF Tcp!Ends, Tcp!Peer
<1> QED
  BY <1>1, <1>2 DEF Tcp!Ends

LEMMA Moved ==
  ASSUME NEW S, NEW a \in Seq(S), NEW b \in Seq(S), NEW k \in 1..Len(b)
  PROVE  /\ a \o SubSeq(b, 1, k) \in Seq(S)
         /\ SubSeq(b, k + 1, Len(b)) \in Seq(S)
         /\ Len(a \o SubSeq(b, 1, k)) = Len(a) + k
         /\ Len(SubSeq(b, k + 1, Len(b))) = Len(b) - k
         /\ \A j \in 1..Len(a) : (a \o SubSeq(b, 1, k))[j] = a[j]
         /\ \A j \in (Len(a) + 1)..(Len(a) + k) : (a \o SubSeq(b, 1, k))[j] = b[j - Len(a)]
         /\ \A j \in 1..(Len(b) - k) : SubSeq(b, k + 1, Len(b))[j] = b[k + j]
<1> DEFINE c == SubSeq(b, 1, k)
           d == SubSeq(b, k + 1, Len(b))
<1>0. Len(b) \in Nat /\ Len(a) \in Nat
  OBVIOUS
<1>1. c \in Seq(S) /\ Len(c) = k /\ \A j \in 1..k : c[j] = b[j]
  BY <1>0
<1>2. d \in Seq(S) /\ Len(d) = Len(b) - k /\ \A j \in 1..(Len(b) - k) : d[j] = b[k + j]
  BY <1>0
<1> HIDE DEF c, d
<1>3. a \o c \in Seq(S) /\ Len(a \o c) = Len(a) + k
  BY <1>1
<1>4. \A j \in 1..Len(a) : (a \o c)[j] = a[j]
  BY <1>1, <1>0
<1>5. \A j \in (Len(a) + 1)..(Len(a) + k) : (a \o c)[j] = b[j - Len(a)]
  BY <1>1, <1>0
<1> USE DEF c, d
<1> QED
  BY <1>2, <1>3, <1>4, <1>5

LEMMA TcpInit == ASSUME Tcp!Init PROVE TcpInv
<1>1. /\ pc = [p \in Tcp!Ends |-> IF p = "client" THEN "input" ELSE "head"]
      /\ hd = [p \in Tcp!Ends |-> [size |-> "host", seq |-> 0, tag |-> "junk", version |-> <<>>]]
      /\ out = [p \in Tcp!Ends |-> <<>>] /\ got = [p \in Tcp!Ends |-> 0]
      /\ outcome = [p \in Tcp!Ends |-> "none"] /\ wire = [p \in Tcp!Ends |-> <<>>]
      /\ fd = [p \in Tcp!Ends |-> "ok"] /\ sent = 0
  BY DEF Tcp!Init
<1>2. MaxPackages \in Nat
  BY ExercisesAssumption DEF ExercisesAssumption
<1>3. TcpTypes
  BY <1>1, <1>2 DEF TcpTypes, TcpHeaders, Tcp!Ends
<1>4. "client" \in Tcp!Ends /\ "server" \in Tcp!Ends
  BY DEF Tcp!Ends
<1>5. SocketsShut /\ Unsent /\ Arriving /\ OfLatest
  BY <1>1, <1>4 DEF SocketsShut, Unsent, Arriving, OfLatest
<1>6. ClientsTurn
  BY <1>1, <1>4 DEF ClientsTurn, Quiet
<1> QED
  BY <1>3, <1>5, <1>6 DEF TcpInv, Alternating

(* What the parts of the invariant say of one end and its peer.            *)
LEMMA TcpFacts ==
  ASSUME TcpInv, NEW p \in Tcp!Ends, NEW q \in Tcp!Ends, q # p,
         Tcp!Ends = {p, q}, Tcp!Peer(p) = q, Tcp!Peer(q) = p,
         (p = "client" /\ q = "server") \/ (p = "server" /\ q = "client")
  PROVE  /\ wire[q] # <<>> => fd[p] # "shut" /\ OnItsWay(q, p) /\ wire[p] = <<>>
         /\ pc[p] = "send" => wire[q] = <<>> /\ (BothOpen => Passing(p, q))
         /\ BothOpen <=> fd[p] # "shut" /\ fd[q] # "shut"
         /\ Reading(p) /\ Tcp!Ended(p) => wire[p] = <<>> /\ wire[q] = <<>> /\ ~BothOpen
<1> USE DEF TcpInv
<1>1. BothOpen <=> fd[p] # "shut" /\ fd[q] # "shut"
  BY DEF BothOpen
<1>2. /\ wire[q] # <<>> => fd[p] # "shut" /\ OnItsWay(q, p)
      /\ wire[p] # <<>> => fd[q] # "shut" /\ OnItsWay(p, q)
  BY DEF Arriving
<1>3. BothOpen => Passing(p, q) \/ Passing(q, p) \/ ClientsTurn \/ ServersTurn
  BY DEF Alternating
<1>4. wire[p] = <<>> \/ wire[q] = <<>>
  BY <1>1, <1>2, <1>3 DEF Passing, ClientsTurn, ServersTurn, Quiet
<1>5. ASSUME pc[p] = "send" PROVE wire[q] = <<>> /\ (BothOpen => Passing(p, q))
  <2>1. ~Reading(p)
    BY <1>5 DEF Reading
  <2>2. wire[q] = <<>>
    BY <1>2, <2>1 DEF OnItsWay
  <2>3. ~Passing(q, p)
    BY <2>1 DEF Passing, OnItsWay
  <2>4. ~ClientsTurn /\ ~ServersTurn
    BY <1>5 DEF ClientsTurn, ServersTurn
  <2> QED
    BY <1>3, <2>2, <2>3, <2>4
<1>6. ASSUME Reading(p), Tcp!Ended(p) PROVE wire[p] = <<>> /\ wire[q] = <<>> /\ ~BothOpen
  <2>1. CASE fd[q] = "shut"
    BY <1>1, <1>2, <1>6, <2>1 DEF Tcp!Ended
  <2>2. CASE fd[p] = "shut" /\ fd[q] # "shut"
    <3>1. pc[p] \notin {"closed", "killed"}
      BY <1>6 DEF Reading
    <3> QED
      BY <2>2, <3>1 DEF SocketsShut
  <2> QED
    BY <1>6, <2>1, <2>2 DEF Tcp!Ended
<1> QED
  BY <1>1, <1>2, <1>4, <1>5, <1>6

(* Who is killed reads nothing any more, and what it has not sent is lost. *)
LEMMA TcpKilled ==
  ASSUME TcpInv, NEW p \in Tcp!Ends, Tcp!Killed(p)
  PROVE  TcpInv'
<1>1. PICK q \in Tcp!Ends :
          /\ q # p /\ Tcp!Ends = {p, q} /\ Tcp!Peer(p) = q /\ Tcp!Peer(q) = p
          /\ (p = "client" /\ q = "server") \/ (p = "server" /\ q = "client")
  BY Pairs
<1>2. TcpTypes /\ SocketsShut /\ Unsent /\ Arriving /\ OfLatest
  BY DEF TcpInv
<1>3. /\ pc \in [Tcp!Ends -> {"input", "send", "head", "body", "reply", "closed", "killed"}]
      /\ wire \in [Tcp!Ends -> Seq(TcpUnits)]
      /\ fd \in [Tcp!Ends -> {"ok", "reset", "pipe", "shut"}]
  BY <1>2 DEF TcpTypes
<1>4. /\ pc' = [pc EXCEPT ![p] = "killed"] /\ wire' = [wire EXCEPT ![q] = <<>>]
      /\ fd' = [fd EXCEPT ![p] = "shut",
                          ![q] = IF wire[q] # <<>> THEN Tcp!Reset(@) ELSE @]
      /\ hd' = hd /\ out' = out /\ got' = got /\ outcome' = outcome /\ sent' = sent
  BY <1>1 DEF Tcp!Killed
<1>5. /\ pc'[p] = "killed" /\ pc'[q] = pc[q] /\ wire'[q] = <<>> /\ wire'[p] = wire[p]
      /\ fd'[p] = "shut" /\ fd'[q] \in {fd[q], "reset"} /\ (fd'[q] = "shut" <=> fd[q] = "shut")
      /\ fd' \in [Tcp!Ends -> {"ok", "reset", "pipe", "shut"}]
      /\ pc' \in [Tcp!Ends -> {"input", "send", "head", "body", "reply", "closed", "killed"}]
      /\ wire' \in [Tcp!Ends -> Seq(TcpUnits)]
  BY <1>1, <1>3, <1>4 DEF Tcp!Reset
<1>6. TcpTypes'
  BY <1>2, <1>4, <1>5 DEF TcpTypes
<1>7. SocketsShut'
  BY <1>1, <1>2, <1>3, <1>4, <1>5 DEF SocketsShut, Reading
<1>8. Unsent'
  <2>1. ASSUME NEW e \in Tcp!Ends, pc'[e] = "send"
        PROVE  /\ out'[e] # <<>> /\ Len(out'[e]) <= 4
               /\ \A j \in 1..Len(out'[e]) : out'[e][j] = Unit(hd'[e], 4 - Len(out'[e]) + j)
    <3>1. pc[e] = "send"
      BY <1>1, <1>5, <2>1
    <3> QED
      BY <1>2, <1>4, <3>1 DEF Unsent
  <2> QED
    BY <2>1 DEF Unsent
<1>9. Arriving'
  <2>1. ASSUME wire[p] # <<>> PROVE fd[q] # "shut" /\ OnItsWay(p, q)
    BY <1>1, <1>2, <2>1 DEF Arriving
  <2>2. OnItsWay(p, q) => OnItsWay(p, q)'
    <3>1. Needs(q)' = Needs(q) /\ Reading(q)' = Reading(q) /\ Turn(p)' = Turn(p)
      BY <1>4, <1>5 DEF Needs, Reading, Turn
    <3> QED
      BY <1>4, <1>5, <3>1 DEF OnItsWay
  <2> QED
    BY <1>1, <1>5, <2>1, <2>2 DEF Arriving
<1>10. Alternating'
  BY <1>1, <1>5 DEF Alternating, BothOpen
<1>11. OfLatest'
  BY <1>1, <1>2, <1>4, <1>5 DEF OfLatest
<1> QED
  BY <1>6, <1>7, <1>8, <1>9, <1>10, <1>11 DEF TcpInv

(* A part of the package is taken from what is to be sent.                 *)
LEMMA TcpTaken ==
  ASSUME TcpInv, NEW p \in Tcp!Ends, NEW q \in Tcp!Ends, q # p, Tcp!Ends = {p, q},
         pc[p] = "send", NEW k \in 1..Len(out[p]), hd' = hd,
         out' = [out EXCEPT ![p] = SubSeq(@, k + 1, Len(@))],
         IF k = Len(out[p])
         THEN pc' = [pc EXCEPT ![p] = "head"] /\ got' = [got EXCEPT ![p] = 0]
         ELSE UNCHANGED <<pc, got>>
  PROVE  /\ out' \in [Tcp!Ends -> Seq(TcpUnits)]
         /\ Len(out[p]) \in Nat /\ Len(out'[p]) = Len(out[p]) - k /\ out'[q] = out[q]
         /\ pc' \in [Tcp!Ends -> {"input", "send", "head", "body", "reply", "closed", "killed"}]
         /\ got' \in [Tcp!Ends -> {0, 1}]
         /\ pc'[q] = pc[q] /\ got'[q] = got[q]
         /\ \/ pc'[p] = "send"
            \/ pc'[p] = "head" /\ got'[p] = 0 /\ out'[p] = <<>>
         /\ Unsent'
<1>1. /\ pc \in [Tcp!Ends -> {"input", "send", "head", "body", "reply", "closed", "killed"}]
      /\ out \in [Tcp!Ends -> Seq(TcpUnits)] /\ got \in [Tcp!Ends -> {0, 1}]
      /\ Unsent
  BY DEF TcpInv, TcpTypes
<1>2. out[p] \in Seq(TcpUnits) /\ Len(out[p]) \in Nat
  BY <1>1
<1>3. out'[p] = SubSeq(out[p], k + 1, Len(out[p])) /\ out'[q] = out[q]
  BY <1>1
<1>4. /\ out'[p] \in Seq(TcpUnits) /\ Len(out'[p]) = Len(out[p]) - k
      /\ \A j \in 1..(Len(out[p]) - k) : out'[p][j] = out[p][k + j]
  BY <1>2, <1>3, Moved
<1>5. out' \in [Tcp!Ends -> Seq(TcpUnits)]
  BY <1>1, <1>4
<1>6. /\ pc' \in [Tcp!Ends -> {"input", "send", "head", "body", "reply", "closed", "killed"}]
      /\ got' \in [Tcp!Ends -> {0, 1}] /\ pc'[q] = pc[q] /\ got'[q] = got[q]
  BY <1>1
<1>7. IF k = Len(out[p]) THEN pc'[p] = "head" /\ got'[p] = 0 ELSE pc'[p] = "send"
  BY <1>1
<1>8. k = Len(out[p]) => out'[p] = <<>>
  BY <1>2, <1>4
<1>9. Unsent'
  <2>1. ASSUME pc'[p] = "send"
        PROVE  /\ out'[p] # <<>> /\ Len(out'[p]) <= 4
               /\ \A j \in 1..Len(out'[p]) : out'[p][j] = Unit(hd[p], 4 - Len(out'[p]) + j)
    <3>1. /\ Len(out[p]) <= 4
          /\ \A j \in 1..Len(out[p]) : out[p][j] = Unit(hd[p], 4 - Len(out[p]) + j)
      BY <1>1 DEF Unsent
    <3>2. k < Len(out[p]) /\ Len(out'[p]) = Len(out[p]) - k
      BY <1>2, <1>4, <1>7, <2>1
    <3>3. ASSUME NEW j \in 1..Len(out'[p])
          PROVE  out'[p][j] = Unit(hd[p], 4 - Len(out'[p]) + j)
      <4>1. out'[p][j] = out[p][k + j] /\ k + j \in 1..Len(out[p])
        BY <1>2, <1>4, <3>2
      <4>2. \A a, b, c \in Int : 4 - a + (b + c) = 4 - (a - b) + c
        OBVIOUS
      <4>3. Len(out[p]) \in Int /\ k \in Int /\ j \in Int
        BY <1>2, <3>2
      <4>4. 4 - Len(out[p]) + (k + j) = 4 - (Len(out[p]) - k) + j
        BY <4>2, <4>3
      <4>5. 4 - Len(out[p]) + (k + j) = 4 - Len(out'[p]) + j
        BY <3>2, <4>4
      <4> QED
        BY <3>1, <4>1, <4>5
    <3>4. out'[p] # <<>> /\ Len(out'[p]) <= 4
      <4>1. Len(out'[p]) # 0 /\ Len(out'[p]) <= 4
        BY <1>2, <3>1, <3>2
      <4> QED
        BY <4>1
    <3> QED
      BY <3>3, <3>4
  <2>2. ASSUME pc'[q] = "send"
        PROVE  /\ out'[q] # <<>> /\ Len(out'[q]) <= 4
               /\ \A j \in 1..Len(out'[q]) : out'[q][j] = Unit(hd[q], 4 - Len(out'[q]) + j)
    BY <1>1, <1>3, <1>6, <2>2 DEF Unsent
  <2> QED
    BY <2>1, <2>2 DEF Unsent
<1> QED
  BY <1>2, <1>3, <1>4, <1>5, <1>6, <1>7, <1>8, <1>9

LEMMA TcpWriteLost ==
  ASSUME TcpInv, NEW p \in Tcp!Ends, Tcp!WriteLost(p)
  PROVE  TcpInv'
<1>1. PICK q \in Tcp!Ends :
          /\ q # p /\ Tcp!Ends = {p, q} /\ Tcp!Peer(p) = q /\ Tcp!Peer(q) = p
          /\ (p = "client" /\ q = "server") \/ (p = "server" /\ q = "client")
  BY Pairs
<1>2. TcpTypes /\ SocketsShut /\ Arriving /\ OfLatest
  BY DEF TcpInv
<1>3. fd \in [Tcp!Ends -> {"ok", "reset", "pipe", "shut"}]
  BY <1>2 DEF TcpTypes
<1>4. /\ pc[p] = "send" /\ fd[p] = "ok" /\ fd[q] = "shut"
      /\ fd' \in {fd, [fd EXCEPT ![p] = "pipe"]}
      /\ hd' = hd /\ wire' = wire /\ outcome' = outcome /\ sent' = sent
  BY <1>1 DEF Tcp!WriteLost
<1>5. PICK k \in 1..Len(out[p]) :
         /\ out' = [out EXCEPT ![p] = SubSeq(@, k + 1, Len(@))]
         /\ IF k = Len(out[p])
            THEN pc' = [pc EXCEPT ![p] = "head"] /\ got' = [got EXCEPT ![p] = 0]
            ELSE UNCHANGED <<pc, got>>
  BY DEF Tcp!WriteLost
<1>6. /\ out' \in [Tcp!Ends -> Seq(TcpUnits)]
      /\ pc' \in [Tcp!Ends -> {"input", "send", "head", "body", "reply", "closed", "killed"}]
      /\ got' \in [Tcp!Ends -> {0, 1}]
      /\ pc'[q] = pc[q] /\ got'[q] = got[q] /\ pc'[p] \in {"send", "head"}
      /\ Unsent'
  BY <1>1, <1>4, <1>5, TcpTaken
<1>7. /\ fd' \in [Tcp!Ends -> {"ok", "reset", "pipe", "shut"}]
      /\ fd'[p] \in {"ok", "pipe"} /\ fd'[q] = "shut"
  BY <1>1, <1>3, <1>4
<1>8. wire[p] = <<>> /\ wire[q] = <<>>
  BY <1>1, <1>2, <1>4, TcpFacts DEF Arriving
<1>9. TcpTypes'
  BY <1>2, <1>4, <1>6, <1>7 DEF TcpTypes
<1>10. SocketsShut'
  BY <1>1, <1>2, <1>4, <1>6, <1>7 DEF SocketsShut, Reading
<1>11. Arriving' /\ Alternating'
  BY <1>1, <1>4, <1>7, <1>8 DEF Arriving, Alternating, BothOpen
<1>12. OfLatest'
  BY <1>1, <1>2, <1>4, <1>6 DEF OfLatest
<1> QED
  BY <1>6, <1>9, <1>10, <1>11, <1>12 DEF TcpInv

LEMMA TcpWriteFails ==
  ASSUME TcpInv, NEW p \in Tcp!Ends, Tcp!WriteFails(p)
  PROVE  TcpInv'
<1>1. PICK q \in Tcp!Ends :
          /\ q # p /\ Tcp!Ends = {p, q} /\ Tcp!Peer(p) = q /\ Tcp!Peer(q) = p
          /\ (p = "client" /\ q = "server") \/ (p = "server" /\ q = "client")
  BY Pairs
<1>2. TcpTypes /\ SocketsShut /\ Unsent /\ Arriving /\ OfLatest
  BY DEF TcpInv
<1>3. /\ fd \in [Tcp!Ends -> {"ok", "reset", "pipe", "shut"}]
      /\ pc \in [Tcp!Ends -> {"input", "send", "head", "body", "reply", "closed", "killed"}]
      /\ out \in [Tcp!Ends -> Seq(TcpUnits)] /\ got \in [Tcp!Ends -> {0, 1}]
  BY <1>2 DEF TcpTypes
<1>4. /\ pc[p] = "send" /\ fd[p] = "reset" /\ fd[q] = "shut"
      /\ fd' = [fd EXCEPT ![p] = "shut"] /\ out' = [out EXCEPT ![p] = <<>>]
      /\ pc' = [pc EXCEPT ![p] = IF p = "client" THEN "closed" ELSE "head"]
      /\ got' = [got EXCEPT ![p] = 0]
      /\ hd' = hd /\ wire' = wire /\ outcome' = outcome /\ sent' = sent
  BY <1>1, <1>2 DEF Tcp!WriteFails, SocketsShut
<1>5. /\ fd' \in [Tcp!Ends -> {"ok", "reset", "pipe", "shut"}]
      /\ pc' \in [Tcp!Ends -> {"input", "send", "head", "body", "reply", "closed", "killed"}]
      /\ out' \in [Tcp!Ends -> Seq(TcpUnits)] /\ got' \in [Tcp!Ends -> {0, 1}]
      /\ fd'[p] = "shut" /\ fd'[q] = "shut" /\ got'[p] = 0 /\ got'[q] = got[q]
      /\ pc'[p] = (IF p = "client" THEN "closed" ELSE "head") /\ pc'[q] = pc[q]
      /\ out'[q] = out[q]
  BY <1>1, <1>3, <1>4
<1>6. wire[p] = <<>> /\ wire[q] = <<>>
  BY <1>1, <1>2, <1>4, TcpFacts DEF Arriving
<1>7. TcpTypes'
  BY <1>2, <1>4, <1>5 DEF TcpTypes
<1>8. SocketsShut'
  BY <1>1, <1>2, <1>4, <1>5 DEF SocketsShut, Reading
<1>9. Unsent'
  <2>1. ASSUME NEW e \in Tcp!Ends, pc'[e] = "send"
        PROVE  /\ out'[e] # <<>> /\ Len(out'[e]) <= 4
               /\ \A j \in 1..Len(out'[e]) : out'[e][j] = Unit(hd'[e], 4 - Len(out'[e]) + j)
    <3>1. e = q /\ pc[e] = "send" /\ out'[e] = out[e]
      BY <1>1, <1>5, <2>1
    <3> QED
      BY <1>2, <1>4, <3>1 DEF Unsent
  <2> QED
    BY <2>1 DEF Unsent
<1>10. Arriving' /\ Alternating'
  BY <1>1, <1>4, <1>5, <1>6 DEF Arriving, Alternating, BothOpen
<1>11. OfLatest'
  BY <1>1, <1>2, <1>4, <1>5 DEF OfLatest
<1> QED
  BY <1>7, <1>8, <1>9, <1>10, <1>11 DEF TcpInv

LEMMA TcpWrite ==
  ASSUME TcpInv, NEW p \in Tcp!Ends, Tcp!Write(p)
  PROVE  TcpInv'
<1>1. PICK q \in Tcp!Ends :
          /\ q # p /\ Tcp!Ends = {p, q} /\ Tcp!Peer(p) = q /\ Tcp!Peer(q) = p
          /\ (p = "client" /\ q = "server") \/ (p = "server" /\ q = "client")
  BY Pairs
<1>2. TcpTypes /\ SocketsShut /\ Unsent /\ OfLatest
  BY DEF TcpInv
<1>3. wire \in [Tcp!Ends -> Seq(TcpUnits)] /\ out \in [Tcp!Ends -> Seq(TcpUnits)]
  BY <1>2 DEF TcpTypes
<1>4. /\ pc[p] = "send" /\ fd[p] = "ok" /\ fd[q] = "ok"
      /\ hd' = hd /\ outcome' = outcome /\ fd' = fd /\ sent' = sent
  BY <1>1 DEF Tcp!Write
<1>5. PICK k \in 1..Len(out[p]) :
         /\ wire' = [wire EXCEPT ![p] = @ \o SubSeq(out[p], 1, k)]
         /\ out' = [out EXCEPT ![p] = SubSeq(@, k + 1, Len(@))]
         /\ IF k = Len(out[p])
            THEN pc' = [pc EXCEPT ![p] = "head"] /\ got' = [got EXCEPT ![p] = 0]
            ELSE UNCHANGED <<pc, got>>
  BY DEF Tcp!Write
<1>6. /\ out' \in [Tcp!Ends -> Seq(TcpUnits)]
      /\ Len(out[p]) \in Nat /\ Len(out'[p]) = Len(out[p]) - k /\ out'[q] = out[q]
      /\ pc' \in [Tcp!Ends -> {"input", "send", "head", "body", "reply", "closed", "killed"}]
      /\ got' \in [Tcp!Ends -> {0, 1}]
      /\ pc'[q] = pc[q] /\ got'[q] = got[q]
      /\ \/ pc'[p] = "send"
         \/ pc'[p] = "head" /\ got'[p] = 0 /\ out'[p] = <<>>
      /\ Unsent'
  BY <1>1, <1>4, <1>5, TcpTaken
<1>7. wire[q] = <<>> /\ Passing(p, q)
  BY <1>1, <1>4, TcpFacts
<1>8. /\ wire'[p] = wire[p] \o SubSeq(out[p], 1, k) /\ wire'[q] = wire[q]
      /\ wire[p] \in Seq(TcpUnits) /\ out[p] \in Seq(TcpUnits)
  BY <1>1, <1>3, <1>5
<1>9. /\ wire'[p] \in Seq(TcpUnits) /\ Len(wire'[p]) = Len(wire[p]) + k
      /\ \A j \in 1..Len(wire[p]) : wire'[p][j] = wire[p][j]
      /\ \A j \in (Len(wire[p]) + 1)..(Len(wire[p]) + k) : wire'[p][j] = out[p][j - Len(wire[p])]
  BY <1>8, Moved
<1>10. wire' \in [Tcp!Ends -> Seq(TcpUnits)]
  BY <1>3, <1>5, <1>8, <1>9
<1>11. OnItsWay(p, q)'
  <2>1. Len(wire[p]) \in Nat /\ Len(out[p]) \in Nat
    BY <1>6, <1>8
  <2>2. Needs(q)' = Needs(q)
    BY <1>6 DEF Needs
  <2>3. Len(wire[p]) + Len(out[p]) = Needs(q)
    BY <1>7 DEF Passing
  <2>4. Len(wire'[p]) <= Needs(q)
    <3>1. k \in Int /\ k <= Len(out[p])
      BY <2>1
    <3>2. Len(wire[p]) + k <= Len(wire[p]) + Len(out[p])
      BY <2>1, <3>1
    <3> QED
      BY <1>9, <2>3, <3>2
  <2>5. ASSUME NEW j \in 1..Len(wire'[p]) PROVE wire'[p][j] = Unit(hd[p], 4 - Needs(q) + j)
    <3>1. CASE j <= Len(wire[p])
      <4>1. j \in 1..Len(wire[p])
        BY <2>1, <3>1
      <4> QED
        BY <1>7, <1>9, <4>1 DEF Passing, OnItsWay
    <3>2. CASE j > Len(wire[p])
      <4>1. /\ j \in (Len(wire[p]) + 1)..(Len(wire[p]) + k)
            /\ j - Len(wire[p]) \in 1..Len(out[p])
        BY <1>9, <2>1, <3>2
      <4>2. out[p][j - Len(wire[p])] = Unit(hd[p], 4 - Len(out[p]) + (j - Len(wire[p])))
        BY <1>2, <1>4, <4>1 DEF Unsent
      <4>3. \A a, b, c \in Int : 4 - a + (c - b) = 4 - (b + a) + c
        OBVIOUS
      <4>4. Len(out[p]) \in Int /\ Len(wire[p]) \in Int /\ j \in Int
        BY <2>1, <4>1
      <4>5. 4 - Len(out[p]) + (j - Len(wire[p])) = 4 - (Len(wire[p]) + Len(out[p])) + j
        BY <4>3, <4>4
      <4> QED
        BY <1>9, <2>3, <4>1, <4>2, <4>5
    <3> QED
      BY <1>9, <2>1, <3>1, <3>2
  <2>6. Turn(p)' = Turn(p)
    BY <1>4 DEF Turn
  <2>7. Reading(q)' = Reading(q)
    BY <1>6 DEF Reading
  <2> QED
    BY <1>4, <1>7, <2>2, <2>4, <2>5, <2>6, <2>7 DEF Passing, OnItsWay
<1>12. Passing(p, q)'
  <2>1. Needs(q)' = Needs(q) /\ Len(wire[p]) \in Nat
    BY <1>6, <1>8 DEF Needs
  <2>2. Len(wire'[p]) + Len(out'[p]) = Needs(q)
    <3>1. k \in Int /\ Len(wire[p]) \in Int /\ Len(out[p]) \in Int
      BY <1>6, <2>1
    <3>2. \A a, b, c \in Int : (a + c) + (b - c) = a + b
      OBVIOUS
    <3>3. (Len(wire[p]) + k) + (Len(out[p]) - k) = Len(wire[p]) + Len(out[p])
      BY <3>1, <3>2
    <3> QED
      BY <1>6, <1>7, <1>9, <3>3 DEF Passing
  <2> QED
    BY <1>6, <1>7, <1>8, <1>11, <2>1, <2>2 DEF Passing
<1>13. TcpTypes'
  BY <1>2, <1>4, <1>6, <1>10 DEF TcpTypes
<1>14. SocketsShut'
  BY <1>1, <1>2, <1>4, <1>6 DEF SocketsShut, Reading
<1>15. Arriving'
  BY <1>1, <1>4, <1>7, <1>8, <1>11 DEF Arriving
<1>16. Alternating'
  BY <1>1, <1>12 DEF Alternating
<1>17. OfLatest'
  BY <1>1, <1>2, <1>4, <1>6 DEF OfLatest
<1> QED
  BY <1>6, <1>13, <1>14, <1>15, <1>16, <1>17 DEF TcpInv

LEMMA TailOf ==
  ASSUME NEW S, NEW a \in Seq(S), a # <<>>
  PROVE  /\ Head(a) = a[1] /\ 1 \in 1..Len(a) /\ Tail(a) \in Seq(S)
         /\ Len(a) \in Nat /\ Len(a) > 0 /\ Len(Tail(a)) = Len(a) - 1
         /\ \A j \in 1..(Len(a) - 1) : Tail(a)[j] = a[j + 1]
  OBVIOUS

(* A unit is read and the package goes on.                                 *)
LEMMA TcpReadOn ==
  ASSUME TcpInv, NEW p \in Tcp!Ends, NEW q \in Tcp!Ends, q # p,
         Tcp!Ends = {p, q}, Tcp!Peer(p) = q, Tcp!Peer(q) = p,
         (p = "client" /\ q = "server") \/ (p = "server" /\ q = "client"),
         Reading(p), wire[q] # <<>>, fd[p] # "shut",
         wire' = [wire EXCEPT ![q] = Tail(@)],
         out' = out, fd' = fd, sent' = sent, outcome' = outcome,
         hd' \in [Tcp!Ends -> TcpHeaders], hd'[q] = hd[q], hd'[p].seq <= 2 * sent,
         pc' \in [Tcp!Ends -> {"input", "send", "head", "body", "reply", "closed", "killed"}],
         got' \in [Tcp!Ends -> {0, 1}], pc'[q] = pc[q], got'[q] = got[q],
         Reading(p)', Needs(p)' = Needs(p) - 1,
         Needs(p)' = 3 =>
            hd'[p].size = "net" /\ hd'[p].seq = hd[q].seq /\ hd'[p].version = hd[q].version,
         Needs(p)' <= 2 => hd'[p].size = "host" /\ hd'[p].seq = hd[q].seq
  PROVE  TcpInv'
<1>1. TcpTypes /\ SocketsShut /\ Unsent /\ Alternating /\ OfLatest
  BY DEF TcpInv
<1>2. OnItsWay(q, p) /\ wire[p] = <<>>
  BY TcpFacts
<1>3. /\ wire \in [Tcp!Ends -> Seq(TcpUnits)] /\ got \in [Tcp!Ends -> {0, 1}]
      /\ out \in [Tcp!Ends -> Seq(TcpUnits)]
      /\ \A e \in Tcp!Ends : hd[e].seq <= 2 * sent
  BY <1>1 DEF TcpTypes
<1>4. wire'[q] = Tail(wire[q]) /\ wire'[p] = <<>> /\ wire[q] \in Seq(TcpUnits)
  BY <1>2, <1>3
<1>5. /\ wire'[q] \in Seq(TcpUnits) /\ Len(wire[q]) \in Nat /\ Len(wire'[q]) = Len(wire[q]) - 1
      /\ Len(wire[q]) > 0
      /\ \A j \in 1..Len(wire'[q]) : wire'[q][j] = wire[q][j + 1]
  <2>1. /\ Tail(wire[q]) \in Seq(TcpUnits) /\ Len(wire[q]) \in Nat /\ Len(wire[q]) > 0
        /\ Len(Tail(wire[q])) = Len(wire[q]) - 1
        /\ \A j \in 1..(Len(wire[q]) - 1) : Tail(wire[q])[j] = wire[q][j + 1]
    BY <1>4, TailOf
  <2> QED
    BY <1>4, <2>1
<1>6. wire' \in [Tcp!Ends -> Seq(TcpUnits)]
  BY <1>3, <1>5
<1>7. Needs(p) \in Int
  BY <1>3 DEF Needs
<1>8. OnItsWay(q, p)'
  <2>1. Len(wire'[q]) <= Needs(p) - 1
    BY <1>2, <1>5, <1>7 DEF OnItsWay
  <2>2. ASSUME NEW j \in 1..Len(wire'[q])
        PROVE  wire'[q][j] = Unit(hd[q], 4 - (Needs(p) - 1) + j)
    <3>1. wire'[q][j] = wire[q][j + 1] /\ j + 1 \in 1..Len(wire[q]) /\ j \in Int
      BY <1>5
    <3>2. wire[q][j + 1] = Unit(hd[q], 4 - Needs(p) + (j + 1))
      BY <1>2, <3>1 DEF OnItsWay
    <3>3. \A a, b \in Int : 4 - a + (b + 1) = 4 - (a - 1) + b
      OBVIOUS
    <3>4. 4 - Needs(p) + (j + 1) = 4 - (Needs(p) - 1) + j
      BY <1>7, <3>1, <3>3
    <3> QED
      BY <3>1, <3>2, <3>4
  <2>3. Turn(q)' = Turn(q)
    BY DEF Turn
  <2> QED
    BY <1>2, <2>1, <2>2, <2>3 DEF OnItsWay
<1>9. TcpTypes'
  <2>1. \A e \in Tcp!Ends : hd'[e].seq <= 2 * sent
    BY <1>3
  <2> QED
    BY <1>1, <1>6, <2>1 DEF TcpTypes
<1>10. SocketsShut'
  BY <1>1 DEF SocketsShut, Reading
<1>11. Unsent'
  <2>1. ASSUME NEW e \in Tcp!Ends, pc'[e] = "send"
        PROVE  /\ out'[e] # <<>> /\ Len(out'[e]) <= 4
               /\ \A j \in 1..Len(out'[e]) : out'[e][j] = Unit(hd'[e], 4 - Len(out'[e]) + j)
    <3>1. e = q
      BY <2>1 DEF Reading
    <3> QED
      BY <1>1, <2>1, <3>1 DEF Unsent
  <2> QED
    BY <2>1 DEF Unsent
<1>12. Arriving'
  BY <1>4, <1>8 DEF Arriving
<1>13. Alternating'
  <2>1. ASSUME BothOpen PROVE Passing(q, p)
    BY <1>1, <2>1 DEF Alternating, Passing, ClientsTurn, ServersTurn, Quiet
  <2>2. ASSUME Passing(q, p) PROVE Passing(q, p)'
    <3>1. Len(wire[q]) + Len(out[q]) = Needs(p) /\ Len(out[q]) \in Nat
      BY <1>3, <2>2 DEF Passing
    <3>2. \A a, b \in Int : (a - 1) + b = (a + b) - 1
      OBVIOUS
    <3>3. Len(wire[q]) \in Int /\ Len(out[q]) \in Int
      BY <1>5, <3>1
    <3>4. (Len(wire[q]) - 1) + Len(out[q]) = (Len(wire[q]) + Len(out[q])) - 1
      BY <3>2, <3>3
    <3>5. Len(wire'[q]) + Len(out[q]) = Needs(p) - 1
      BY <1>5, <3>1, <3>4
    <3> QED
      BY <1>4, <1>8, <2>2, <3>5 DEF Passing
  <2>3. BothOpen' <=> BothOpen
    BY DEF BothOpen
  <2> QED
    BY <2>1, <2>2, <2>3 DEF Alternating
<1>14. OfLatest'
  <2>1. pc'[p] = "body" /\ got'[p] = 1 => hd'[p].seq = Turn(q)
    BY <1>2 DEF OnItsWay, Needs
  <2>2. /\ pc'[p] \notin {"input", "reply"}
        /\ pc[p] \notin {"input", "reply"}
    BY DEF Reading
  <2> QED
    BY <1>1, <2>1, <2>2 DEF OfLatest, Turn
<1> QED
  BY <1>9, <1>10, <1>11, <1>12, <1>13, <1>14 DEF TcpInv

LEMMA TcpReadHead ==
  ASSUME TcpInv, NEW p \in Tcp!Ends, Tcp!ReadHead(p)
  PROVE  TcpInv'
<1>1. PICK q \in Tcp!Ends :
          /\ q # p /\ Tcp!Ends = {p, q} /\ Tcp!Peer(p) = q /\ Tcp!Peer(q) = p
          /\ (p = "client" /\ q = "server") \/ (p = "server" /\ q = "client")
  BY Pairs
<1>2. TcpTypes
  BY DEF TcpInv
<1>3. /\ hd \in [Tcp!Ends -> TcpHeaders] /\ got \in [Tcp!Ends -> {0, 1}]
      /\ pc \in [Tcp!Ends -> {"input", "send", "head", "body", "reply", "closed", "killed"}]
      /\ wire \in [Tcp!Ends -> Seq(TcpUnits)] /\ \A e \in Tcp!Ends : hd[e].seq <= 2 * sent
  BY <1>2 DEF TcpTypes
<1>4. /\ pc[p] = "head" /\ wire[q] # <<>> /\ fd[p] # "shut"
      /\ wire' = [wire EXCEPT ![q] = Tail(@)] /\ out' = out /\ fd' = fd /\ sent' = sent
  BY <1>1 DEF Tcp!ReadHead, Tcp!Arrived
<1>5. OnItsWay(q, p)
  BY <1>1, <1>4, TcpFacts
<1>6. hd[p] \in TcpHeaders /\ hd[q] \in TcpHeaders
  BY <1>3
<1>7. Head(wire[q]) = Unit(hd[q], 4 - Needs(p) + 1)
  <2>1. Head(wire[q]) = wire[q][1] /\ 1 \in 1..Len(wire[q])
    BY <1>3, <1>4, TailOf
  <2> QED
    BY <1>5, <2>1 DEF OnItsWay
<1>8. CASE got[p] = 0
  <2>1. Needs(p) = 4 /\ Reading(p)
    BY <1>4, <1>8 DEF Needs, Reading
  <2>2. Head(wire[q]).part = "A" /\ Head(wire[q]).hd = hd[q]
    BY <1>7, <2>1 DEF Unit, PartOf
  <2> DEFINE h == Tcp!Filled(hd[p], Head(wire[q]))
  <2>3. h = [hd[p] EXCEPT !.size = hd[q].size, !.seq = hd[q].seq, !.version = hd[q].version]
    BY <2>2 DEF Tcp!Filled
  <2>4. /\ h \in TcpHeaders /\ h.size = "net" /\ h.seq = hd[q].seq /\ h.version = hd[q].version
    BY <1>5, <1>6, <2>3 DEF OnItsWay, TcpHeaders
  <2>5. /\ got' = [got EXCEPT ![p] = 1] /\ hd' = [hd EXCEPT ![p] = h]
        /\ pc' = pc /\ outcome' = outcome
    BY <1>1, <1>8 DEF Tcp!ReadHead
  <2> HIDE DEF h
  <2>6. /\ hd' \in [Tcp!Ends -> TcpHeaders] /\ hd'[p] = h /\ hd'[q] = hd[q]
        /\ got' \in [Tcp!Ends -> {0, 1}] /\ got'[p] = 1 /\ got'[q] = got[q]
    BY <1>1, <1>3, <2>4, <2>5
  <2>7. Needs(p)' = 3 /\ Reading(p)'
    BY <1>4, <2>5, <2>6 DEF Needs, Reading
  <2>8. hd'[p].seq <= 2 * sent
    BY <1>3, <2>4, <2>6
  <2> QED
    BY <1>1, <1>3, <1>4, <2>1, <2>4, <2>5, <2>6, <2>7, <2>8, TcpReadOn
<1>9. CASE got[p] = 1
  <2>1. Needs(p) = 3 /\ Reading(p)
    BY <1>4, <1>9 DEF Needs, Reading
  <2>2. Head(wire[q]) = [part |-> "B", hd |-> hd[q]]
    BY <1>7, <2>1 DEF Unit, PartOf
  <2> DEFINE h == Tcp!Filled(hd[p], Head(wire[q]))
             m == [h EXCEPT !.size = Tcp!Swap(@)]
  <2>3. h = [hd[p] EXCEPT !.tag = hd[q].tag]
    BY <2>2 DEF Tcp!Filled
  <2>4. Tcp!Checked(p, h)
    BY <1>1, <1>9 DEF Tcp!ReadHead
  <2>5. /\ h \in TcpHeaders /\ h.size = "net" /\ h.seq = hd[q].seq /\ h.tag = hd[q].tag
        /\ h.version = <<"host", hd[q].tag>>
    BY <1>5, <1>6, <2>1, <2>3 DEF OnItsWay, TcpHeaders
  <2> HIDE DEF h
  <2>6. /\ m \in TcpHeaders /\ m.size = "host" /\ m.seq = hd[q].seq
        /\ m.version = <<"host", m.tag>>
    BY <2>5 DEF TcpHeaders, Tcp!Swap
  <2>7. Tcp!Valid(m) = {TRUE}
    BY <2>6 DEF Tcp!Valid, Tcp!Encrypt
  <2>8. /\ hd' = [hd EXCEPT ![p] = m] /\ got' = [got EXCEPT ![p] = 0]
        /\ pc' = [pc EXCEPT ![p] = "body"] /\ outcome' = outcome
    BY <2>4, <2>7 DEF Tcp!Checked
  <2> HIDE DEF m
  <2>9. /\ hd' \in [Tcp!Ends -> TcpHeaders] /\ hd'[p] = m /\ hd'[q] = hd[q]
        /\ got' \in [Tcp!Ends -> {0, 1}] /\ got'[p] = 0 /\ got'[q] = got[q]
        /\ pc' \in [Tcp!Ends -> {"input", "send", "head", "body", "reply", "closed", "killed"}]
        /\ pc'[p] = "body" /\ pc'[q] = pc[q]
    BY <1>1, <1>3, <2>6, <2>8
  <2>10. Needs(p)' = 2 /\ Reading(p)'
    BY <2>9 DEF Needs, Reading
  <2>11. hd'[p].seq <= 2 * sent
    BY <1>3, <2>6, <2>9
  <2> QED
    BY <1>1, <1>4, <2>1, <2>6, <2>8, <2>9, <2>10, <2>11, TcpReadOn
<1> QED
  BY <1>3, <1>8, <1>9

LEMMA LastOne ==
  ASSUME NEW S, NEW a \in Seq(S), a # <<>>, Len(a) <= 1
  PROVE  Len(a) = 1 /\ Tail(a) = <<>>
<1>1. /\ Tail(a) \in Seq(S) /\ Len(a) \in Nat /\ Len(a) > 0 /\ Len(Tail(a)) = Len(a) - 1
  BY TailOf
<1>2. Len(a) = 1
  BY <1>1
<1>3. Len(Tail(a)) = 0
  BY <1>1, <1>2
<1> QED
  BY <1>1, <1>2, <1>3, EmptySeq

LEMMA TcpReadBody ==
  ASSUME TcpInv, NEW p \in Tcp!Ends, Tcp!ReadBody(p)
  PROVE  TcpInv'
<1>1. PICK q \in Tcp!Ends :
          /\ q # p /\ Tcp!Ends = {p, q} /\ Tcp!Peer(p) = q /\ Tcp!Peer(q) = p
          /\ (p = "client" /\ q = "server") \/ (p = "server" /\ q = "client")
  BY Pairs
<1>2. TcpTypes /\ SocketsShut /\ Unsent /\ Alternating /\ OfLatest
  BY DEF TcpInv
<1>3. /\ hd \in [Tcp!Ends -> TcpHeaders] /\ got \in [Tcp!Ends -> {0, 1}]
      /\ pc \in [Tcp!Ends -> {"input", "send", "head", "body", "reply", "closed", "killed"}]
      /\ wire \in [Tcp!Ends -> Seq(TcpUnits)] /\ out \in [Tcp!Ends -> Seq(TcpUnits)]
      /\ outcome \in [Tcp!Ends -> {"none", "error", "eof", "message"}]
      /\ \A e \in Tcp!Ends : hd[e].seq <= 2 * sent
  BY <1>2 DEF TcpTypes
<1>4. /\ pc[p] = "body" /\ wire[q] # <<>> /\ fd[p] # "shut"
      /\ wire' = [wire EXCEPT ![q] = Tail(@)]
      /\ hd' = hd /\ out' = out /\ fd' = fd /\ sent' = sent
  BY <1>1 DEF Tcp!ReadBody, Tcp!Arrived
<1>5. OnItsWay(q, p) /\ wire[p] = <<>>
  BY <1>1, <1>4, TcpFacts
<1>6. CASE got[p] = 0
  <2>1. Needs(p) = 2 /\ Reading(p)
    BY <1>4, <1>6 DEF Needs, Reading
  <2>2. got' = [got EXCEPT ![p] = 1] /\ pc' = pc /\ outcome' = outcome
    BY <1>6 DEF Tcp!ReadBody
  <2>3. got' \in [Tcp!Ends -> {0, 1}] /\ got'[p] = 1 /\ got'[q] = got[q]
    BY <1>1, <1>3, <2>2
  <2>4. Needs(p)' = 1 /\ Reading(p)'
    BY <1>4, <2>2, <2>3 DEF Needs, Reading
  <2>5. hd[p].size = "host" /\ hd[p].seq = hd[q].seq
    BY <1>5, <2>1 DEF OnItsWay
  <2> QED
    BY <1>1, <1>3, <1>4, <2>1, <2>2, <2>3, <2>4, <2>5, TcpReadOn
<1>7. CASE got[p] = 1
  <2>1. Needs(p) = 1
    BY <1>4, <1>7 DEF Needs
  <2>2. hd[p].size = "host" /\ hd[p].seq = Turn(q) /\ Len(wire[q]) <= 1
    BY <1>5, <2>1 DEF OnItsWay
  <2>3. /\ outcome' = [outcome EXCEPT ![p] = "message"] /\ got' = [got EXCEPT ![p] = 0]
        /\ pc' = [pc EXCEPT ![p] = IF p = "client" THEN "input" ELSE "reply"]
    BY <1>7, <2>2 DEF Tcp!ReadBody, Tcp!Received
  <2>4. /\ outcome' \in [Tcp!Ends -> {"none", "error", "eof", "message"}]
        /\ outcome'[q] = outcome[q]
        /\ got' \in [Tcp!Ends -> {0, 1}] /\ got'[p] = 0 /\ got'[q] = got[q]
        /\ pc' \in [Tcp!Ends -> {"input", "send", "head", "body", "reply", "closed", "killed"}]
        /\ pc'[p] = (IF p = "client" THEN "input" ELSE "reply") /\ pc'[q] = pc[q]
    BY <1>1, <1>3, <2>3
  <2>5. Len(wire[q]) = 1 /\ wire'[q] = <<>> /\ wire'[p] = <<>>
    <3>1. wire[q] \in Seq(TcpUnits)
      BY <1>3
    <3>2. Len(wire[q]) = 1 /\ Tail(wire[q]) = <<>>
      BY <1>4, <2>2, <3>1, LastOne
    <3> QED
      BY <1>1, <1>3, <1>4, <1>5, <3>2
  <2>6. wire' \in [Tcp!Ends -> Seq(TcpUnits)]
    <3>1. Tail(wire[q]) \in Seq(TcpUnits)
      BY <1>3, <1>4, TailOf
    <3> QED
      BY <1>3, <1>4, <3>1
  <2>7. TcpTypes'
    BY <1>2, <1>4, <2>4, <2>6 DEF TcpTypes
  <2>8. SocketsShut'
    BY <1>1, <1>2, <1>4, <2>4 DEF SocketsShut, Reading
  <2>9. Unsent'
    <3>1. ASSUME NEW e \in Tcp!Ends, pc'[e] = "send"
          PROVE  /\ out'[e] # <<>> /\ Len(out'[e]) <= 4
                 /\ \A j \in 1..Len(out'[e]) : out'[e][j] = Unit(hd'[e], 4 - Len(out'[e]) + j)
      <4>1. e = q
        BY <1>1, <2>4, <3>1
      <4> QED
        BY <1>2, <1>4, <2>4, <3>1, <4>1 DEF Unsent
    <3> QED
      BY <3>1 DEF Unsent
  <2>10. Arriving'
    BY <1>1, <2>5 DEF Arriving
  <2>11. Alternating'
    <3>1. ASSUME BothOpen PROVE Passing(q, p)
      BY <1>1, <1>2, <1>4, <3>1 DEF Alternating, Passing, ClientsTurn, ServersTurn, Quiet
    <3>2. ASSUME Passing(q, p) PROVE out[q] = <<>> /\ out[p] = <<>> /\ pc[q] = "head" /\ got[q] = 0
      <4>1. Len(wire[q]) + Len(out[q]) = Needs(p) /\ out[q] \in Seq(TcpUnits)
        BY <1>3, <3>2 DEF Passing
      <4>2. out[q] = <<>>
        BY <2>1, <2>5, <4>1
      <4> QED
        BY <1>2, <3>2, <4>2 DEF Passing, Unsent
    <3>3. ASSUME Passing(q, p) PROVE ClientsTurn' \/ ServersTurn'
      <4>1. Quiet'
        BY <1>1, <1>4, <2>5, <3>2, <3>3 DEF Quiet
      <4>2. CASE p = "client"
        BY <1>1, <1>4, <2>2, <2>4, <3>2, <3>3, <4>1, <4>2 DEF ClientsTurn, Turn
      <4>3. CASE p = "server"
        BY <1>1, <1>4, <2>4, <3>2, <3>3, <4>1, <4>3 DEF ServersTurn
      <4> QED
        BY <1>1, <4>2, <4>3
    <3>4. BothOpen' <=> BothOpen
      BY <1>4 DEF BothOpen
    <3> QED
      BY <3>1, <3>3, <3>4 DEF Alternating
  <2>12. OfLatest'
    BY <1>1, <1>2, <1>4, <2>2, <2>4 DEF OfLatest, Turn
  <2> QED
    BY <2>7, <2>8, <2>9, <2>10, <2>11, <2>12 DEF TcpInv
<1> QED
  BY <1>3, <1>6, <1>7

(* The stream has ended: nothing is on its way any more, in either         *)
(* direction, and what the reader makes of the end touches nobody else.    *)
LEMMA TcpAfterEnd ==
  ASSUME TcpInv, NEW p \in Tcp!Ends, NEW q \in Tcp!Ends, q # p,
         Tcp!Ends = {p, q}, Tcp!Peer(p) = q, Tcp!Peer(q) = p,
         (p = "client" /\ q = "server") \/ (p = "server" /\ q = "client"),
         Reading(p), Tcp!Ended(p),
         wire' = wire, out' = out, sent' = sent,
         hd' \in [Tcp!Ends -> TcpHeaders], hd'[q] = hd[q], hd'[p].seq = hd[p].seq,
         pc' \in [Tcp!Ends -> {"input", "send", "head", "body", "reply", "closed", "killed"}],
         got' \in [Tcp!Ends -> {0, 1}],
         outcome' \in [Tcp!Ends -> {"none", "error", "eof", "message"}],
         fd' \in [Tcp!Ends -> {"ok", "reset", "pipe", "shut"}],
         pc'[q] = pc[q], got'[q] = got[q], outcome'[q] = outcome[q], fd'[q] = fd[q],
         got'[p] = 0,
         fd'[p] \in {"reset", "pipe"} => fd[p] \in {"reset", "pipe"},
         fd[p] = "shut" => fd'[p] = "shut",
         p = "client" => pc'[p] \in {"body", "input"} /\ fd'[p] # "shut",
         p = "server" =>
            \/ pc'[p] \in {"body", "head"} /\ (fd'[p] = "shut" => fd[p] = "shut")
            \/ pc'[p] = "reply" /\ fd'[p] # "shut" /\ hd[p].seq = Turn(q)
            \/ pc'[p] = "closed" /\ fd'[p] = "shut",
         pc'[p] = "input" /\ outcome'[p] = "message" => hd[p].seq = Turn(q)
  PROVE  TcpInv'
<1>1. TcpTypes /\ SocketsShut /\ Unsent /\ OfLatest
  BY DEF TcpInv
<1>2. wire[p] = <<>> /\ wire[q] = <<>> /\ ~BothOpen
  BY TcpFacts
<1>3. fd[p] = "shut" => p = "server" /\ fd[q] = "shut"
  BY <1>1 DEF SocketsShut, Reading
<1>4. TcpTypes'
  <2>1. \A e \in Tcp!Ends : hd'[e].seq <= 2 * sent
    BY <1>1 DEF TcpTypes
  <2> QED
    BY <1>1, <2>1 DEF TcpTypes
<1>5. SocketsShut'
  BY <1>1, <1>3 DEF SocketsShut, Reading
<1>6. Unsent'
  <2>1. ASSUME NEW e \in Tcp!Ends, pc'[e] = "send"
        PROVE  /\ out'[e] # <<>> /\ Len(out'[e]) <= 4
               /\ \A j \in 1..Len(out'[e]) : out'[e][j] = Unit(hd'[e], 4 - Len(out'[e]) + j)
    <3>1. e = q
      BY <2>1
    <3>2. pc[q] = "send"
      BY <2>1, <3>1
    <3>3. /\ out[q] # <<>> /\ Len(out[q]) <= 4
          /\ \A j \in 1..Len(out[q]) : out[q][j] = Unit(hd[q], 4 - Len(out[q]) + j)
      BY <1>1, <3>2 DEF Unsent
    <3> QED
      BY <3>1, <3>3
  <2> QED
    BY <2>1 DEF Unsent
<1>7. Arriving' /\ Alternating'
  <2>1. ~BothOpen'
    BY <1>2 DEF BothOpen
  <2> QED
    BY <1>2, <2>1 DEF Arriving, Alternating
<1>8. OfLatest'
  BY <1>1 DEF OfLatest, Turn
<1> QED
  BY <1>4, <1>5, <1>6, <1>7, <1>8 DEF TcpInv

LEMMA TcpHeadEnds ==
  ASSUME TcpInv, NEW p \in Tcp!Ends, Tcp!HeadEnds(p)
  PROVE  TcpInv'
<1>1. PICK q \in Tcp!Ends :
          /\ q # p /\ Tcp!Ends = {p, q} /\ Tcp!Peer(p) = q /\ Tcp!Peer(q) = p
          /\ (p = "client" /\ q = "server") \/ (p = "server" /\ q = "client")
  BY Pairs
<1>2. TcpTypes /\ SocketsShut
  BY DEF TcpInv
<1>3. /\ hd \in [Tcp!Ends -> TcpHeaders] /\ got \in [Tcp!Ends -> {0, 1}]
      /\ pc \in [Tcp!Ends -> {"input", "send", "head", "body", "reply", "closed", "killed"}]
      /\ outcome \in [Tcp!Ends -> {"none", "error", "eof", "message"}]
      /\ fd \in [Tcp!Ends -> {"ok", "reset", "pipe", "shut"}]
  BY <1>2 DEF TcpTypes
<1>4. /\ pc[p] = "head" /\ Tcp!Ended(p) /\ Tcp!Checked(p, hd[p])
      /\ fd' = [fd EXCEPT ![p] = IF @ = "reset" THEN "pipe" ELSE @]
      /\ out' = out /\ wire' = wire /\ sent' = sent
  BY DEF Tcp!HeadEnds
<1> DEFINE m == [hd[p] EXCEPT !.size = Tcp!Swap(@)]
<1>5. m \in TcpHeaders /\ m.seq = hd[p].seq
  <2>1. hd[p] \in TcpHeaders /\ Tcp!Swap(hd[p].size) \in {"host", "net"}
    BY <1>3 DEF Tcp!Swap
  <2> QED
    BY <2>1 DEF TcpHeaders
<1>6. /\ hd' = [hd EXCEPT ![p] = m] /\ got' = [got EXCEPT ![p] = 0]
      /\ \/ pc' = [pc EXCEPT ![p] = "body"] /\ outcome' = outcome
         \/ /\ outcome' = [outcome EXCEPT ![p] = "error"]
            /\ pc' = [pc EXCEPT ![p] = IF p = "client" THEN "input" ELSE "head"]
  BY <1>4 DEF Tcp!Checked
<1> HIDE DEF m
<1>7. hd' \in [Tcp!Ends -> TcpHeaders] /\ hd'[q] = hd[q] /\ hd'[p].seq = hd[p].seq
  BY <1>1, <1>3, <1>5, <1>6
<1>8. /\ got' \in [Tcp!Ends -> {0, 1}] /\ got'[p] = 0 /\ got'[q] = got[q]
      /\ fd' \in [Tcp!Ends -> {"ok", "reset", "pipe", "shut"}] /\ fd'[q] = fd[q]
      /\ fd'[p] = IF fd[p] = "reset" THEN "pipe" ELSE fd[p]
  BY <1>1, <1>3, <1>4, <1>6
<1>9. /\ pc' \in [Tcp!Ends -> {"input", "send", "head", "body", "reply", "closed", "killed"}]
      /\ outcome' \in [Tcp!Ends -> {"none", "error", "eof", "message"}]
      /\ pc'[q] = pc[q] /\ outcome'[q] = outcome[q]
      /\ \/ pc'[p] = "body"
         \/ pc'[p] = (IF p = "client" THEN "input" ELSE "head") /\ outcome'[p] = "error"
  BY <1>1, <1>3, <1>6
<1>10. Reading(p) /\ (p = "client" => fd[p] # "shut")
  BY <1>2, <1>4 DEF Reading, SocketsShut
<1> QED
  BY <1>1, <1>4, <1>7, <1>8, <1>9, <1>10, TcpAfterEnd

LEMMA TcpBodyEnds ==
  ASSUME TcpInv, NEW p \in Tcp!Ends, Tcp!BodyEnds(p)
  PROVE  TcpInv'
<1>1. PICK q \in Tcp!Ends :
          /\ q # p /\ Tcp!Ends = {p, q} /\ Tcp!Peer(p) = q /\ Tcp!Peer(q) = p
          /\ (p = "client" /\ q = "server") \/ (p = "server" /\ q = "client")
  BY Pairs
<1>2. TcpTypes /\ SocketsShut /\ OfLatest
  BY DEF TcpInv
<1>3. /\ hd \in [Tcp!Ends -> TcpHeaders] /\ got \in [Tcp!Ends -> {0, 1}]
      /\ pc \in [Tcp!Ends -> {"input", "send", "head", "body", "reply", "closed", "killed"}]
      /\ outcome \in [Tcp!Ends -> {"none", "error", "eof", "message"}]
      /\ fd \in [Tcp!Ends -> {"ok", "reset", "pipe", "shut"}]
  BY <1>2 DEF TcpTypes
<1> DEFINE result ==
      IF Tcp!Failed(p) THEN "error" ELSE IF got[p] = 1 THEN "message" ELSE "eof"
<1>4. /\ pc[p] = "body" /\ Tcp!Ended(p) /\ Tcp!Received(p, result)
      /\ fd' = [fd EXCEPT ![p] =
                  IF @ = "reset" THEN "pipe"
                  ELSE IF p = "server" /\ ~Tcp!Failed(p) /\ got[p] = 0 THEN "shut" ELSE @]
      /\ hd' = hd /\ out' = out /\ wire' = wire /\ sent' = sent
  BY DEF Tcp!BodyEnds
<1>5. /\ outcome' = [outcome EXCEPT ![p] = result] /\ got' = [got EXCEPT ![p] = 0]
      /\ pc' = [pc EXCEPT ![p] =
                  IF p = "client" THEN "input"
                  ELSE CASE result = "message" -> "reply"
                         [] result = "error" -> "head"
                         [] result = "eof" -> "closed"]
  BY <1>4 DEF Tcp!Received
<1>6. /\ result \in {"error", "message", "eof"}
      /\ result = "error" <=> fd[p] \in {"reset", "shut"}
      /\ result = "message" => got[p] = 1
      /\ result = "eof" => got[p] = 0
  BY <1>3 DEF Tcp!Failed
<1>7. /\ fd' \in [Tcp!Ends -> {"ok", "reset", "pipe", "shut"}] /\ fd'[q] = fd[q]
      /\ fd'[p] = IF fd[p] = "reset" THEN "pipe"
                  ELSE IF p = "server" /\ result = "eof" THEN "shut" ELSE fd[p]
  BY <1>1, <1>3, <1>4
<1> HIDE DEF result
<1>8. /\ got' \in [Tcp!Ends -> {0, 1}] /\ got'[p] = 0 /\ got'[q] = got[q]
      /\ outcome' \in [Tcp!Ends -> {"none", "error", "eof", "message"}]
      /\ outcome'[p] = result /\ outcome'[q] = outcome[q]
  BY <1>1, <1>3, <1>5, <1>6
<1>9. /\ pc' \in [Tcp!Ends -> {"input", "send", "head", "body", "reply", "closed", "killed"}]
      /\ pc'[q] = pc[q]
      /\ p = "client" => pc'[p] = "input"
      /\ p = "server" => \/ result = "message" /\ pc'[p] = "reply"
                         \/ result = "error" /\ pc'[p] = "head"
                         \/ result = "eof" /\ pc'[p] = "closed"
  BY <1>1, <1>3, <1>5, <1>6
<1>10. Reading(p) /\ (p = "client" => fd[p] # "shut")
  BY <1>2, <1>4 DEF Reading, SocketsShut
<1>11. got[p] = 1 => hd[p].seq = Turn(q)
  BY <1>1, <1>2, <1>4 DEF OfLatest, Turn
<1>12. hd' \in [Tcp!Ends -> TcpHeaders] /\ hd'[q] = hd[q] /\ hd'[p].seq = hd[p].seq
  BY <1>3, <1>4
<1>13. /\ fd'[p] \in {"reset", "pipe"} => fd[p] \in {"reset", "pipe"}
       /\ fd[p] = "shut" => fd'[p] = "shut"
       /\ p = "client" => pc'[p] \in {"body", "input"} /\ fd'[p] # "shut"
       /\ p = "server" =>
            \/ pc'[p] \in {"body", "head"} /\ (fd'[p] = "shut" => fd[p] = "shut")
            \/ pc'[p] = "reply" /\ fd'[p] # "shut" /\ hd[p].seq = Turn(q)
            \/ pc'[p] = "closed" /\ fd'[p] = "shut"
       /\ pc'[p] = "input" /\ outcome'[p] = "message" => hd[p].seq = Turn(q)
  BY <1>1, <1>6, <1>7, <1>8, <1>9, <1>10, <1>11
<1> QED
  BY <1>1, <1>4, <1>7, <1>8, <1>9, <1>10, <1>12, <1>13, TcpAfterEnd

(* A package is put together: its units carry the header as it is left.    *)
LEMMA TcpSends ==
  ASSUME TcpInv, NEW p \in Tcp!Ends, NEW q \in Tcp!Ends, q # p, Tcp!Ends = {p, q},
         NEW tag \in Tags, Tcp!HSend(p, Tcp!Header(hd[p].seq + 1, tag))
  PROVE  /\ hd' \in [Tcp!Ends -> TcpHeaders] /\ out' \in [Tcp!Ends -> Seq(TcpUnits)]
         /\ pc' \in [Tcp!Ends -> {"input", "send", "head", "body", "reply", "closed", "killed"}]
         /\ hd'[q] = hd[q] /\ out'[q] = out[q] /\ pc'[q] = pc[q] /\ pc'[p] = "send"
         /\ hd'[p].size = "net" /\ hd'[p].seq = hd[p].seq + 1
         /\ hd'[p].version = <<"host", hd'[p].tag>>
         /\ Len(out'[p]) = 4 /\ Unsent'
<1>1. TcpTypes /\ Unsent
  BY DEF TcpInv
<1>2. /\ hd \in [Tcp!Ends -> TcpHeaders] /\ out \in [Tcp!Ends -> Seq(TcpUnits)]
      /\ pc \in [Tcp!Ends -> {"input", "send", "head", "body", "reply", "closed", "killed"}]
  BY <1>1 DEF TcpTypes
<1> DEFINE h == Tcp!Header(hd[p].seq + 1, tag)
           m == [h EXCEPT !.size = Tcp!Swap(@)]
           pack == <<[part |-> "A", hd |-> m], [part |-> "B", hd |-> m],
                     [part |-> "M", hd |-> m], [part |-> "M", hd |-> m]>>
<1>3. hd[p].seq \in Nat
  BY <1>2 DEF TcpHeaders
<1>4. h = [size |-> "host", seq |-> hd[p].seq + 1, tag |-> tag, version |-> <<"host", tag>>]
  BY DEF Tcp!Header, Tcp!Encrypt
<1>5. m = [size |-> "net", seq |-> hd[p].seq + 1, tag |-> tag, version |-> <<"host", tag>>]
  BY <1>4 DEF Tcp!Swap
<1>6. m \in TcpHeaders
  BY <1>3, <1>5 DEF TcpHeaders
<1>7. /\ out' = [out EXCEPT ![p] = pack] /\ hd' = [hd EXCEPT ![p] = m]
      /\ pc' = [pc EXCEPT ![p] = "send"]
  BY DEF Tcp!HSend, Tcp!Package, Tcp!Convert
<1> HIDE DEF m, h
<1>8. /\ pack \in Seq(TcpUnits) /\ Len(pack) = 4 /\ pack # <<>>
      /\ \A j \in 1..4 : pack[j] = Unit(m, j)
  BY <1>6 DEF TcpUnits, Unit, PartOf
<1> HIDE DEF pack
<1>9. /\ hd' \in [Tcp!Ends -> TcpHeaders] /\ hd'[p] = m /\ hd'[q] = hd[q]
      /\ out' \in [Tcp!Ends -> Seq(TcpUnits)] /\ out'[p] = pack /\ out'[q] = out[q]
      /\ pc' \in [Tcp!Ends -> {"input", "send", "head", "body", "reply", "closed", "killed"}]
      /\ pc'[p] = "send" /\ pc'[q] = pc[q]
  BY <1>2, <1>6, <1>7, <1>8
<1>10. Unsent'
  <2>1. ASSUME pc'[q] = "send"
        PROVE  /\ out'[q] # <<>> /\ Len(out'[q]) <= 4
               /\ \A j \in 1..Len(out'[q]) : out'[q][j] = Unit(hd'[q], 4 - Len(out'[q]) + j)
    BY <1>1, <1>9, <2>1 DEF Unsent
  <2>2. \A j \in 1..Len(out'[p]) : out'[p][j] = Unit(hd'[p], 4 - Len(out'[p]) + j)
    <3>1. ASSUME NEW j \in 1..4 PROVE 4 - 4 + j = j
      OBVIOUS
    <3> QED
      BY <1>8, <1>9, <3>1
  <2>3. out'[p] # <<>> /\ Len(out'[p]) <= 4
    <3>1. Len(out'[p]) = 4 /\ 4 <= 4
      BY <1>8, <1>9
    <3> QED
      BY <1>8, <1>9, <3>1, Zenon
  <2> QED
    BY <2>1, <2>2, <2>3 DEF Unsent
<1>11. /\ hd'[p].size = "net" /\ hd'[p].seq = hd[p].seq + 1
       /\ hd'[p].version = <<"host", hd'[p].tag>>
  BY <1>5, <1>9
<1> QED
  BY <1>8, <1>9, <1>10, <1>11

LEMMA TcpInput == ASSUME TcpInv, Tcp!Input PROVE TcpInv'
<1> DEFINE p == "client"
           q == "server"
<1>1. /\ p \in Tcp!Ends /\ q \in Tcp!Ends /\ q # p /\ Tcp!Ends = {p, q}
      /\ Tcp!Peer(p) = q /\ Tcp!Peer(q) = p
  BY DEF Tcp!Ends, Tcp!Peer
<1>2. TcpTypes /\ SocketsShut /\ Arriving /\ Alternating /\ OfLatest
  BY DEF TcpInv
<1>3. PICK tag \in Tags : Tcp!HSend(p, Tcp!Header(hd[p].seq + 1, tag))
  BY DEF Tcp!Input
<1>4. /\ pc[p] = "input" /\ sent < MaxPackages /\ sent' = sent + 1
      /\ got' = got /\ outcome' = outcome /\ wire' = wire /\ fd' = fd
  BY DEF Tcp!Input
<1>5. /\ hd \in [Tcp!Ends -> TcpHeaders] /\ sent \in Nat /\ MaxPackages \in Nat
      /\ \A e \in Tcp!Ends : hd[e].seq \in Nat /\ hd[e].seq <= 2 * sent
  BY <1>2, ExercisesAssumption DEF TcpTypes, TcpHeaders, ExercisesAssumption
<1>6. /\ hd' \in [Tcp!Ends -> TcpHeaders] /\ out' \in [Tcp!Ends -> Seq(TcpUnits)]
      /\ pc' \in [Tcp!Ends -> {"input", "send", "head", "body", "reply", "closed", "killed"}]
      /\ hd'[q] = hd[q] /\ out'[q] = out[q] /\ pc'[q] = pc[q] /\ pc'[p] = "send"
      /\ hd'[p].size = "net" /\ hd'[p].seq = hd[p].seq + 1
      /\ hd'[p].version = <<"host", hd'[p].tag>>
      /\ Len(out'[p]) = 4 /\ Unsent'
  BY <1>1, <1>3, TcpSends
<1>7. fd[p] # "shut" /\ ~Reading(p)
  BY <1>2, <1>4 DEF SocketsShut, Reading
<1>8. BothOpen => ClientsTurn
  BY <1>2, <1>4, <1>7 DEF Alternating, Passing, OnItsWay, ServersTurn
<1>9. wire[p] = <<>> /\ wire[q] = <<>>
  <2>1. wire[q] = <<>>
    BY <1>1, <1>2, <1>7 DEF Arriving, OnItsWay
  <2>2. CASE BothOpen
    BY <1>1, <1>8, <2>1, <2>2 DEF ClientsTurn, Quiet
  <2>3. CASE ~BothOpen
    BY <1>1, <1>2, <1>7, <2>1, <2>3 DEF Arriving, BothOpen
  <2> QED
    BY <2>2, <2>3
<1>10. TcpTypes'
  <2>1. ASSUME NEW e \in Tcp!Ends PROVE hd'[e].seq <= 2 * sent'
    <3>1. CASE e = p
      BY <1>1, <1>4, <1>5, <1>6, <3>1
    <3>2. CASE e = q
      BY <1>1, <1>4, <1>5, <1>6, <3>2
    <3> QED
      BY <1>1, <3>1, <3>2
  <2>2. sent' \in Nat /\ sent' <= MaxPackages
    BY <1>4, <1>5
  <2> QED
    BY <1>2, <1>4, <1>6, <2>1, <2>2 DEF TcpTypes
<1>11. SocketsShut'
  BY <1>1, <1>2, <1>4, <1>6 DEF SocketsShut, Reading
<1>12. Arriving'
  BY <1>1, <1>4, <1>9 DEF Arriving
<1>13. Alternating'
  <2>1. ASSUME BothOpen PROVE Passing(p, q)'
    <3>1. /\ pc[q] = "head" /\ got[q] = 0 /\ out[q] = <<>> /\ hd[p].seq = 2 * sent
      BY <1>1, <1>8, <2>1 DEF ClientsTurn, Quiet
    <3>2. Needs(q)' = 4 /\ Reading(q)'
      BY <1>4, <1>6, <3>1 DEF Needs, Reading
    <3>3. hd'[p].seq = Turn(p)'
      BY <1>4, <1>5, <1>6, <3>1 DEF Turn
    <3>4. wire'[p] = <<>> /\ wire'[q] = <<>> /\ Len(wire'[p]) = 0
      BY <1>4, <1>9
    <3>5. OnItsWay(p, q)'
      <4>1. \A j \in 1..Len(wire'[p]) : wire'[p][j] = Unit(hd'[p], 4 - 4 + j)
        BY <3>4
      <4>2. Len(wire'[p]) <= 4
        BY <3>4
      <4> QED
        BY <1>6, <3>2, <3>3, <4>1, <4>2 DEF OnItsWay
    <3>6. Len(wire'[p]) + Len(out'[p]) = 4
      BY <1>6, <3>4
    <3> QED
      BY <1>6, <3>1, <3>2, <3>4, <3>5, <3>6 DEF Passing
  <2>2. BothOpen' <=> BothOpen
    BY <1>4 DEF BothOpen
  <2> QED
    BY <2>1, <2>2 DEF Alternating
<1>14. OfLatest'
  <2>1. pc[q] # "reply" /\ ~(pc[q] = "body" /\ got[q] = 1)
    <3>1. CASE BothOpen
      BY <1>8, <3>1 DEF ClientsTurn
    <3>2. CASE ~BothOpen
      BY <1>2, <1>7, <3>2 DEF BothOpen, SocketsShut
    <3> QED
      BY <3>1, <3>2
  <2> QED
    BY <1>4, <1>6, <2>1 DEF OfLatest
<1> QED
  BY <1>6, <1>10, <1>11, <1>12, <1>13, <1>14 DEF TcpInv

LEMMA TcpReply == ASSUME TcpInv, Tcp!Reply PROVE TcpInv'
<1> DEFINE p == "server"
           q == "client"
<1>1. /\ p \in Tcp!Ends /\ q \in Tcp!Ends /\ q # p /\ Tcp!Ends = {p, q}
      /\ Tcp!Peer(p) = q /\ Tcp!Peer(q) = p
  BY DEF Tcp!Ends, Tcp!Peer
<1>2. TcpTypes /\ SocketsShut /\ Arriving /\ Alternating /\ OfLatest
  BY DEF TcpInv
<1>3. PICK tag \in Tags : Tcp!HSend(p, Tcp!Header(hd[p].seq + 1, tag))
  BY DEF Tcp!Reply
<1>4. /\ pc[p] = "reply" /\ sent' = sent
      /\ got' = got /\ outcome' = outcome /\ wire' = wire /\ fd' = fd
  BY DEF Tcp!Reply
<1>5. /\ hd \in [Tcp!Ends -> TcpHeaders] /\ sent \in Nat
      /\ \A e \in Tcp!Ends : hd[e].seq \in Nat /\ hd[e].seq <= 2 * sent
  BY <1>2 DEF TcpTypes, TcpHeaders
<1>6. /\ hd' \in [Tcp!Ends -> TcpHeaders] /\ out' \in [Tcp!Ends -> Seq(TcpUnits)]
      /\ pc' \in [Tcp!Ends -> {"input", "send", "head", "body", "reply", "closed", "killed"}]
      /\ hd'[q] = hd[q] /\ out'[q] = out[q] /\ pc'[q] = pc[q] /\ pc'[p] = "send"
      /\ hd'[p].size = "net" /\ hd'[p].seq = hd[p].seq + 1
      /\ hd'[p].version = <<"host", hd'[p].tag>>
      /\ Len(out'[p]) = 4 /\ Unsent'
  BY <1>1, <1>3, TcpSends
<1>7. fd[p] # "shut" /\ ~Reading(p)
  BY <1>2, <1>4 DEF SocketsShut, Reading
<1>8. BothOpen => ServersTurn
  BY <1>2, <1>4, <1>7 DEF Alternating, Passing, OnItsWay, ClientsTurn
<1>9. wire[p] = <<>> /\ wire[q] = <<>>
  <2>1. wire[q] = <<>>
    BY <1>1, <1>2, <1>7 DEF Arriving, OnItsWay
  <2>2. CASE BothOpen
    BY <1>1, <1>8, <2>1, <2>2 DEF ServersTurn, Quiet
  <2>3. CASE ~BothOpen
    BY <1>1, <1>2, <1>7, <2>1, <2>3 DEF Arriving, BothOpen
  <2> QED
    BY <2>2, <2>3
<1>10. hd[p].seq = 2 * sent - 1 /\ hd'[p].seq = 2 * sent
  <2>1. hd[p].seq = 2 * sent - 1
    BY <1>2, <1>4 DEF OfLatest
  <2> QED
    BY <1>5, <1>6, <2>1
<1>11. TcpTypes'
  <2>1. ASSUME NEW e \in Tcp!Ends PROVE hd'[e].seq <= 2 * sent'
    BY <1>1, <1>4, <1>5, <1>6, <1>10
  <2> QED
    BY <1>2, <1>4, <1>6, <2>1 DEF TcpTypes
<1>12. SocketsShut'
  BY <1>1, <1>2, <1>4, <1>6, <1>7 DEF SocketsShut, Reading
<1>13. Arriving'
  BY <1>1, <1>4, <1>9 DEF Arriving
<1>14. Alternating'
  <2>1. ASSUME BothOpen PROVE Passing(p, q)'
    <3>1. /\ pc[q] = "head" /\ got[q] = 0 /\ out[q] = <<>>
      BY <1>1, <1>8, <2>1 DEF ServersTurn, Quiet
    <3>2. Needs(q)' = 4 /\ Reading(q)'
      BY <1>4, <1>6, <3>1 DEF Needs, Reading
    <3>3. hd'[p].seq = Turn(p)'
      BY <1>4, <1>10 DEF Turn
    <3>4. wire'[p] = <<>> /\ wire'[q] = <<>> /\ Len(wire'[p]) = 0
      BY <1>4, <1>9
    <3>5. OnItsWay(p, q)'
      <4>1. \A j \in 1..Len(wire'[p]) : wire'[p][j] = Unit(hd'[p], 4 - 4 + j)
        BY <3>4
      <4>2. Len(wire'[p]) <= 4
        BY <3>4
      <4> QED
        BY <1>6, <3>2, <3>3, <4>1, <4>2 DEF OnItsWay
    <3>6. Len(wire'[p]) + Len(out'[p]) = 4
      BY <1>6, <3>4
    <3> QED
      BY <1>6, <3>1, <3>2, <3>4, <3>5, <3>6 DEF Passing
  <2>2. BothOpen' <=> BothOpen
    BY <1>4 DEF BothOpen
  <2> QED
    BY <2>1, <2>2 DEF Alternating
<1>15. OfLatest'
  BY <1>2, <1>4, <1>6 DEF OfLatest
<1> QED
  BY <1>6, <1>11, <1>12, <1>13, <1>14, <1>15 DEF TcpInv

LEMMA TcpStep == ASSUME TcpInv, [Tcp!Next]_(Tcp!vars) PROVE TcpInv'
<1>1. CASE UNCHANGED Tcp!vars
  <2>1. /\ pc' = pc /\ hd' = hd /\ out' = out /\ got' = got /\ outcome' = outcome
        /\ wire' = wire /\ fd' = fd /\ sent' = sent
    BY <1>1 DEF Tcp!vars
  <2> QED
    BY <2>1 DEF TcpInv, TcpTypes, SocketsShut, Unsent, Arriving, Alternating, OfLatest, BothOpen,
      Passing, OnItsWay, ClientsTurn, ServersTurn, Quiet, Reading, Needs, Turn
<1>2. ASSUME NEW p \in Tcp!Ends, Tcp!Run(p) \/ Tcp!Interrupt(p) PROVE TcpInv'
  BY <1>2, TcpWrite, TcpWriteLost, TcpWriteFails, TcpKilled, TcpReadHead, TcpHeadEnds,
    TcpReadBody, TcpBodyEnds DEF Tcp!Run, Tcp!Interrupt, Tcp!BrokenPipe
<1> QED
  BY <1>1, <1>2, TcpInput, TcpReply DEF Tcp!Next

LEMMA TcpHolds == TcpInv => Tcp!TypeOK /\ Tcp!Framed /\ Tcp!InStep
<1> SUFFICES ASSUME TcpInv PROVE Tcp!TypeOK /\ Tcp!Framed /\ Tcp!InStep
  OBVIOUS
<1>1. TcpTypes /\ OfLatest
  BY DEF TcpInv
<1>2. Tcp!TypeOK
  <2>1. MaxPackages \in Nat /\ sent \in Nat /\ sent <= MaxPackages
    BY <1>1, ExercisesAssumption DEF TcpTypes, ExercisesAssumption
  <2>2. ASSUME NEW p \in Tcp!Ends PROVE Tcp!HeaderOK(hd[p])
    <3>1. hd[p] \in TcpHeaders /\ hd[p].seq <= 2 * sent
      BY <1>1 DEF TcpTypes
    <3>2. hd[p].seq \in 0..(2 * MaxPackages)
      BY <2>1, <3>1 DEF TcpHeaders
    <3> QED
      BY <3>1, <3>2 DEF Tcp!HeaderOK, TcpHeaders
  <2>3. sent \in 0..MaxPackages
    BY <2>1
  <2> QED
    BY <1>1, <2>2, <2>3 DEF TcpTypes, Tcp!TypeOK
<1>3. Tcp!Framed
  <2>1. SUFFICES ASSUME NEW p \in Tcp!Ends, fd[p] # "shut", wire[Tcp!Peer(p)] # <<>>
        PROVE  LET part == Head(wire[Tcp!Peer(p)]).part IN
               /\ pc[p] \in {"head", "send"} =>
                     part = IF pc[p] = "head" /\ got[p] = 1 THEN "B" ELSE "A"
               /\ pc[p] = "body" => part = "M"
    BY DEF Tcp!Framed
  <2>2. PICK q \in Tcp!Ends :
          /\ q # p /\ Tcp!Ends = {p, q} /\ Tcp!Peer(p) = q /\ Tcp!Peer(q) = p
          /\ (p = "client" /\ q = "server") \/ (p = "server" /\ q = "client")
    BY Pairs
  <2>3. OnItsWay(q, p)
    BY <2>1, <2>2, TcpFacts
  <2>4. wire \in [Tcp!Ends -> Seq(TcpUnits)] /\ got \in [Tcp!Ends -> {0, 1}]
    BY <1>1 DEF TcpTypes
  <2>5. Head(wire[q]) = wire[q][1] /\ 1 \in 1..Len(wire[q])
    BY <2>1, <2>2, <2>4, TailOf
  <2>6. Head(wire[q]).part = PartOf(4 - Needs(p) + 1)
    <3>1. Head(wire[q]) = Unit(hd[q], 4 - Needs(p) + 1)
      BY <2>3, <2>5 DEF OnItsWay
    <3> QED
      BY <3>1 DEF Unit
  <2>7. Reading(p)
    BY <2>3 DEF OnItsWay
  <2>8. CASE pc[p] = "head" /\ got[p] = 0
    BY <2>2, <2>6, <2>8 DEF Needs, PartOf
  <2>9. CASE pc[p] = "head" /\ got[p] = 1
    BY <2>2, <2>6, <2>9 DEF Needs, PartOf
  <2>10. CASE pc[p] = "body"
    BY <2>2, <2>4, <2>6, <2>10 DEF Needs, PartOf
  <2> QED
    BY <2>4, <2>7, <2>8, <2>9, <2>10 DEF Reading
<1>4. Tcp!InStep
  BY <1>1 DEF OfLatest, Tcp!InStep
<1> QED
  BY <1>2, <1>3, <1>4
-----------------------------------------------------------------------------
(***************************************************************************)
(* Functions defined by recursion on numbers.  The library's induction     *)
(* takes an operator; a set will do, and a function defined by recursion   *)
(* can then be shown to exist, which is what it takes to reason about it.  *)
(***************************************************************************)
LEMMA Induction ==
  ASSUME NEW T \in SUBSET Nat, 0 \in T, \A k \in T : k + 1 \in T
  PROVE  T = Nat
<1> DEFINE R == OpToRel(<, Nat)
<1> SUFFICES ASSUME Nat \ T # {} PROVE FALSE
  OBVIOUS
<1>1. IsWellFoundedOn(R, Nat)
  BY NatLessThanWellFounded
<1>2. Nat \ T \subseteq Nat
  OBVIOUS
<1> HIDE DEF R
<1>3. PICK m \in Nat \ T : \A y \in Nat \ T : ~(<<y, m>> \in R)
  BY <1>1, <1>2, WFMin
<1>4. m # 0 /\ m - 1 \in Nat
  OBVIOUS
<1>5. m - 1 \notin T
  BY <1>4
<1>6. <<m - 1, m>> \in R
  BY <1>4 DEF R, OpToRel
<1> QED
  BY <1>3, <1>4, <1>5, <1>6

(* f follows G from d, up to m: at k it takes what it has at P[k].         *)
Upto(f, m, D, d, P, G) ==
    f \in [0..m -> D] /\ f[0] = d /\ \A k \in 1..m : f[k] = G[<<f[P[k]], k>>]

Follows(f, D, d, P, G) ==
    f \in [Nat -> D] /\ f[0] = d /\ \A k \in Nat \ {0} : f[k] = G[<<f[P[k]], k>>]

LEMMA UptoExists ==
  ASSUME NEW D, NEW d \in D, NEW P \in [Nat -> Nat], \A k \in Nat \ {0} : P[k] < k,
         NEW G \in [D \X Nat -> D], NEW m \in Nat
  PROVE  \E f : Upto(f, m, D, d, P, G)
<1> DEFINE T == {k \in Nat : \E f : Upto(f, k, D, d, P, G)}
<1>1. 0 \in T
  <2> DEFINE f == [k \in 0..0 |-> d]
  <2>1. f \in [0..0 -> D] /\ f[0] = d
    OBVIOUS
  <2> HIDE DEF f
  <2>2. Upto(f, 0, D, d, P, G)
    BY <2>1 DEF Upto
  <2> QED
    BY <2>2
<1>2. ASSUME NEW k \in T PROVE k + 1 \in T
  <2>1. k \in Nat /\ k + 1 \in Nat \ {0}
    OBVIOUS
  <2>2. PICK f : Upto(f, k, D, d, P, G)
    OBVIOUS
  <2>3. P[k + 1] \in 0..k
    BY <2>1
  <2> DEFINE v == G[<<f[P[k + 1]], k + 1>>]
             g == [j \in 0..(k + 1) |-> IF j = k + 1 THEN v ELSE f[j]]
  <2>4. v \in D
    BY <2>1, <2>2, <2>3 DEF Upto
  <2> HIDE DEF v
  <2>5. \A j \in 0..(k + 1) : j # k + 1 => j \in 0..k
    BY <2>1
  <2>6. g \in [0..(k + 1) -> D] /\ g[0] = d /\ g[k + 1] = v /\ \A j \in 0..k : g[j] = f[j]
    BY <2>1, <2>2, <2>4, <2>5 DEF Upto
  <2> HIDE DEF g
  <2>7. ASSUME NEW j \in 1..(k + 1) PROVE g[j] = G[<<g[P[j]], j>>]
    <3>1. CASE j = k + 1
      BY <2>3, <2>6, <3>1 DEF v
    <3>2. CASE j # k + 1
      <4>1. j \in 1..k /\ j \in Nat \ {0} /\ j \in 0..k
        BY <2>1, <3>2
      <4>2. P[j] \in 0..k
        <5>1. P[j] \in Nat /\ P[j] < j
          BY <4>1
        <5> QED
          BY <2>1, <4>1, <5>1
      <4> QED
        BY <2>2, <2>6, <4>1, <4>2 DEF Upto
    <3> QED
      BY <3>1, <3>2
  <2>8. Upto(g, k + 1, D, d, P, G)
    BY <2>6, <2>7 DEF Upto
  <2> QED
    BY <2>1, <2>8
<1>3. T \in SUBSET Nat
  OBVIOUS
<1> HIDE DEF T
<1>4. m \in T
  BY <1>1, <1>2, <1>3, Induction
<1> QED
  BY <1>4 DEF T

Agree(f, g, m) == \A k \in 0..m : f[k] = g[k]

LEMMA UptoAgree ==
  ASSUME NEW D, NEW d, NEW P \in [Nat -> Nat], \A k \in Nat \ {0} : P[k] < k, NEW G,
         NEW m \in Nat, NEW f, Upto(f, m, D, d, P, G),
         NEW l \in Nat, NEW g, Upto(g, l, D, d, P, G), m <= l
  PROVE  Agree(f, g, m)
<1> DEFINE T == {k \in Nat : \A j \in 0..k : j <= m => f[j] = g[j]}
<1>1. 0 \in T
  BY DEF Upto
<1>2. ASSUME NEW k \in T PROVE k + 1 \in T
  <2> SUFFICES ASSUME NEW j \in 0..(k + 1), j <= m PROVE f[j] = g[j]
    OBVIOUS
  <2>1. CASE j \in 0..k
    BY <2>1
  <2>2. CASE j = k + 1
    <3>1. j \in 1..m /\ j \in 1..l /\ j \in Nat \ {0}
      BY <2>2
    <3>2. P[j] \in 0..k /\ P[j] <= m
      <4>1. P[j] \in Nat /\ P[j] < j
        BY <3>1
      <4> QED
        BY <2>2, <3>1, <4>1
    <3>3. f[P[j]] = g[P[j]]
      BY <3>2
    <3> QED
      BY <3>1, <3>3 DEF Upto
  <2> QED
    BY <2>1, <2>2
<1>3. T \in SUBSET Nat
  OBVIOUS
<1> HIDE DEF T
<1>4. m \in T
  BY <1>1, <1>2, <1>3, Induction
<1> QED
  BY <1>4 DEF T, Agree

LEMMA FollowsExists ==
  ASSUME NEW D, NEW d \in D, NEW P \in [Nat -> Nat], \A k \in Nat \ {0} : P[k] < k,
         NEW G \in [D \X Nat -> D]
  PROVE  \E f : Follows(f, D, d, P, G)
<1> DEFINE F(k) == CHOOSE f : Upto(f, k, D, d, P, G)
           f == [k \in Nat |-> F(k)[k]]
<1>1. ASSUME NEW k \in Nat PROVE Upto(F(k), k, D, d, P, G)
  <2>1. \E g : Upto(g, k, D, d, P, G)
    BY UptoExists
  <2> QED
    BY <2>1
<1> HIDE DEF F
<1>2. \A k \in Nat : F(k)[k] \in D
  BY <1>1 DEF Upto
<1>3. f \in [Nat -> D] /\ f[0] = d
  BY <1>1, <1>2 DEF Upto
<1>4. ASSUME NEW k \in Nat \ {0} PROVE f[k] = G[<<f[P[k]], k>>]
  <2>1. P[k] \in Nat /\ P[k] < k /\ k \in Nat /\ k \in 1..k
    OBVIOUS
  <2>2. F(k)[k] = G[<<F(k)[P[k]], k>>]
    BY <1>1, <2>1 DEF Upto
  <2>3. \A j \in 0..P[k] : F(P[k])[j] = F(k)[j]
    <3>1. Upto(F(k), k, D, d, P, G) /\ Upto(F(P[k]), P[k], D, d, P, G) /\ P[k] <= k
      BY <1>1, <2>1
    <3>2. Agree(F(P[k]), F(k), P[k])
      BY <2>1, <3>1, UptoAgree
    <3> QED
      BY <3>2 DEF Agree
  <2>4. F(P[k])[P[k]] = F(k)[P[k]]
    BY <2>1, <2>3
  <2> QED
    BY <2>1, <2>2, <2>4
<1> HIDE DEF f
<1>5. Follows(f, D, d, P, G)
  BY <1>3, <1>4 DEF Follows
<1> QED
  BY <1>5
-----------------------------------------------------------------------------
(***************************************************************************)
(* The digits.  What they are worth: from the highest, ten times what      *)
(* there was and one more digit.                                           *)
(***************************************************************************)
Worth(f, w) ==
    /\ f \in [1..(Len(w) + 1) -> Nat] /\ f[Len(w) + 1] = 0
    /\ \A j \in 1..Len(w) : f[j] = f[j + 1] * 10 + w[j]

IsWorth(w, v) == \E f : Worth(f, w) /\ f[1] = v

LEMMA Division ==
  ASSUME NEW a \in Nat, NEW p \in Nat \ {0}
  PROVE  \E q \in Nat, r \in 0..(p - 1) : q = a \div p /\ r = a % p /\ a = p * q + r
<1>1. PICK q \in Nat : q = a \div p
  OBVIOUS
<1>2. PICK r \in 0..(p - 1) : r = a % p
  OBVIOUS
<1>3. a = p * q + r
  BY <1>1, <1>2
<1> QED
  BY <1>1, <1>2, <1>3

LEMMA Tens ==
  ASSUME NEW a \in Nat
  PROVE  \E q \in Nat, r \in 0..9 : q = a \div 10 /\ r = a % 10 /\ a = 10 * q + r
<1>1. \E q \in Nat, r \in 0..(10 - 1) : q = a \div 10 /\ r = a % 10 /\ a = 10 * q + r
  BY Division
<1> QED
  BY <1>1

LEMMA NoDigits == IsWorth(<<>>, 0)
<1> DEFINE f == [j \in 1..1 |-> 0]
<1>1. Len(<<>>) = 0 /\ f \in [1..1 -> Nat] /\ f[1] = 0
  OBVIOUS
<1> HIDE DEF f
<1>2. Worth(f, <<>>)
  BY <1>1 DEF Worth
<1> QED
  BY <1>1, <1>2 DEF IsWorth

(* A digit below the others.                                               *)
LEMMA OneDigit ==
  ASSUME NEW w \in Seq(0..9), NEW v \in Nat, IsWorth(w, v), NEW a \in 0..9
  PROVE  IsWorth(<<a>> \o w, v * 10 + a)
<1> DEFINE l == Len(w)
           z == <<a>> \o w
<1>1. PICK f : Worth(f, w) /\ f[1] = v
  BY DEF IsWorth
<1> DEFINE g == [j \in 1..(l + 2) |-> IF j = 1 THEN v * 10 + a ELSE f[j - 1]]
<1>2. /\ l \in Nat /\ Len(z) = l + 1 /\ z[1] = a
      /\ \A j \in 2..(l + 1) : z[j] = w[j - 1]
  OBVIOUS
<1> HIDE DEF z, l
<1>3. f \in [1..(l + 1) -> Nat] /\ f[l + 1] = 0 /\ \A j \in 1..l : f[j] = f[j + 1] * 10 + w[j]
  BY <1>1 DEF Worth, l
<1>4. g \in [1..(l + 2) -> Nat]
  <2> SUFFICES ASSUME NEW j \in 1..(l + 2) PROVE g[j] \in Nat
    OBVIOUS
  <2>1. CASE j = 1
    BY <2>1
  <2>2. CASE j # 1
    <3>1. j - 1 \in 1..(l + 1)
      BY <1>2, <2>2
    <3> QED
      BY <1>3, <2>2, <3>1
  <2> QED
    BY <2>1, <2>2
<1>5. g[l + 2] = 0 /\ g[1] = v * 10 + a
  <2>1. l + 2 \in 1..(l + 2) /\ 1 \in 1..(l + 2) /\ l + 2 # 1 /\ (l + 2) - 1 = l + 1
    BY <1>2
  <2> QED
    BY <1>3, <2>1
<1>6. ASSUME NEW j \in 1..(l + 1) PROVE g[j] = g[j + 1] * 10 + z[j]
  <2>1. j \in 1..(l + 2) /\ j + 1 \in 1..(l + 2) /\ j + 1 # 1 /\ (j + 1) - 1 = j
    BY <1>2
  <2>2. g[j + 1] = f[j]
    BY <2>1
  <2>3. CASE j = 1
    BY <1>1, <1>2, <2>2, <2>3
  <2>4. CASE j # 1
    <3>1. j - 1 \in 1..l /\ (j - 1) + 1 = j /\ j \in 2..(l + 1)
      BY <1>2, <2>4
    <3>2. g[j] = f[j - 1] /\ z[j] = w[j - 1] /\ f[j - 1] = f[(j - 1) + 1] * 10 + w[j - 1]
      BY <1>2, <1>3, <2>1, <2>4, <3>1
    <3> QED
      BY <2>2, <3>1, <3>2
  <2> QED
    BY <2>3, <2>4
<1> HIDE DEF g
<1>7. l + 2 = (l + 1) + 1
  BY <1>2
<1>8. Worth(g, z)
  BY <1>2, <1>4, <1>5, <1>6, <1>7 DEF Worth
<1> QED
  BY <1>5, <1>8 DEF IsWorth, z

(* The last carry, digit by digit.                                         *)
IsMore(f) == f = [k \in Nat |-> IF k = 0 THEN <<>> ELSE <<k % 10>> \o f[k \div 10]]

LEMMA MoreExists == \E f : IsMore(f)
<1> DEFINE P == [k \in Nat |-> k \div 10]
           D == Seq(Nat)
           G == [y \in D \X Nat |-> <<y[2] % 10>> \o y[1]]
<1>1. P \in [Nat -> Nat] /\ <<>> \in D
  BY Division
<1>2. \A k \in Nat \ {0} : P[k] < k
  <2> SUFFICES ASSUME NEW k \in Nat \ {0} PROVE k \div 10 < k
    OBVIOUS
  <2> QED
    OBVIOUS
<1>3. G \in [D \X Nat -> D]
  <2> SUFFICES ASSUME NEW s \in Seq(Nat), NEW k \in Nat PROVE <<k % 10>> \o s \in Seq(Nat)
    OBVIOUS
  <2>1. k % 10 \in Nat
    OBVIOUS
  <2> QED
    BY <2>1
<1>4. \A s \in D, k \in Nat : G[<<s, k>>] = <<k % 10>> \o s
  OBVIOUS
<1> HIDE DEF D, G
<1>5. PICK f : Follows(f, D, <<>>, P, G)
  <2> HIDE DEF P
  <2> QED
    BY <1>1, <1>2, <1>3, FollowsExists
<1>6. ASSUME NEW k \in Nat \ {0} PROVE f[k] = <<k % 10>> \o f[k \div 10]
  <2>1. P[k] = k \div 10 /\ P[k] \in Nat
    BY <1>1
  <2>2. f[P[k]] \in D
    BY <1>5, <2>1 DEF Follows
  <2> QED
    BY <1>4, <1>5, <2>1, <2>2 DEF Follows
<1>7. f = [k \in Nat |-> f[k]] /\ f[0] = <<>>
  BY <1>5 DEF Follows
<1>8. IsMore(f)
  BY <1>6, <1>7 DEF IsMore
<1> QED
  BY <1>8

(* Digits without a zero in front.                                         *)
Proper(w) == w \in Seq(0..9) /\ (w # <<>> => w[Len(w)] # 0)

LEMMA MoreIs ==
  ASSUME NEW f, IsMore(f), NEW c \in Nat
  PROVE  /\ Proper(f[c]) /\ IsWorth(f[c], c)
         /\ c = 0 => f[c] = <<>>
         /\ c # 0 => f[c] # <<>>
<1> DEFINE Fine(k) == /\ Proper(f[k]) /\ IsWorth(f[k], k)
                      /\ k = 0 => f[k] = <<>>
                      /\ k # 0 => f[k] # <<>>
           T == {k \in Nat : \A j \in 0..k : Fine(j)}
<1>1. Fine(0)
  <2>1. f[0] = <<>>
    BY DEF IsMore
  <2> QED
    BY <2>1, NoDigits DEF Proper
<1>2. ASSUME NEW k \in Nat \ {0}, Fine(k \div 10) PROVE Fine(k)
  <2>1. PICK q \in Nat, r \in 0..9 : q = k \div 10 /\ r = k % 10 /\ k = 10 * q + r
    BY Tens
  <2>2. f[k] = <<r>> \o f[q]
    BY <2>1 DEF IsMore
  <2>3. f[q] \in Seq(0..9) /\ IsWorth(f[q], q) /\ (q = 0 => f[q] = <<>>)
        /\ (q # 0 => f[q] # <<>>) /\ (f[q] # <<>> => f[q][Len(f[q])] # 0)
    BY <1>2, <2>1 DEF Proper
  <2>4. IsWorth(f[k], k)
    <3>1. IsWorth(<<r>> \o f[q], q * 10 + r)
      BY <2>3, OneDigit
    <3>2. q * 10 + r = k
      BY <2>1
    <3> QED
      BY <2>2, <3>1, <3>2
  <2>5. f[k] \in Seq(0..9) /\ f[k] # <<>> /\ Len(f[k]) = Len(f[q]) + 1
    BY <2>2, <2>3
  <2>6. f[k][Len(f[k])] # 0
    <3>1. CASE q = 0
      <4>1. r # 0
        BY <2>1, <3>1
      <4>2. f[q] = <<>>
        BY <2>3, <3>1
      <4>3. <<r>> \o <<>> = <<r>>
        BY <2>1
      <4>4. f[k] = <<r>>
        BY <2>2, <4>2, <4>3
      <4> QED
        BY <4>1, <4>4
    <3>2. CASE q # 0
      <4>1. f[q] # <<>>
        BY <2>3, <3>2
      <4>2. f[k][Len(f[q]) + 1] = f[q][Len(f[q])]
        BY <2>1, <2>2, <2>3, <4>1
      <4> QED
        BY <2>3, <2>5, <4>1, <4>2
    <3> QED
      BY <3>1, <3>2
  <2> QED
    BY <2>4, <2>5, <2>6 DEF Proper
<1> HIDE DEF Fine
<1>3. 0 \in T
  BY <1>1
<1>4. ASSUME NEW k \in T PROVE k + 1 \in T
  <2>1. k + 1 \in Nat \ {0} /\ (k + 1) \div 10 \in 0..k
    <3>1. PICK q \in Nat : q = (k + 1) \div 10 /\ q < k + 1
      OBVIOUS
    <3> QED
      BY <3>1
  <2>2. Fine(k + 1)
    BY <1>2, <2>1
  <2>3. \A j \in 0..(k + 1) : j \in 0..k \/ j = k + 1
    BY <2>1
  <2> QED
    BY <2>1, <2>2, <2>3
<1>5. T \in SUBSET Nat
  OBVIOUS
<1> HIDE DEF T
<1>6. c \in T
  BY <1>3, <1>4, <1>5, Induction
<1>7. Fine(c)
  BY <1>6 DEF T
<1> QED
  BY <1>7 DEF Fine

(* Times k, digit by digit: what the digits are worth, and the carry.      *)
Carrying(d, k, w, c) ==
    /\ w \in Seq(0..9) /\ Len(w) = Len(d)
    /\ c \in [0..Len(d) -> Nat] /\ c[0] = 0
    /\ \A j \in 1..Len(d) : d[j] * k + c[j - 1] = 10 * c[j] + w[j]

LEMMA WorthTimes ==
  ASSUME NEW d \in Seq(0..9), NEW k \in Nat, NEW v \in Nat, IsWorth(d, v),
         NEW w, NEW c, Carrying(d, k, w, c),
         NEW m \in Seq(0..9), IsWorth(m, c[Len(d)])
  PROVE  IsWorth(w \o m, k * v)
<1> DEFINE l == Len(d)
           o == Len(m)
           z == w \o m
<1>1. PICK f : Worth(f, d) /\ f[1] = v
  BY DEF IsWorth
<1>2. PICK h : Worth(h, m) /\ h[1] = c[l]
  BY DEF IsWorth
<1>3. l \in Nat /\ o \in Nat /\ w \in Seq(0..9) /\ Len(w) = l /\ m \in Seq(0..9)
  BY DEF Carrying
<1>4. Len(z) = l + o
  BY <1>3
<1>5. \A j \in 1..l : z[j] = w[j]
  BY <1>3
<1>6. \A j \in (l + 1)..(l + o) : z[j] = m[j - l]
  BY <1>3
<1>7. /\ c \in [0..l -> Nat] /\ c[0] = 0
      /\ \A j \in 1..l : d[j] * k + c[j - 1] = 10 * c[j] + w[j]
      /\ f \in [1..(l + 1) -> Nat] /\ f[l + 1] = 0 /\ f[1] = v
      /\ \A j \in 1..l : f[j] = f[j + 1] * 10 + d[j] /\ d[j] \in Nat /\ w[j] \in Nat
      /\ h \in [1..(o + 1) -> Nat] /\ h[o + 1] = 0 /\ h[1] = c[l]
      /\ \A j \in 1..o : h[j] = h[j + 1] * 10 + m[j]
  <2>1. ASSUME NEW j \in 1..l PROVE d[j] \in Nat /\ w[j] \in Nat
    <3>1. d[j] \in 0..9
      OBVIOUS
    <3>2. w[j] \in 0..9
      BY <1>3
    <3> QED
      BY <3>1, <3>2
  <2> HIDE DEF z
  <2>2. \A j \in 1..l : f[j] = f[j + 1] * 10 + d[j]
    BY <1>1 DEF Worth
  <2>3. /\ c \in [0..l -> Nat] /\ c[0] = 0
        /\ \A j \in 1..l : d[j] * k + c[j - 1] = 10 * c[j] + w[j]
    BY DEF Carrying
  <2>4. f \in [1..(l + 1) -> Nat] /\ f[l + 1] = 0 /\ f[1] = v
    BY <1>1 DEF Worth
  <2>5. /\ h \in [1..(o + 1) -> Nat] /\ h[o + 1] = 0 /\ h[1] = c[l]
        /\ \A j \in 1..o : h[j] = h[j + 1] * 10 + m[j]
    BY <1>2 DEF Worth
  <2> QED
    BY <2>1, <2>2, <2>3, <2>4, <2>5
<1> HIDE DEF l, o, z
<1> DEFINE g == [j \in 1..((l + o) + 1) |-> IF j <= l THEN k * f[j] + c[j - 1] ELSE h[j - l]]
<1>8. g \in [1..((l + o) + 1) -> Nat]
  <2> SUFFICES ASSUME NEW j \in 1..((l + o) + 1) PROVE g[j] \in Nat
    OBVIOUS
  <2>1. CASE j <= l
    <3>1. f[j] \in Nat /\ c[j - 1] \in Nat
      <4>1. j \in 1..(l + 1) /\ j - 1 \in 0..l
        BY <1>3, <2>1
      <4> QED
        BY <1>7, <4>1
    <3>2. k * f[j] \in Nat
      BY <3>1
    <3> QED
      BY <2>1, <3>1, <3>2
  <2>2. CASE ~(j <= l)
    <3>1. h[j - l] \in Nat
      BY <1>3, <1>7, <2>2
    <3> QED
      BY <2>2, <3>1
  <2> QED
    BY <2>1, <2>2
<1>9. ASSUME NEW j \in 1..(l + 1) PROVE g[j] = k * f[j] + c[j - 1]
  <2>1. CASE j <= l
    BY <1>3, <2>1
  <2>2. CASE j = l + 1
    <3>1. g[j] = h[1] /\ j - 1 = l
      BY <1>3, <2>2
    <3>2. k * f[j] = 0 /\ c[l] \in Nat
      BY <1>3, <1>7, <2>2
    <3> QED
      BY <1>7, <3>1, <3>2
  <2> QED
    BY <1>3, <2>1, <2>2
<1>10. g[1] = k * v
  <2> HIDE DEF g
  <2>1. 1 \in 1..(l + 1) /\ 1 - 1 = 0
    BY <1>3
  <2>2. g[1] = k * f[1] + c[0]
    BY <1>9, <2>1
  <2>3. k * v \in Nat
    OBVIOUS
  <2> QED
    BY <1>7, <2>2, <2>3
<1>11. g[(l + o) + 1] = 0
  BY <1>3, <1>7
<1>12. ASSUME NEW j \in 1..(l + o) PROVE g[j] = g[j + 1] * 10 + z[j]
  <2>1. CASE j <= l
    <3>1. /\ f[j] = f[j + 1] * 10 + d[j] /\ d[j] * k + c[j - 1] = 10 * c[j] + w[j]
          /\ g[j] = k * f[j] + c[j - 1] /\ g[j + 1] = k * f[j + 1] + c[j] /\ z[j] = w[j]
      <4>1. j \in 1..l /\ j \in 1..(l + 1) /\ j + 1 \in 1..(l + 1) /\ (j + 1) - 1 = j
        BY <1>3, <2>1
      <4> QED
        BY <1>5, <1>7, <1>9, <4>1
    <3>2. /\ f[j] \in Nat /\ f[j + 1] \in Nat /\ d[j] \in Nat /\ c[j - 1] \in Nat /\ c[j] \in Nat
          /\ w[j] \in Nat
      <4>1. j \in 1..l /\ j \in 1..(l + 1) /\ j + 1 \in 1..(l + 1) /\ j - 1 \in 0..l /\ j \in 0..l
        BY <1>3, <2>1
      <4> QED
        BY <1>7, <4>1
    <3> DEFINE a == f[j]
               e == f[j + 1]
               r == d[j]
               s == c[j - 1]
               t == c[j]
               y == w[j]
    <3>3. /\ a \in Nat /\ e \in Nat /\ r \in Nat /\ s \in Nat /\ t \in Nat /\ y \in Nat
          /\ a = e * 10 + r /\ r * k + s = 10 * t + y
          /\ g[j] = k * a + s /\ g[j + 1] = k * e + t /\ z[j] = y
      BY <3>1, <3>2
    <3> HIDE DEF a, e, r, s, t, y, g
    <3>4. k * a + s = (k * e + t) * 10 + y
      BY <3>3
    <3> QED
      BY <3>3, <3>4
  <2>2. CASE ~(j <= l)
    <3>1. j - l \in 1..o /\ (j + 1) - l = (j - l) + 1 /\ ~(j + 1 <= l)
          /\ j \in (l + 1)..(l + o) /\ j + 1 \in 1..((l + o) + 1) /\ j \in 1..((l + o) + 1)
      BY <1>3, <2>2
    <3>2. g[j] = h[j - l] /\ g[j + 1] = h[(j - l) + 1] /\ z[j] = m[j - l]
      BY <1>6, <2>2, <3>1
    <3> HIDE DEF g
    <3> QED
      BY <1>7, <3>1, <3>2
  <2> QED
    BY <2>1, <2>2
<1> HIDE DEF g
<1>13. Worth(g, z)
  BY <1>3, <1>4, <1>8, <1>11, <1>12 DEF Worth
<1> QED
  BY <1>10, <1>13 DEF IsWorth, z

LEMMA CarriedIs ==
  ASSUME NEW d, NEW c
  PROVE  \E f : IsMore(f) /\ Number!Carried(d, c) = d \o f[c]
<1> DEFINE f == CHOOSE f : IsMore(f)
<1>1. IsMore(f)
  BY MoreExists
<1>2. Number!Carried(d, c) = d \o f[c]
  BY DEF Number!Carried, IsMore
<1> QED
  BY <1>1, <1>2

IsDone(f, d, k) ==
    f = [j \in 0..Len(d) |->
            IF j = 0 THEN [out |-> <<>>, carry |-> 0]
            ELSE LET a == f[j - 1]
                     e == d[j] * k + a.carry
                 IN  [out |-> Append(a.out, e % 10), carry |-> e \div 10]]

LEMMA DoneExists ==
  ASSUME NEW d \in Seq(0..9), NEW k \in Nat
  PROVE  \E f : IsDone(f, d, k) /\ f \in [0..Len(d) -> [out : Seq(0..9), carry : Nat]]
<1> DEFINE l == Len(d)
           D == [out : Seq(0..9), carry : Nat]
           P == [j \in Nat |-> IF j = 0 THEN 0 ELSE j - 1]
           u == [j \in Nat |-> IF j \in 1..l THEN d[j] ELSE 0]
           e(a, j) == u[j] * k + a.carry
           G == [y \in D \X Nat |-> [out |-> Append(y[1].out, e(y[1], y[2]) % 10),
                                     carry |-> e(y[1], y[2]) \div 10]]
           z == [out |-> <<>>, carry |-> 0]
<1>1. l \in Nat /\ u \in [Nat -> Nat] /\ \A j \in 1..l : u[j] = d[j]
  <2>1. \A j \in 1..l : d[j] \in Nat
    <3> SUFFICES ASSUME NEW j \in 1..l PROVE d[j] \in Nat
      OBVIOUS
    <3>1. d[j] \in 0..9
      OBVIOUS
    <3> QED
      BY <3>1
  <2>2. l \in Nat
    OBVIOUS
  <2> HIDE DEF l
  <2> QED
    BY <2>1, <2>2
<1>2. P \in [Nat -> Nat] /\ z \in D
  OBVIOUS
<1>3. \A j \in Nat \ {0} : P[j] < j /\ P[j] = j - 1
  OBVIOUS
<1> HIDE DEF l, u
<1>4. ASSUME NEW a \in D, NEW j \in Nat
      PROVE  /\ e(a, j) \in Nat
             /\ [out |-> Append(a.out, e(a, j) % 10), carry |-> e(a, j) \div 10] \in D
  <2>1. u[j] * k \in Nat
    <3> DEFINE b == u[j]
    <3>1. b \in Nat
      BY <1>1
    <3> HIDE DEF b
    <3>2. b * k \in Nat
      BY <3>1
    <3> QED
      BY <3>2 DEF b
  <2>2. e(a, j) \in Nat
    BY <2>1
  <2> HIDE DEF e
  <2>3. e(a, j) % 10 \in 0..9 /\ e(a, j) \div 10 \in Nat
    BY <2>2, Tens
  <2>4. Append(a.out, e(a, j) % 10) \in Seq(0..9)
    BY <2>3
  <2> QED
    BY <2>2, <2>3, <2>4
<1>5. G \in [D \X Nat -> D]
  <2> HIDE DEF D, e
  <2>1. ASSUME NEW y \in D \X Nat
        PROVE  [out |-> Append(y[1].out, e(y[1], y[2]) % 10), carry |-> e(y[1], y[2]) \div 10] \in D
    <3>1. y[1] \in D /\ y[2] \in Nat
      OBVIOUS
    <3> QED
      BY <1>4, <3>1
  <2> QED
    BY <2>1
<1>6. \A a \in D, j \in Nat :
        G[<<a, j>>] = [out |-> Append(a.out, e(a, j) % 10), carry |-> e(a, j) \div 10]
  <2> HIDE DEF D, e
  <2> QED
    OBVIOUS
<1> HIDE DEF D, G, P, z
<1>7. PICK f : Upto(f, l, D, z, P, G)
  BY <1>1, <1>2, <1>3, <1>5, UptoExists
<1>8. f \in [0..l -> D] /\ f[0] = z
  BY <1>7 DEF Upto
<1>9. ASSUME NEW j \in 1..l
      PROVE  f[j] = [out |-> Append(f[j - 1].out, e(f[j - 1], j) % 10), carry |-> e(f[j - 1], j) \div 10]
  <2>1. j \in Nat /\ j \in Nat \ {0} /\ P[j] = j - 1 /\ j - 1 \in 0..l
    BY <1>1, <1>3
  <2>2. f[j] = G[<<f[j - 1], j>>] /\ f[j - 1] \in D
    BY <1>7, <1>8, <2>1 DEF Upto
  <2> HIDE DEF e
  <2> QED
    BY <1>6, <2>1, <2>2
<1> DEFINE F(j) == IF j = 0 THEN [out |-> <<>>, carry |-> 0]
                   ELSE LET a == f[j - 1]
                            b == d[j] * k + a.carry
                        IN  [out |-> Append(a.out, b % 10), carry |-> b \div 10]
<1>10. ASSUME NEW j \in 0..l PROVE f[j] = F(j)
  <2>1. CASE j = 0
    BY <1>8, <2>1 DEF z
  <2>2. CASE j # 0
    <3>1. j \in 1..l
      BY <1>1, <2>2
    <3>2. u[j] = d[j]
      BY <1>1, <3>1
    <3> QED
      BY <1>9, <2>2, <3>1, <3>2
  <2> QED
    BY <2>1, <2>2
<1>11. f = [j \in 0..l |-> F(j)]
  <2> HIDE DEF F
  <2> QED
    BY <1>8, <1>10
<1>12. IsDone(f, d, k)
  BY <1>11 DEF IsDone, l
<1> QED
  BY <1>8, <1>12 DEF D, l

LEMMA DoneIs ==
  ASSUME NEW d \in Seq(0..9), NEW k \in Nat, NEW f, IsDone(f, d, k)
  PROVE  /\ f[0] = [out |-> <<>>, carry |-> 0]
         /\ \A j \in 0..Len(d) : f[j] \in [out : Seq(0..9), carry : Nat] /\ Len(f[j].out) = j
         /\ \A j \in 1..Len(d) : \E r \in 0..9 : /\ f[j].out = Append(f[j - 1].out, r)
                                               /\ d[j] * k + f[j - 1].carry = 10 * f[j].carry + r
<1> DEFINE l == Len(d)
           D == [out : Seq(0..9), carry : Nat]
           T == {j \in Nat : j <= l => f[j] \in D /\ Len(f[j].out) = j}
<1>1. l \in Nat
  OBVIOUS
<1>2. f[0] = [out |-> <<>>, carry |-> 0]
  BY <1>1 DEF IsDone
<1>3. ASSUME NEW j \in 1..l
      PROVE  f[j] = [out |-> Append(f[j - 1].out, (d[j] * k + f[j - 1].carry) % 10),
                     carry |-> (d[j] * k + f[j - 1].carry) \div 10]
  <2>1. j \in 0..Len(d) /\ j # 0
    BY <1>1
  <2> HIDE DEF l
  <2> QED
    BY <2>1 DEF IsDone
<1>4. ASSUME NEW j \in 1..l, f[j - 1] \in D
      PROVE  \E r \in 0..9, q \in Nat : /\ f[j] = [out |-> Append(f[j - 1].out, r), carry |-> q]
                                        /\ d[j] * k + f[j - 1].carry = 10 * q + r
  <2> DEFINE b == d[j]
             a == f[j - 1].carry
             e == b * k + a
  <2>1. b \in Nat /\ a \in Nat
    <3>1. d[j] \in 0..9
      OBVIOUS
    <3> QED
      BY <1>4, <3>1
  <2>2. f[j] = [out |-> Append(f[j - 1].out, e % 10), carry |-> e \div 10]
    BY <1>3
  <2> HIDE DEF b, a
  <2>3. e \in Nat
    <3>1. b * k \in Nat
      BY <2>1
    <3> QED
      BY <2>1, <3>1
  <2>4. d[j] * k + f[j - 1].carry = e
    BY DEF b, a
  <2> HIDE DEF e
  <2>5. PICK q \in Nat, r \in 0..9 : q = e \div 10 /\ r = e % 10 /\ e = 10 * q + r
    BY <2>3, Tens
  <2> QED
    BY <2>2, <2>4, <2>5
<1> HIDE DEF D, l
<1>5. 0 \in T
  <2>1. f[0] \in D /\ Len(f[0].out) = 0
    BY <1>2 DEF D
  <2> QED
    BY <2>1
<1>6. ASSUME NEW j \in T PROVE j + 1 \in T
  <2>1. CASE ~(j + 1 <= l)
    BY <2>1
  <2>2. CASE j + 1 <= l
    <3>1. j \in Nat /\ j + 1 \in 1..l /\ (j + 1) - 1 = j /\ f[j] \in D /\ Len(f[j].out) = j
      BY <1>1, <2>2
    <3>2. PICK r \in 0..9, q \in Nat : f[j + 1] = [out |-> Append(f[j].out, r), carry |-> q]
      <4> DEFINE b == j + 1
      <4>1. b \in 1..l /\ b - 1 = j /\ f[b - 1] \in D
        BY <3>1
      <4> HIDE DEF b
      <4>2. \E r \in 0..9, q \in Nat : f[b] = [out |-> Append(f[b - 1].out, r), carry |-> q]
        BY <1>4, <4>1
      <4> QED
        BY <4>1, <4>2 DEF b
    <3>3. f[j + 1] \in D /\ Len(f[j + 1].out) = j + 1
      BY <3>1, <3>2 DEF D
    <3> QED
      BY <3>1, <3>3
  <2> QED
    BY <2>1, <2>2
<1>7. T \in SUBSET Nat
  OBVIOUS
<1> HIDE DEF T
<1>8. T = Nat
  BY <1>5, <1>6, <1>7, Induction
<1>9. ASSUME NEW j \in 0..l PROVE f[j] \in D /\ Len(f[j].out) = j
  <2>1. j \in T /\ j <= l
    BY <1>1, <1>8
  <2> QED
    BY <2>1 DEF T
<1>10. ASSUME NEW j \in 1..l
       PROVE  \E r \in 0..9 : /\ f[j].out = Append(f[j - 1].out, r)
                              /\ d[j] * k + f[j - 1].carry = 10 * f[j].carry + r
  <2>1. f[j - 1] \in D
    BY <1>1, <1>9
  <2>2. PICK r \in 0..9, q \in Nat : /\ f[j] = [out |-> Append(f[j - 1].out, r), carry |-> q]
                                   /\ d[j] * k + f[j - 1].carry = 10 * q + r
    BY <1>4, <2>1
  <2>3. f[j].out = Append(f[j - 1].out, r) /\ f[j].carry = q
    BY <2>2
  <2> QED
    BY <2>2, <2>3
<1> QED
  BY <1>2, <1>9, <1>10 DEF D, l

(* What Multiplied() leaves: the digits are carried through.               *)
LEMMA MultipliedIs ==
  ASSUME NEW d \in Seq(0..9), NEW k \in Nat
  PROVE  LET m == Number!Multiplied(d, k, 10)
         IN  m.carry \in Nat /\ \E c : Carrying(d, k, m.out, c) /\ c[Len(d)] = m.carry
<1> DEFINE f == CHOOSE f : IsDone(f, d, k)
           l == Len(d)
           w == f[l].out
           c == [j \in 0..l |-> f[j].carry]
<1>1. IsDone(f, d, k)
  BY DoneExists
<1>2. Number!Multiplied(d, k, 10) = f[l]
  BY DEF Number!Multiplied, IsDone
<1> HIDE DEF f, l
<1>3. l \in Nat
  BY DEF l
<1>4. /\ f[0] = [out |-> <<>>, carry |-> 0]
      /\ \A j \in 0..l : f[j] \in [out : Seq(0..9), carry : Nat] /\ Len(f[j].out) = j
      /\ \A j \in 1..l : \E r \in 0..9 : /\ f[j].out = Append(f[j - 1].out, r)
                                        /\ d[j] * k + f[j - 1].carry = 10 * f[j].carry + r
  BY <1>1, DoneIs DEF l
<1> DEFINE T == {b \in Nat : b <= l => \A j \in 1..b : f[b].out[j] = f[j].out[j]}
<1>5. 0 \in T
  OBVIOUS
<1>6. ASSUME NEW b \in T PROVE b + 1 \in T
  <2>1. SUFFICES ASSUME b + 1 <= l, NEW j \in 1..(b + 1)
                 PROVE  f[b + 1].out[j] = f[j].out[j]
    OBVIOUS
  <2>2. CASE j = b + 1
    BY <2>2
  <2>3. CASE j # b + 1
    <3>1. j \in 1..b /\ b + 1 \in 1..l /\ (b + 1) - 1 = b /\ b \in 0..l /\ b <= l
      BY <1>3, <2>1, <2>3
    <3>2. PICK r \in 0..9 : f[b + 1].out = Append(f[b].out, r)
      BY <1>4, <3>1
    <3>3. f[b].out \in Seq(0..9) /\ Len(f[b].out) = b
      BY <1>4, <3>1
    <3>4. f[b + 1].out[j] = f[b].out[j]
      BY <3>1, <3>2, <3>3
    <3> QED
      BY <3>1, <3>4
  <2> QED
    BY <2>2, <2>3
<1>7. T \in SUBSET Nat
  OBVIOUS
<1> HIDE DEF T
<1>8. l \in T
  BY <1>3, <1>5, <1>6, <1>7, Induction
<1>9. \A j \in 1..l : w[j] = f[j].out[j]
  BY <1>3, <1>8 DEF T
<1>10. ASSUME NEW j \in 1..l PROVE d[j] * k + c[j - 1] = 10 * c[j] + w[j]
  <2>1. j \in 0..l /\ j - 1 \in 0..l
    BY <1>3
  <2>2. PICK r \in 0..9 : /\ f[j].out = Append(f[j - 1].out, r)
                         /\ d[j] * k + f[j - 1].carry = 10 * f[j].carry + r
    BY <1>4
  <2>3. f[j - 1].out \in Seq(0..9) /\ Len(f[j - 1].out) = j - 1
    BY <1>4, <2>1
  <2>4. f[j].out[j] = r
    BY <2>1, <2>2, <2>3
  <2> QED
    BY <1>9, <2>1, <2>2, <2>4
<1>11. /\ w \in Seq(0..9) /\ Len(w) = l /\ f[l].carry \in Nat
       /\ c \in [0..l -> Nat] /\ c[0] = 0 /\ c[l] = f[l].carry
  BY <1>3, <1>4
<1> HIDE DEF c, w
<1>12. Carrying(d, k, w, c)
  BY <1>10, <1>11 DEF Carrying, l
<1> QED
  BY <1>2, <1>11, <1>12 DEF w, l

(* multiply() leaves the digits of the product, and no zero in front.      *)
LEMMA MultiplyIs ==
  ASSUME NEW d \in Seq(0..9), d # <<>>, d[Len(d)] # 0, NEW k \in Nat \ {0},
         NEW v \in Nat, IsWorth(d, v)
  PROVE  LET e == Number!multiply(d, k)
         IN  e \in Seq(0..9) /\ e # <<>> /\ e[Len(e)] # 0 /\ IsWorth(e, k * v)
<1> DEFINE m == Number!Multiplied(d, k, 10)
           w == m.out
           l == Len(d)
           e == Number!multiply(d, k)
<1>1. m.carry \in Nat /\ \E c : Carrying(d, k, w, c) /\ c[l] = m.carry
  BY MultipliedIs
<1> HIDE DEF m
<1>2. PICK c : Carrying(d, k, w, c) /\ c[l] = m.carry
  BY <1>1
<1>3. PICK f : IsMore(f) /\ Number!Carried(w, m.carry) = w \o f[m.carry]
  BY CarriedIs
<1> DEFINE h == f[m.carry]
<1>4. e = w \o h
  BY <1>3 DEF Number!multiply, m
<1>5. /\ Proper(h) /\ IsWorth(h, m.carry)
      /\ m.carry = 0 => h = <<>>
      /\ m.carry # 0 => h # <<>>
  BY <1>1, <1>3, MoreIs
<1> HIDE DEF e, h, w
<1>6. h \in Seq(0..9) /\ (h # <<>> => h[Len(h)] # 0)
  BY <1>5 DEF Proper
<1>7. w \in Seq(0..9) /\ Len(w) = l /\ l \in Nat \ {0}
  BY <1>2 DEF Carrying
<1>8. IsWorth(e, k * v)
  <2>1. IsWorth(h, c[Len(d)]) /\ h \in Seq(0..9) /\ k \in Nat
    BY <1>2, <1>5, <1>6
  <2>2. IsWorth(w \o h, k * v)
    BY <1>2, <2>1, WorthTimes
  <2> QED
    BY <1>4, <2>2
<1>9. e \in Seq(0..9) /\ Len(e) = l + Len(h) /\ e # <<>>
  <2>1. Len(w \o h) = Len(w) + Len(h) /\ w \o h \in Seq(0..9)
    BY <1>6, <1>7
  <2>2. Len(h) \in Nat
    BY <1>6
  <2>3. Len(e) # 0
    BY <1>4, <1>7, <2>1, <2>2
  <2> QED
    BY <1>4, <1>7, <2>1, <2>3
<1>10. e[Len(e)] # 0
  <2>1. CASE m.carry = 0
    <3> DEFINE a == c[l - 1]
               b == d[l]
               r == w[l]
    <3>1. e[Len(e)] = w[l]
      BY <1>4, <1>5, <1>6, <1>7, <1>9, <2>1
    <3>2. b * k + a = 10 * c[l] + r /\ a \in Nat /\ c[l] = 0
      <4>1. l \in 1..l /\ l - 1 \in 0..l
        BY <1>7
      <4> QED
        BY <1>2, <2>1, <4>1 DEF Carrying
    <3>3. b \in 0..9 /\ b # 0 /\ r \in 0..9
      BY <1>7
    <3> HIDE DEF a, b, r
    <3>4. r # 0
      <4> SUFFICES ASSUME r = 0 PROVE FALSE
        OBVIOUS
      <4>1. b * k + a = 0
        BY <3>2
      <4>2. b \in Nat \ {0}
        BY <3>3
      <4>3. b * k \in Nat /\ b * k > 0
        BY <4>2
      <4> QED
        BY <3>2, <4>1, <4>3
    <3> QED
      BY <3>1, <3>4 DEF r
  <2>2. CASE m.carry # 0
    <3>1. h # <<>> /\ Len(h) \in Nat \ {0} /\ h[Len(h)] # 0
      BY <1>5, <1>6, <2>2
    <3>2. e[Len(e)] = h[Len(h)]
      BY <1>4, <1>6, <1>7, <1>9, <3>1
    <3> QED
      BY <3>1, <3>2
  <2> QED
    BY <2>1, <2>2
<1> QED
  BY <1>8, <1>9, <1>10 DEF e
-----------------------------------------------------------------------------
(***************************************************************************)
(* What a number leaves when it is divided by p.                           *)
(***************************************************************************)
LEMMA Leaves ==
  ASSUME NEW a \in Nat, NEW p \in Nat \ {0}, NEW q \in Nat, NEW r \in 0..(p - 1), a = p * q + r
  PROVE  a % p = r
<1>1. PICK s \in Nat, t \in 0..(p - 1) : t = a % p /\ a = p * s + t
  BY Division
<1>2. s = q
  <2>1. ASSUME NEW b \in Nat, NEW c \in Nat, NEW y \in 0..(p - 1), NEW z \in 0..(p - 1), b < c
        PROVE  p * b + y < p * c + z
    <3>1. p * b + p <= p * c
      <4>1. PICK o \in Nat : c = b + 1 + o
        <5>1. c - b - 1 \in Nat /\ c = b + 1 + (c - b - 1)
          BY <2>1
        <5> QED
          BY <5>1
      <4>2. p * c = p * b + p + p * o /\ p * o \in Nat /\ p * b \in Nat
        BY <4>1
      <4> QED
        BY <4>2
    <3>2. p * b \in Nat /\ p * c \in Nat
      OBVIOUS
    <3> QED
      BY <3>1, <3>2
  <2>2. ~(s < q)
    <3> SUFFICES ASSUME s < q PROVE FALSE
      OBVIOUS
    <3>1. p * s + t < p * q + r
      BY <2>1
    <3> QED
      BY <1>1, <3>1
  <2>3. ~(q < s)
    <3> SUFFICES ASSUME q < s PROVE FALSE
      OBVIOUS
    <3>1. p * q + r < p * s + t
      BY <2>1
    <3> QED
      BY <1>1, <3>1
  <2> QED
    BY <2>2, <2>3
<1>3. p * q \in Nat
  OBVIOUS
<1> QED
  BY <1>1, <1>2, <1>3

LEMMA Leaving ==
  \A a \in Nat, p \in Nat \ {0}, k \in Nat, b \in Nat :
    (a * k + b) % p = ((a % p) * k + b) % p
<1> SUFFICES ASSUME NEW a \in Nat, NEW p \in Nat \ {0}, NEW k \in Nat, NEW b \in Nat
             PROVE  (a * k + b) % p = ((a % p) * k + b) % p
  OBVIOUS
<1>1. PICK q \in Nat, r \in 0..(p - 1) : r = a % p /\ a = p * q + r
  BY Division
<1>2. r \in Nat /\ r * k + b \in Nat
  <2>1. r \in Nat
    OBVIOUS
  <2>2. r * k \in Nat
    BY <2>1
  <2> QED
    BY <2>1, <2>2
<1> DEFINE z == r * k + b
<1> HIDE DEF z
<1>3. PICK s \in Nat, t \in 0..(p - 1) : t = z % p /\ z = p * s + t
  BY <1>2, Division DEF z
<1>4. q * k + s \in Nat /\ a * k + b \in Nat
  <2>1. q * k \in Nat /\ a * k \in Nat
    OBVIOUS
  <2> QED
    BY <2>1
<1>5. a * k + b = p * (q * k + s) + t
  <2>1. a * k + b = p * q * k + z
    BY <1>1, <1>2 DEF z
  <2>2. p * (q * k + s) = p * q * k + p * s
    OBVIOUS
  <2>3. p * s \in Nat /\ p * q * k \in Nat
    OBVIOUS
  <2> QED
    BY <1>3, <2>1, <2>2, <2>3
<1> DEFINE y == a * k + b
           g == q * k + s
<1> HIDE DEF y, g
<1>6. y % p = t
  BY <1>4, <1>5, Leaves DEF y, g
<1> QED
  BY <1>1, <1>3, <1>6 DEF y, z

LEMMA LeavingTens ==
  ASSUME NEW a \in Nat, NEW b \in Nat, NEW p \in Nat \ {0}
  PROVE  (a * 10 + b) % p = ((a % p) * 10 + b) % p
<1>1. 10 \in Nat
  OBVIOUS
<1> QED
  BY <1>1, Leaving, ZenonT(30)

Fact[k \in Nat] == IF k = 0 THEN 1 ELSE k * Fact[k - 1]

LEMMA FactIs == Fact \in [Nat -> Nat] /\ Fact[0] = 1 /\ \A k \in Nat \ {0} : Fact[k] = k * Fact[k - 1]
<1> DEFINE P == [k \in Nat |-> IF k = 0 THEN 0 ELSE k - 1]
           G == [y \in Nat \X Nat |-> y[2] * y[1]]
           IsFact(f) == f = [k \in Nat |-> IF k = 0 THEN 1 ELSE k * f[k - 1]]
<1>1. P \in [Nat -> Nat] /\ 1 \in Nat
  OBVIOUS
<1>2. \A k \in Nat \ {0} : P[k] < k /\ P[k] = k - 1
  OBVIOUS
<1>3. G \in [Nat \X Nat -> Nat]
  <2>1. ASSUME NEW y \in Nat \X Nat PROVE y[2] * y[1] \in Nat
    <3>1. y[1] \in Nat /\ y[2] \in Nat
      OBVIOUS
    <3> QED
      BY <3>1
  <2> QED
    BY <2>1
<1>4. \A a \in Nat, k \in Nat : G[<<a, k>>] = k * a
  OBVIOUS
<1> HIDE DEF G, P
<1>5. PICK f : Follows(f, Nat, 1, P, G)
  BY <1>1, <1>2, <1>3, FollowsExists
<1>6. f \in [Nat -> Nat] /\ f[0] = 1
  BY <1>5 DEF Follows
<1>7. ASSUME NEW k \in Nat \ {0} PROVE f[k] = k * f[k - 1]
  <2>1. P[k] = k - 1 /\ f[k - 1] \in Nat
    BY <1>2, <1>6
  <2> QED
    BY <1>4, <1>5, <2>1 DEF Follows
<1>8. IsFact(f)
  BY <1>6, <1>7
<1>9. IsFact(Fact)
  <2> HIDE DEF IsFact
  <2>1. IsFact(CHOOSE h : IsFact(h))
    BY <1>8
  <2> QED
    BY <2>1 DEF Fact, IsFact
<1>10. Fact[0] = 1 /\ \A k \in Nat \ {0} : Fact[k] = k * Fact[k - 1]
  BY <1>9
<1> HIDE DEF IsFact
<1> DEFINE T == {k \in Nat : Fact[k] \in Nat}
<1>11. 0 \in T
  BY <1>10
<1>12. ASSUME NEW k \in T PROVE k + 1 \in T
  <2>1. k + 1 \in Nat \ {0} /\ (k + 1) - 1 = k /\ Fact[k] \in Nat
    OBVIOUS
  <2>2. Fact[k + 1] = (k + 1) * Fact[k]
    BY <1>10, <2>1
  <2> DEFINE a == Fact[k]
             b == k + 1
  <2>3. a \in Nat /\ b \in Nat
    BY <2>1
  <2> HIDE DEF a, b
  <2>4. b * a \in Nat
    BY <2>3
  <2> QED
    BY <2>1, <2>2, <2>4 DEF a, b
<1>13. T \in SUBSET Nat
  OBVIOUS
<1> HIDE DEF T
<1>14. \A k \in Nat : Fact[k] \in Nat
  <2>1. T = Nat
    BY <1>11, <1>12, <1>13, Induction
  <2> QED
    BY <2>1 DEF T
<1>15. Fact = [k \in Nat |-> Fact[k]]
  BY <1>9 DEF IsFact
<1> QED
  BY <1>10, <1>14, <1>15

(* The remainder is carried from the highest digit to the lowest.          *)
IsLeft(r, w, p) ==
    r = [j \in 1..(Len(w) + 1) |-> IF j > Len(w) THEN 0 ELSE (r[j + 1] * 10 + w[j]) % p]

LEMMA ResidueIs ==
  ASSUME NEW w \in Seq(0..9), NEW v \in Nat, IsWorth(w, v), NEW p \in Nat \ {0}
  PROVE  Number!Residue(w, 10, p) = v % p
<1> DEFINE l == Len(w)
<1>1. PICK f : Worth(f, w) /\ f[1] = v
  BY DEF IsWorth
<1>2. /\ l \in Nat /\ f \in [1..(l + 1) -> Nat] /\ f[l + 1] = 0 /\ f[1] = v
      /\ \A j \in 1..l : f[j] = f[j + 1] * 10 + w[j]
  BY <1>1 DEF Worth
<1>3. \A j \in 1..l : w[j] \in Nat
  <2> SUFFICES ASSUME NEW j \in 1..l PROVE w[j] \in Nat
    OBVIOUS
  <2>1. w[j] \in 0..9
    OBVIOUS
  <2> QED
    BY <2>1
<1>4. 0 % p = 0
  <2>1. 0 = p * 0 + 0 /\ 0 \in 0..(p - 1)
    OBVIOUS
  <2> QED
    BY <2>1, Leaves
<1> DEFINE r == [j \in 1..(l + 1) |-> f[j] % p]
<1>5. IsLeft(r, w, p)
  <2> DEFINE R(j) == IF j > l THEN 0 ELSE (r[j + 1] * 10 + w[j]) % p
  <2>1. ASSUME NEW j \in 1..(l + 1) PROVE f[j] % p = R(j)
    <3> HIDE DEF l
    <3>1. CASE j = l + 1
      BY <1>2, <1>4, <3>1
    <3>2. CASE j \in 1..l
      <4>1. f[j] = f[j + 1] * 10 + w[j] /\ f[j + 1] \in Nat /\ w[j] \in Nat /\ ~(j > l)
            /\ r[j + 1] = f[j + 1] % p
        BY <1>2, <1>3, <3>2
      <4>2. (f[j + 1] * 10 + w[j]) % p = ((f[j + 1] % p) * 10 + w[j]) % p
        BY <4>1, LeavingTens, Zenon
      <4> QED
        BY <4>1, <4>2
    <3> QED
      BY <1>2, <3>1, <3>2
  <2>2. r = [j \in 1..(l + 1) |-> R(j)]
    <3> HIDE DEF R
    <3> QED
      BY <2>1
  <2> QED
    BY <2>2 DEF IsLeft
<1> HIDE DEF r
<1> DEFINE h == CHOOSE h : IsLeft(h, w, p)
<1>6. IsLeft(h, w, p)
  BY <1>5
<1>7. Number!Residue(w, 10, p) = h[1]
  BY DEF Number!Residue, IsLeft
<1> HIDE DEF h
<1>8. /\ h[l + 1] = 0
      /\ \A j \in 1..l : h[j] = (h[j + 1] * 10 + w[j]) % p
  <2>1. \A j \in 1..(l + 1) : h[j] = IF j > l THEN 0 ELSE (h[j + 1] * 10 + w[j]) % p
    BY <1>6 DEF IsLeft
  <2> HIDE DEF l
  <2> QED
    BY <1>2, <2>1
<1> HIDE DEF l
<1> DEFINE T == {b \in Nat : b <= l => h[l + 1 - b] = f[l + 1 - b] % p}
<1>9. 0 \in T
  BY <1>2, <1>4, <1>8
<1>10. ASSUME NEW b \in T PROVE b + 1 \in T
  <2>1. SUFFICES ASSUME b + 1 <= l PROVE h[l + 1 - (b + 1)] = f[l + 1 - (b + 1)] % p
    OBVIOUS
  <2> DEFINE j == l - b
  <2>2. j \in 1..l /\ j + 1 \in 1..(l + 1) /\ l + 1 - (b + 1) = j /\ l + 1 - b = j + 1
    BY <1>2, <2>1
  <2>3. h[j + 1] = f[j + 1] % p
    BY <1>2, <2>1, <2>2
  <2> HIDE DEF j
  <2>4. f[j] = f[j + 1] * 10 + w[j] /\ f[j + 1] \in Nat /\ w[j] \in Nat
    BY <1>2, <1>3, <2>2
  <2>5. (f[j + 1] * 10 + w[j]) % p = ((f[j + 1] % p) * 10 + w[j]) % p
    BY <2>4, LeavingTens, Zenon
  <2> QED
    BY <1>8, <2>2, <2>3, <2>4, <2>5
<1>11. T \in SUBSET Nat
  OBVIOUS
<1> HIDE DEF T
<1>12. l \in T
  BY <1>2, <1>9, <1>10, <1>11, Induction
<1>13. h[1] = f[1] % p
  <2>1. l + 1 - l = 1 /\ l <= l
    BY <1>2
  <2> QED
    BY <1>12, <2>1 DEF T
<1> QED
  BY <1>2, <1>7, <1>13

LEMMA LeavingTimes ==
  \A a \in Nat, p \in Nat \ {0}, k \in Nat :
    /\ a % p \in Nat /\ (a % p) % p = a % p
    /\ (k * a) % p \in Nat /\ (k * a) % p = (k * (a % p)) % p
<1> SUFFICES ASSUME NEW a \in Nat, NEW p \in Nat \ {0}, NEW k \in Nat
             PROVE  /\ a % p \in Nat /\ (a % p) % p = a % p
                    /\ (k * a) % p \in Nat /\ (k * a) % p = (k * (a % p)) % p
  OBVIOUS
<1>1. (a * k + 0) % p = ((a % p) * k + 0) % p
  <2> DEFINE b == 0
  <2>1. b \in Nat
    OBVIOUS
  <2> HIDE DEF b
  <2>2. (a * k + b) % p = ((a % p) * k + b) % p
    BY <2>1, Leaving, ZenonT(30)
  <2> QED
    BY <2>2 DEF b
<1>2. PICK q \in Nat, r \in 0..(p - 1) : r = a % p /\ a = p * q + r
  BY Division
<1>3. r % p = r /\ r \in Nat
  <2>1. r = p * 0 + r /\ r \in Nat
    OBVIOUS
  <2> QED
    BY <2>1, Leaves
<1>4. a * k + 0 = k * a /\ k * a \in Nat
  OBVIOUS
<1>5. (a % p) * k + 0 = k * (a % p)
  BY <1>2, <1>3
<1>6. (k * a) % p \in Nat
  <2> DEFINE b == k * a
  <2>1. b \in Nat
    BY <1>4
  <2> HIDE DEF b
  <2>2. b % p \in Nat
    BY <2>1
  <2> QED
    BY <2>2 DEF b
<1>7. (k * a) % p = (k * (a % p)) % p
  BY <1>1, <1>4, <1>5, ZenonT(30)
<1> QED
  BY <1>2, <1>3, <1>6, <1>7

IsReduced(f, p) == f = [k \in Nat |-> IF k = 0 THEN 1 ELSE (k * f[k - 1]) % p]

LEMMA ReducedExists == ASSUME NEW p \in Nat \ {0} PROVE \E f : IsReduced(f, p)
<1> DEFINE P == [k \in Nat |-> IF k = 0 THEN 0 ELSE k - 1]
           G == [y \in Nat \X Nat |-> (y[2] * y[1]) % p]
<1>1. P \in [Nat -> Nat] /\ 1 \in Nat
  OBVIOUS
<1>2. \A k \in Nat \ {0} : P[k] < k /\ P[k] = k - 1
  OBVIOUS
<1>3. G \in [Nat \X Nat -> Nat]
  <2>1. ASSUME NEW y \in Nat \X Nat PROVE (y[2] * y[1]) % p \in Nat
    <3>1. y[1] \in Nat /\ y[2] \in Nat
      OBVIOUS
    <3> QED
      BY <3>1, LeavingTimes, ZenonT(30)
  <2> QED
    BY <2>1
<1>4. \A a \in Nat, k \in Nat : G[<<a, k>>] = (k * a) % p
  OBVIOUS
<1> HIDE DEF G, P
<1>5. PICK f : Follows(f, Nat, 1, P, G)
  BY <1>1, <1>2, <1>3, FollowsExists
<1>6. f \in [Nat -> Nat] /\ f[0] = 1
  BY <1>5 DEF Follows
<1>7. ASSUME NEW k \in Nat \ {0} PROVE f[k] = (k * f[k - 1]) % p
  <2>1. P[k] = k - 1 /\ f[k - 1] \in Nat /\ k \in Nat
    BY <1>2, <1>6
  <2>2. f[k] = G[<<f[k - 1], k>>]
    BY <1>5, <2>1 DEF Follows
  <2> QED
    BY <1>4, <2>1, <2>2
<1>8. f = [k \in Nat |-> IF k = 0 THEN 1 ELSE (k * f[k - 1]) % p]
  <2> DEFINE R(k) == IF k = 0 THEN 1 ELSE (k * f[k - 1]) % p
  <2>1. \A k \in Nat : f[k] = R(k)
    BY <1>6, <1>7
  <2> HIDE DEF R
  <2>2. f = [k \in Nat |-> R(k)]
    BY <1>6, <2>1
  <2> QED
    BY <2>2 DEF R
<1> QED
  BY <1>8 DEF IsReduced

LEMMA FactorialIs ==
  ASSUME NEW p \in Nat \ {0}, NEW m \in Nat \ {0}
  PROVE  Number!Factorial(m, p) = Fact[m] % p
<1> DEFINE f == CHOOSE f : IsReduced(f, p)
<1>1. IsReduced(f, p)
  BY ReducedExists
<1>2. Number!Factorial(m, p) = f[m]
  BY DEF Number!Factorial, IsReduced
<1> HIDE DEF f
<1>3. f[0] = 1 /\ \A k \in Nat \ {0} : f[k] = (k * f[k - 1]) % p
  BY <1>1 DEF IsReduced
<1> DEFINE T == {k \in Nat : /\ f[k] \in Nat /\ f[k] % p = Fact[k] % p
                             /\ k # 0 => f[k] = f[k] % p}
<1>4. 0 \in T
  BY <1>3, FactIs
<1>5. ASSUME NEW k \in T PROVE k + 1 \in T
  <2>1. k \in Nat /\ f[k] \in Nat /\ f[k] % p = Fact[k] % p
    OBVIOUS
  <2>2. k + 1 \in Nat /\ k + 1 # 0 /\ k + 1 \in Nat \ {0} /\ (k + 1) - 1 = k /\ Fact[k] \in Nat
    BY <2>1, FactIs
  <2>3. f[k + 1] = ((k + 1) * f[k]) % p /\ Fact[k + 1] = (k + 1) * Fact[k]
    BY <1>3, <2>2, FactIs
  <2> DEFINE a == f[k]
             b == Fact[k]
             c == k + 1
             t == c * a
             g == f[c]
             h == Fact[c]
  <2>4. a \in Nat /\ b \in Nat /\ c \in Nat /\ a % p = b % p /\ g = (c * a) % p /\ h = c * b
    BY <2>1, <2>2, <2>3
  <2> HIDE DEF a, b, c, g, h
  <2>5. (c * a) % p = (c * b) % p /\ (c * a) % p \in Nat
    <3>1. (c * a) % p = (c * (a % p)) % p /\ (c * a) % p \in Nat
      BY <2>4, LeavingTimes, ZenonT(30)
    <3>2. (c * b) % p = (c * (b % p)) % p
      BY <2>4, LeavingTimes, ZenonT(30)
    <3> QED
      BY <2>4, <3>1, <3>2, ZenonT(30)
  <2>6. c * a \in Nat
    BY <2>4
  <2> HIDE DEF t
  <2>7. (t % p) % p = t % p
    <3>1. t \in Nat
      BY <2>6 DEF t
    <3> QED
      BY <3>1, LeavingTimes, ZenonT(30)
  <2>8. g \in Nat /\ g % p = h % p /\ g = g % p
    BY <2>4, <2>5, <2>7 DEF t
  <2> QED
    BY <2>2, <2>8 DEF g, h, c
<1>6. T \in SUBSET Nat
  OBVIOUS
<1> HIDE DEF T
<1>7. m \in T
  BY <1>4, <1>5, <1>6, Induction
<1> QED
  BY <1>2, <1>7 DEF T

(* The digits written down are those of x!.                                *)
DigitsInv ==
    /\ x \in Nat \ {0}
    /\ digits \in Seq(0..9)
    /\ digits # <<>> => digits[Len(digits)] # 0 /\ IsWorth(digits, Fact[x])

LEMMA DigitsInit == ASSUME Number!Init PROVE DigitsInv
<1>1. x = 1 /\ digits = <<1>>
  BY DEF Number!Init
<1>2. Fact[1] = 1
  <2>1. Fact[1] = 1 * Fact[1 - 1] /\ 1 - 1 = 0
    BY FactIs
  <2> QED
    BY <2>1, FactIs
<1>3. IsWorth(<<1>>, 1)
  <2>1. IsWorth(<<1>> \o <<>>, 0 * 10 + 1)
    <3>1. <<>> \in Seq(0..9) /\ 0 \in Nat /\ 1 \in 0..9
      OBVIOUS
    <3> QED
      BY <3>1, NoDigits, OneDigit
  <2>2. <<1>> \o <<>> = <<1>> /\ 0 * 10 + 1 = 1
    OBVIOUS
  <2> QED
    BY <2>1, <2>2
<1>4. <<1>> \in Seq(0..9) /\ <<1>>[Len(<<1>>)] # 0
  OBVIOUS
<1> QED
  BY <1>1, <1>2, <1>3, <1>4 DEF DigitsInv

LEMMA DigitsStep == ASSUME DigitsInv, [Number!Multiply]_(Number!vars) PROVE DigitsInv'
<1>1. CASE UNCHANGED Number!vars
  BY <1>1 DEF Number!vars, DigitsInv
<1>2. CASE Number!Multiply
  <2> DEFINE e == Number!multiply(digits, x')
  <2>1. x' = x + 1 /\ digits # <<>> /\ digits' \in {e, <<>>}
    BY <1>2 DEF Number!Multiply
  <2>2. /\ x \in Nat \ {0} /\ digits \in Seq(0..9) /\ digits[Len(digits)] # 0
        /\ IsWorth(digits, Fact[x]) /\ Fact[x] \in Nat
    BY <2>1, FactIs DEF DigitsInv
  <2>3. x' \in Nat \ {0} /\ x' - 1 = x
    BY <2>1, <2>2
  <2>4. Fact[x'] = x' * Fact[x]
    BY <2>3, FactIs
  <2>5. e \in Seq(0..9) /\ e # <<>> /\ e[Len(e)] # 0 /\ IsWorth(e, x' * Fact[x])
    BY <2>1, <2>2, <2>3, MultiplyIs
  <2> HIDE DEF e
  <2>6. CASE digits' = e
    BY <2>3, <2>4, <2>5, <2>6 DEF DigitsInv
  <2>7. CASE digits' = <<>>
    BY <2>3, <2>7 DEF DigitsInv
  <2> QED
    BY <2>1, <2>6, <2>7
<1> QED
  BY <1>1, <1>2

LEMMA DigitsHold ==
  ASSUME DigitsInv
  PROVE  /\ \A k \in DOMAIN digits : digits[k] \in 0..9
         /\ digits # <<>> =>
               /\ digits[Len(digits)] # 0
               /\ \A p \in Nat \ {0} : Number!Residue(digits, 10, p) = Number!Factorial(x, p)
<1>1. ASSUME digits # <<>>, NEW p \in Nat \ {0}
      PROVE  Number!Residue(digits, 10, p) = Number!Factorial(x, p)
  <2>1. Fact[x] \in Nat /\ x \in Nat \ {0} /\ digits \in Seq(0..9) /\ IsWorth(digits, Fact[x])
    BY <1>1, FactIs DEF DigitsInv
  <2> QED
    BY <2>1, ResidueIs, FactorialIs
<1> QED
  BY <1>1 DEF DigitsInv
-----------------------------------------------------------------------------
(* One program runs, and its invariant holds.                              *)
ExercisesInv ==
    /\ program \in {"tcp", "udp", "thread", "process", "locks", "hand", "number", "echo",
                    "check"}
    /\ program = "tcp" => TcpInv
    /\ program = "udp" => UdpInv
    /\ program = "thread" => ThreadInv
    /\ program = "process" => ProcessInv
    /\ program = "locks" => LocksInv
    /\ program = "hand" => HandInv
    /\ program = "number" => NumberInv /\ DigitsInv
    /\ program = "echo" => EchoInv
    /\ program = "check" => CheckInv

LEMMA ExercisesInit == ASSUME Init PROVE ExercisesInv
<1>1. \/ program = "tcp" /\ Tcp!Init
      \/ program = "udp" /\ Udp!Init
      \/ program = "thread" /\ Thread!Init
      \/ program = "process" /\ Process!Init
      \/ program = "locks" /\ Locks!Init
      \/ program = "hand" /\ Hand!Init
      \/ program = "number" /\ Number!Init
      \/ program = "echo" /\ Echo!Init
      \/ program = "check" /\ Check!Init
  BY Zenon DEF Init
<1> QED
  BY <1>1, TcpInit, UdpInit, ThreadInit, ProcessInit, LocksInit, HandInit, NumberInit,
    DigitsInit, EchoInit, CheckInit DEF ExercisesInv

LEMMA ExercisesStep == ASSUME ExercisesInv, [Next]_vars PROVE ExercisesInv'
<1>1. program' = program
  BY OneRuns
<1>2. program = "tcp" => TcpInv'
  BY OneRuns, TcpStep DEF ExercisesInv
<1>3. program = "udp" => UdpInv'
  BY OneRuns, UdpStep DEF ExercisesInv
<1>4. program = "thread" => ThreadInv'
  BY OneRuns, ThreadStep DEF ExercisesInv
<1>5. program = "process" => ProcessInv'
  BY OneRuns, ProcessStep DEF ExercisesInv
<1>6. program = "locks" => LocksInv'
  BY OneRuns, LocksStep DEF ExercisesInv
<1>7. program = "hand" => HandInv'
  BY OneRuns, HandStep DEF ExercisesInv
<1>8. program = "number" => NumberInv' /\ DigitsInv'
  BY OneRuns, NumberStep, DigitsStep DEF ExercisesInv
<1>9. program = "echo" => EchoInv'
  BY OneRuns, EchoStep DEF ExercisesInv
<1>10. program = "check" => CheckInv'
  BY OneRuns, CheckStep DEF ExercisesInv
<1> QED
  BY <1>1, <1>2, <1>3, <1>4, <1>5, <1>6, <1>7, <1>8, <1>9, <1>10 DEF ExercisesInv

LEMMA ExercisesInvariant == Spec => []ExercisesInv
  BY ExercisesInit, ExercisesStep, PTL DEF Spec

(* Every exercise keeps its variables to their types: the header counts    *)
(* no further than the packages, an entry is of the table, a checksum is   *)
(* of 32 bits.                                                             *)
THEOREM TypeCorrect == Spec => []TypeOK
<1>1. ASSUME ExercisesInv PROVE TypeOK
  BY <1>1, TcpHolds, UdpHolds, ThreadHolds, ProcessHolds, NumberHolds, EchoHolds, CheckHolds
    DEF ExercisesInv, TypeOK, LocksInv, HandInv
<1> QED
  BY <1>1, ExercisesInvariant, PTL

(* The ends of learn_cpp/web take nothing for what it is not: tcp_package  *)
(* no body for a header, the UDP server no client for another, the thread  *)
(* and the process server no connection for another's.                     *)
THEOREM AddressedCorrect == Spec => []Addressed
<1>1. ASSUME ExercisesInv PROVE Addressed
  BY <1>1, TcpHolds, UdpHolds, ThreadHolds, ProcessHolds DEF ExercisesInv, Addressed
<1> QED
  BY <1>1, ExercisesInvariant, PTL

(* What hrecv(), the UDP client and the echo client take for the answer to *)
(* the latest request is the answer to it.                                 *)
THEOREM InStepCorrect == Spec => []InStep
<1>1. ASSUME ExercisesInv PROVE InStep
  BY <1>1, TcpHolds, UdpHolds, EchoHolds DEF ExercisesInv, InStep
<1> QED
  BY <1>1, ExercisesInvariant, PTL

(* The thread server never loses an entry of its table: one that is taken  *)
(* belongs to a worker, or to the client that is being accepted.           *)
THEOREM SlotsUsedCorrect == Spec => []SlotsUsed
<1>1. ASSUME ExercisesInv PROVE SlotsUsed
  BY <1>1, ThreadHolds DEF ExercisesInv, SlotsUsed
<1> QED
  BY <1>1, ExercisesInvariant, PTL

(* The std locks of the exercises keep a writer alone, and the lock made   *)
(* by hand as far as it does; the message is handed over under its mutex.  *)
THEOREM ExcludedCorrect == Spec => []Excluded
<1>1. ASSUME ExercisesInv PROVE Excluded
  BY <1>1, LocksExcluded DEF ExercisesInv, Excluded, HandInv
<1> QED
  BY <1>1, ExercisesInvariant, PTL

(* The digits multiply() has left, whether in C or in C++, are those of    *)
(* x!, with no zero in front: what they are worth in tens is x!, and so    *)
(* they leave what x! leaves whatever it is divided by.                    *)
THEOREM DigitsCorrect ==
  Spec => [](program = "number" =>
               /\ Number!DigitsOf
               /\ digits # <<>> =>
                     /\ IsWorth(digits, Fact[x])
                     /\ \A p \in Nat \ {0} :
                           Number!Residue(digits, 10, p) = Number!Factorial(x, p))
<1> DEFINE D == program = "number" =>
                  /\ Number!DigitsOf
                  /\ digits # <<>> =>
                        /\ IsWorth(digits, Fact[x])
                        /\ \A p \in Nat \ {0} :
                              Number!Residue(digits, 10, p) = Number!Factorial(x, p)
<1>1. ASSUME ExercisesInv PROVE D
  <2>1. SUFFICES ASSUME program = "number" PROVE DigitsInv => D
    BY <1>1 DEF ExercisesInv
  <2>2. SUFFICES ASSUME DigitsInv PROVE D
    OBVIOUS
  <2>3. 9973 \in Nat \ {0} /\ 19937 \in Nat \ {0}
    OBVIOUS
  <2> QED
    BY <2>2, <2>3, DigitsHold DEF Number!DigitsOf, DigitsInv
<1> QED
  BY <1>1, ExercisesInvariant, PTL
=============================================================================
