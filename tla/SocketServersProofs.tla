------------------------ MODULE SocketServersProofs ------------------------
(***************************************************************************)
(* Proofs about SocketServers for every number of clients, of chunks, of   *)
(* entries of poll's table and of events epoll reports at a time.          *)
(***************************************************************************)
EXTENDS SocketServers, SequenceTheorems, FiniteSetTheorems, WellFoundedInduction,
        TLAPS
-----------------------------------------------------------------------------
(* Facts about numbers and sets. *)
LEMMA IntervalSize ==
  ASSUME NEW a \in Nat, NEW n \in Nat
  PROVE  IsFiniteSet((a + 1)..(a + n)) /\ Cardinality((a + 1)..(a + n)) = n
<1>1. PICK p \in Int, q \in Int : p = a + 1 /\ q = a + n
  OBVIOUS
<1>2. IsFiniteSet(p..q) /\ Cardinality(p..q) = IF p > q THEN 0 ELSE q - p + 1
  BY FS_Interval
<1> QED
  BY <1>1, <1>2

LEMMA LeastOfSet ==
  ASSUME NEW S \in SUBSET Nat, S # {}
  PROVE  \E m \in S : \A k \in S : m <= k
<1>1. PICK m \in S : \A k \in S : ~(<<k, m>> \in OpToRel(<, Nat))
  BY NatLessThanWellFounded, WFMin, Zenon
<1>2. \A k \in S : ~(k < m)
  BY <1>1 DEF OpToRel
<1> QED
  BY <1>2

(* Lists as sets: what is in them, and that nothing is in them twice.      *)
LEMMA AppendSet ==
  ASSUME NEW S, NEW s \in Seq(S), NEW x \in S
  PROVE  /\ Append(s, x) \in Seq(S) /\ Range(Append(s, x)) = Range(s) \cup {x}
         /\ IsInjective(s) /\ x \notin Range(s) => IsInjective(Append(s, x))
<1>1. PICK w : w = Append(s, x)
  OBVIOUS
<1>2. /\ w \in Seq(S) /\ Len(w) = Len(s) + 1 /\ w[Len(s) + 1] = x
      /\ \A k \in 1..Len(s) : w[k] = s[k]
  BY <1>1, AppendProperties
<1>3. /\ DOMAIN w = 1..(Len(s) + 1) /\ DOMAIN s = 1..Len(s) /\ Len(s) \in Nat
      /\ \A k \in 1..(Len(s) + 1) : k \in 1..Len(s) \/ k = Len(s) + 1
  BY <1>2, LenProperties
<1>4. Range(w) = Range(s) \cup {x}
  BY <1>2, <1>3 DEF Range
<1>5. ASSUME IsInjective(s), x \notin Range(s) PROVE IsInjective(w)
  <2> SUFFICES ASSUME NEW a \in DOMAIN w, NEW b \in DOMAIN w, w[a] = w[b] PROVE a = b
    BY DEF IsInjective
  <2>1. CASE a \in 1..Len(s) /\ b \in 1..Len(s)
    BY <1>2, <1>3, <1>5, <2>1 DEF IsInjective
  <2>2. CASE a = Len(s) + 1 /\ b \in 1..Len(s)
    BY <1>2, <1>3, <1>5, <2>2 DEF Range
  <2>3. CASE b = Len(s) + 1 /\ a \in 1..Len(s)
    BY <1>2, <1>3, <1>5, <2>3 DEF Range
  <2> QED
    BY <1>3, <2>1, <2>2, <2>3
<1> QED
  BY <1>1, <1>2, <1>4, <1>5

LEMMA TailSet ==
  ASSUME NEW S, NEW s \in Seq(S), s # <<>>
  PROVE  /\ Head(s) \in S /\ Tail(s) \in Seq(S) /\ Len(Tail(s)) = Len(s) - 1
         /\ Range(s) = {Head(s)} \cup Range(Tail(s))
         /\ IsInjective(s) => IsInjective(Tail(s)) /\ Head(s) \notin Range(Tail(s))
<1>1. PICK w, h : w = Tail(s) /\ h = Head(s)
  OBVIOUS
<1>2. /\ h \in S /\ w \in Seq(S) /\ Len(w) = Len(s) - 1 /\ h = s[1]
      /\ \A k \in 1..Len(w) : w[k] = s[k + 1]
  BY <1>1, HeadTailProperties
<1>3. /\ DOMAIN w = 1..(Len(s) - 1) /\ DOMAIN s = 1..Len(s) /\ Len(s) \in Nat \ {0}
      /\ \A k \in 1..Len(s) : k = 1 \/ (k - 1 \in 1..(Len(s) - 1) /\ k - 1 + 1 = k)
      /\ \A k \in 1..(Len(s) - 1) : k + 1 \in 1..Len(s) /\ k + 1 # 1
  BY <1>2, LenProperties, EmptySeq
<1>4. Range(s) = {h} \cup Range(w)
  <2>1. ASSUME NEW x \in Range(s) PROVE x \in {h} \cup Range(w)
    <3>1. PICK k \in 1..Len(s) : s[k] = x
      BY <1>3 DEF Range
    <3>2. CASE k - 1 \in 1..(Len(s) - 1) /\ k - 1 + 1 = k
      <4>1. w[k - 1] = x
        BY <1>2, <1>3, <3>1, <3>2
      <4> QED
        BY <1>3, <3>2, <4>1 DEF Range
    <3> QED
      BY <1>2, <1>3, <3>1, <3>2
  <2>2. h \in Range(s)
    BY <1>2, <1>3 DEF Range
  <2>3. ASSUME NEW x \in Range(w) PROVE x \in Range(s)
    <3>1. PICK k \in 1..(Len(s) - 1) : w[k] = x
      BY <1>3 DEF Range
    <3>2. s[k + 1] = x /\ k + 1 \in DOMAIN s
      BY <1>2, <1>3, <3>1
    <3> QED
      BY <3>2 DEF Range
  <2> QED
    BY <2>1, <2>2, <2>3
<1>5. ASSUME IsInjective(s) PROVE IsInjective(w) /\ h \notin Range(w)
  <2>1. \A j, k \in 1..Len(s) : s[j] = s[k] => j = k
    BY <1>3, <1>5 DEF IsInjective
  <2>2. ASSUME NEW j \in 1..(Len(s) - 1), NEW k \in 1..(Len(s) - 1), w[j] = w[k]
        PROVE  j = k
    <3>1. s[j + 1] = s[k + 1]
      BY <1>2, <2>2
    <3>2. j + 1 = k + 1
      BY <1>3, <2>1, <3>1
    <3> QED
      BY <3>2
  <2>3. ASSUME NEW k \in 1..(Len(s) - 1), w[k] = h PROVE FALSE
    <3>1. s[k + 1] = s[1] /\ 1 \in 1..Len(s)
      BY <1>2, <1>3, <2>3
    <3> QED
      BY <1>3, <2>1, <3>1
  <2>4. IsInjective(w)
    BY <1>3, <2>2 DEF IsInjective
  <2> QED
    BY <1>3, <2>3, <2>4 DEF Range
<1> QED
  BY <1>1, <1>2, <1>4, <1>5

LEMMA SplitSet ==
  ASSUME NEW S, NEW s \in Seq(S), NEW n \in 0..Len(s)
  PROVE  /\ SubSeq(s, 1, n) \in Seq(S) /\ SubSeq(s, n + 1, Len(s)) \in Seq(S)
         /\ Len(SubSeq(s, 1, n)) = n
         /\ \A x : x \in Range(SubSeq(s, 1, n)) <=> \E k \in 1..n : s[k] = x
         /\ Range(s) = Range(SubSeq(s, 1, n)) \cup Range(SubSeq(s, n + 1, Len(s)))
         /\ IsInjective(s) =>
              /\ IsInjective(SubSeq(s, 1, n)) /\ IsInjective(SubSeq(s, n + 1, Len(s)))
              /\ Range(SubSeq(s, 1, n)) \cap Range(SubSeq(s, n + 1, Len(s))) = {}
<1>0. PICK a, b : a = SubSeq(s, 1, n) /\ b = SubSeq(s, n + 1, Len(s))
  OBVIOUS
<1>1. /\ Len(s) \in Nat /\ DOMAIN s = 1..Len(s) /\ \A k \in 1..Len(s) : s[k] \in S
  BY LenProperties, ElementOfSeq
<1>2. a \in Seq(S) /\ Len(a) = n /\ \A k \in 1..n : a[k] = s[k]
  <2>1. PICK m \in Int : m = n
    OBVIOUS
  <2>2. \A k \in 1..m : s[k] \in S
    BY <1>1, <2>1
  <2> QED
    BY <1>0, <1>1, <2>1, <2>2, SubSeqProperties
<1>3. b \in Seq(S) /\ Len(b) = Len(s) - n /\ \A k \in 1..(Len(s) - n) : b[k] = s[k + n]
  <2>1. PICK m \in Int, l \in Int : m = n + 1 /\ l = Len(s)
    <3>1. n + 1 \in Int /\ Len(s) \in Int
      BY <1>1
    <3> QED
      BY <3>1
  <2>2. \A k \in m..l : s[k] \in S
    BY <1>1, <2>1
  <2>3. /\ b \in Seq(S) /\ Len(b) = (IF m <= l THEN l - m + 1 ELSE 0)
        /\ \A k \in 1..(l - m + 1) : b[k] = s[m + k - 1]
    BY <1>0, <2>1, <2>2, SubSeqProperties
  <2>4. \A k \in 1..(Len(s) - n) : k \in 1..(l - m + 1) /\ m + k - 1 = k + n
    BY <1>1, <2>1
  <2>5. Len(b) = Len(s) - n
    <3>1. n \in Nat /\ n <= l /\ l \in Nat
      BY <1>1, <2>1
    <3>2. (IF m <= l THEN l - m + 1 ELSE 0) = l - n
      BY <2>1, <3>1
    <3>3. Len(b) = (IF m <= l THEN l - m + 1 ELSE 0)
      BY <2>3
    <3> QED
      BY <2>1, <3>2, <3>3
  <2> QED
    BY <2>3, <2>4, <2>5
<1>4. DOMAIN a = 1..n /\ DOMAIN b = 1..(Len(s) - n)
  BY <1>2, <1>3, LenProperties
<1>5. \A k \in 1..Len(s) : k \in 1..n \/ (k - n \in 1..(Len(s) - n) /\ k - n + n = k)
  BY <1>1
<1>6. /\ \A k \in 1..n : k \in 1..Len(s)
      /\ \A k \in 1..(Len(s) - n) : k + n \in 1..Len(s) /\ k + n \notin 1..n
      /\ \A j, k \in 1..(Len(s) - n) : j + n = k + n => j = k
  BY <1>1
<1>7. \A x : x \in Range(a) <=> \E k \in 1..n : s[k] = x
  BY <1>2, <1>4 DEF Range
<1>8. Range(s) = Range(a) \cup Range(b)
  <2>1. ASSUME NEW x \in Range(s) PROVE x \in Range(a) \cup Range(b)
    <3>1. PICK k \in 1..Len(s) : s[k] = x
      BY <1>1, <2>1 DEF Range
    <3>2. CASE k \in 1..n
      BY <1>2, <1>4, <3>1, <3>2 DEF Range
    <3>3. CASE k - n \in 1..(Len(s) - n) /\ k - n + n = k
      <4>1. b[k - n] = x
        BY <1>3, <3>1, <3>3
      <4> QED
        BY <1>4, <3>3, <4>1 DEF Range
    <3> QED
      BY <1>5, <3>2, <3>3
  <2>2. ASSUME NEW x \in Range(a) PROVE x \in Range(s)
    <3>1. PICK k \in 1..n : a[k] = x
      BY <1>4 DEF Range
    <3> QED
      BY <1>1, <1>2, <1>6, <3>1 DEF Range
  <2>3. ASSUME NEW x \in Range(b) PROVE x \in Range(s)
    <3>1. PICK k \in 1..(Len(s) - n) : b[k] = x
      BY <1>4 DEF Range
    <3>2. s[k + n] = x /\ k + n \in DOMAIN s
      BY <1>1, <1>3, <1>6, <3>1
    <3> QED
      BY <3>2 DEF Range
  <2> QED
    BY <2>1, <2>2, <2>3
<1>9. ASSUME IsInjective(s)
      PROVE  IsInjective(a) /\ IsInjective(b) /\ Range(a) \cap Range(b) = {}
  <2>0. \A j, k \in 1..Len(s) : s[j] = s[k] => j = k
    BY <1>1, <1>9 DEF IsInjective
  <2>1. IsInjective(a)
    BY <1>2, <1>4, <1>6, <2>0 DEF IsInjective
  <2>2. IsInjective(b)
    <3> SUFFICES ASSUME NEW j \in 1..(Len(s) - n), NEW k \in 1..(Len(s) - n), b[j] = b[k]
                 PROVE  j = k
      BY <1>4 DEF IsInjective
    <3>1. s[j + n] = s[k + n] /\ j + n \in 1..Len(s) /\ k + n \in 1..Len(s)
      BY <1>3, <1>6
    <3> QED
      BY <1>6, <2>0, <3>1
  <2>3. ASSUME NEW x \in Range(a), x \in Range(b) PROVE FALSE
    <3>1. PICK j \in 1..n : s[j] = x
      BY <1>2, <1>4 DEF Range
    <3>2. PICK k \in 1..(Len(s) - n) : b[k] = x
      BY <1>4, <2>3 DEF Range
    <3>3. s[k + n] = x
      BY <1>3, <3>2
    <3> QED
      BY <1>6, <2>0, <3>1, <3>3
  <2> QED
    BY <2>1, <2>2, <2>3
<1> QED
  BY <1>0, <1>2, <1>3, <1>7, <1>8, <1>9

-----------------------------------------------------------------------------
(* select.  What the copy of rdset still reports is open and readable from *)
(* the time it is made.                                                    *)
ReportsLive ==
    \A k \in rdtmp : k >= i /\ k # listenfd =>
        \E c \in Select!Open : fd[c] = k /\ Select!Readable(c)

SelectInv ==
    /\ Select!TypeOK
    /\ \A c \in Clients : inbox[c] <= sent
    /\ Select!Watched
    /\ \A c \in Select!Open : fd[c] # listenfd
    /\ pc # "scan" => i = 0
    /\ pc # "select" => ReportsLive

(* There is a number for every connection that is accepted: the lowest one *)
(* that no open connection has.                                            *)
LEMMA SelectCardinality == Select!Cardinality(Clients) = Cardinality(Clients)
  BY DEF Select!Cardinality, Cardinality

LEMMA FreeNumber ==
  ASSUME Select!TypeOK, NEW b \in Select!Backlog
  PROVE  /\ Select!LowestFree \in Select!Fds \ {listenfd}
         /\ \A c \in Select!Open : fd[c] # Select!LowestFree
<1> DEFINE T == Select!Fds \ {listenfd}
           Free == {k \in T : \A c \in Select!Open : fd[c] # k}
           n == Cardinality(Clients)
<1>1. n \in Nat /\ T = (listenfd + 1)..(listenfd + n) /\ IsFiniteSet(T) /\ Cardinality(T) = n
  <2>1. n \in Nat
    BY ServersAssumption, FS_CardinalityType
  <2>2. T = (listenfd + 1)..(listenfd + n)
    BY <2>1, ServersAssumption, SelectCardinality DEF Select!Fds
  <2> HIDE DEF n
  <2>3. IsFiniteSet((listenfd + 1)..(listenfd + n))
        /\ Cardinality((listenfd + 1)..(listenfd + n)) = n
    BY <2>1, ServersAssumption, IntervalSize
  <2> QED
    BY <2>1, <2>2, <2>3
<1>2. Free # {}
  <2> SUFFICES ASSUME Free = {} PROVE FALSE
    OBVIOUS
  <2> DEFINE g == [k \in T |-> CHOOSE c \in Select!Open : fd[c] = k]
  <2>1. \A k \in T : g[k] \in Select!Open /\ fd[g[k]] = k
    OBVIOUS
  <2>2. g \in [T -> Select!Open]
    BY <2>1
  <2>3. IsFiniteSet(Select!Open) /\ Cardinality(Select!Open) < n
    <3>1. Select!Open \subseteq Clients \ {b}
      BY DEF Select!Open, Select!Backlog
    <3>2. b \in Clients
      BY DEF Select!Backlog
    <3>3. IsFiniteSet(Clients \ {b}) /\ Cardinality(Clients \ {b}) = n - 1
      BY <3>2, ServersAssumption, FS_RemoveElement
    <3>4. /\ IsFiniteSet(Select!Open)
          /\ Cardinality(Select!Open) <= Cardinality(Clients \ {b})
      BY <3>1, <3>3, FS_Subset
    <3>5. Cardinality(Select!Open) \in Nat
      BY <3>4, FS_CardinalityType
    <3> QED
      BY <1>1, <3>3, <3>4, <3>5
  <2>4. PICK x, y \in T : x # y /\ g[x] = g[y]
    <3> HIDE DEF g, T, n, Free
    <3> QED
      BY <1>1, <2>2, <2>3, FS_PigeonHole
  <2> QED
    BY <2>1, <2>4
<1>3. Free \in SUBSET Nat
  BY <1>1, ServersAssumption
<1>4. PICK m \in Free : \A k \in Free : m <= k
  <2> HIDE DEF Free
  <2> QED
    BY <1>2, <1>3, LeastOfSet
<1>5. \A j \in Select!Fds : listenfd < j /\ j < m => \E c \in Select!Open : fd[c] = j
  <2> SUFFICES ASSUME NEW j \in Select!Fds, listenfd < j, j < m,
                      \A c \in Select!Open : fd[c] # j
               PROVE  FALSE
    OBVIOUS
  <2>1. j \in Free
    BY ServersAssumption
  <2>2. m <= j /\ m \in Nat /\ j \in Nat
    BY <1>3, <1>4, <2>1
  <2> QED
    BY <2>2
<1>6. \E k \in T : (\A c \in Select!Open : fd[c] # k)
        /\ \A j \in Select!Fds : listenfd < j /\ j < k => \E c \in Select!Open : fd[c] = j
  BY <1>4, <1>5
<1> QED
  BY <1>6 DEF Select!LowestFree

(* What a step may do to a connection without disturbing the reports: an   *)
(* open connection keeps its number and what there is to read from it.     *)
LEMMA SelectReports ==
  ASSUME ReportsLive, UNCHANGED rdtmp, i' \in Nat, i \in Nat, i' >= i,
         rdtmp \subseteq Nat,
         \A c \in Select!Open : fd[c] \in rdtmp /\ fd[c] >= i' /\ Select!Readable(c) =>
           c \in Select!Open' /\ fd'[c] = fd[c] /\ (inbox'[c] > 0 \/ peer'[c] # "up")
  PROVE  ReportsLive'
<1> SUFFICES ASSUME NEW k \in rdtmp, k >= i', k # listenfd
             PROVE  \E c \in Select!Open' : fd'[c] = k /\ Select!Readable(c)'
  BY DEF ReportsLive
<1>1. k >= i
  OBVIOUS
<1>2. PICK c \in Select!Open : fd[c] = k /\ Select!Readable(c)
  BY <1>1 DEF ReportsLive
<1> QED
  BY <1>2 DEF Select!Readable

LEMMA SelectClients ==
  ASSUME SelectInv, NEW c \in Clients,
         Select!Connect(c) \/ Select!Arrive(c) \/ Select!Hangup(c)
  PROVE  SelectInv'
<1> USE ServersAssumption
<1>0. Select!TypeOK /\ UNCHANGED <<rdset, rdtmp, maxfd, i, pc, up, fd>>
  BY DEF SelectInv, Select!Connect, Select!Arrive, Select!Hangup, Select!loopVars
<1>1. /\ conn' \in [Clients -> {"none", "backlog", "open", "closed"}]
      /\ peer' \in [Clients -> {"up", "left"}]
      /\ sock' \in [Clients -> {"ok", "reset", "pipe"}]
  BY <1>0 DEF Select!TypeOK, Select!Connect, Select!Arrive, Select!Hangup
<1>2. /\ inbox' \in [Clients -> 0..Chunks] /\ sent' \in 0..Chunks
      /\ \A d \in Clients : inbox'[d] <= sent' /\ inbox'[d] >= inbox[d]
  BY <1>0 DEF SelectInv, Select!TypeOK, Select!Connect, Select!Arrive, Select!Hangup
<1>3. Select!TypeOK'
  BY <1>0, <1>1, <1>2 DEF Select!TypeOK
<1>4. Select!Open' = Select!Open
  BY <1>0 DEF Select!TypeOK, Select!Open, Select!Connect, Select!Arrive, Select!Hangup
<1>5. Select!Watched' /\ \A d \in Select!Open' : fd'[d] # listenfd
  BY <1>0, <1>4 DEF SelectInv, Select!Watched
<1>6. pc' # "select" => ReportsLive'
  <2>1. \A d \in Select!Open : Select!Readable(d) => inbox'[d] > 0 \/ peer'[d] # "up"
    BY <1>0, <1>2
    DEF Select!TypeOK, Select!Open, Select!Readable, Select!Connect, Select!Arrive,
        Select!Hangup
  <2>2. i \in Nat /\ i' \in Nat /\ i' >= i /\ rdtmp \subseteq Nat
    BY <1>0 DEF Select!TypeOK, Select!Fds
  <2> QED
    BY <1>0, <1>4, <2>1, <2>2, SelectReports DEF SelectInv
<1> QED
  BY <1>0, <1>2, <1>3, <1>5, <1>6 DEF SelectInv

(* The steps of the loop that touch no connection. *)
LEMMA SelectLoop ==
  ASSUME SelectInv, Select!Select \/ Select!NoAccept \/ Select!Pass \/ Select!EndScan
  PROVE  SelectInv'
<1> USE ServersAssumption
<1>0. Select!TypeOK /\ UNCHANGED <<rdset, maxfd, up, fd, conn, peer, sock, inbox, sent>>
  BY DEF SelectInv, Select!Select, Select!NoAccept, Select!Pass, Select!EndScan,
         Select!netVars
<1>1. UNCHANGED <<Select!Open, Select!Backlog>>
  BY <1>0 DEF Select!Open, Select!Backlog
<1>2. Select!Watched' /\ \A d \in Select!Open' : fd'[d] # listenfd
  BY <1>0, <1>1 DEF SelectInv, Select!Watched
<1>3. Cardinality(Clients) \in Nat
  BY FS_CardinalityType
<1>4. Select!TypeOK' /\ (pc' # "scan" => i' = 0)
  <2>1. i' \in 0..(listenfd + Select!Cardinality(Clients) + 1)
    BY <1>0, <1>3, SelectCardinality
    DEF Select!TypeOK, Select!Fds, Select!Select, Select!NoAccept, Select!Pass, Select!EndScan
  <2>2. rdtmp' \subseteq Select!Fds
    BY <1>0
    DEF Select!TypeOK, Select!Select, Select!NoAccept, Select!Pass, Select!EndScan
  <2>3. pc' \in {"select", "accept", "scan"} /\ (pc' # "scan" => i' = 0)
    BY <1>0
    DEF SelectInv, Select!Select, Select!NoAccept, Select!Pass, Select!EndScan
  <2> QED
    BY <1>0, <2>1, <2>2, <2>3 DEF Select!TypeOK
<1>5. pc' # "select" => ReportsLive'
  <2>1. CASE Select!Select
    <3>1. \A k \in rdtmp' : k \in Select!Ready
      BY <2>1 DEF Select!Select
    <3>2. \A k \in rdtmp' : k # listenfd =>
            \E c \in Select!Open : fd[c] = k /\ Select!Readable(c)
      BY <3>1 DEF Select!Ready
    <3> QED
      BY <1>0, <1>1, <3>2 DEF ReportsLive, Select!Readable
  <2>2. CASE Select!NoAccept \/ Select!Pass
    <3>1. /\ UNCHANGED rdtmp /\ pc # "select"
          /\ i \in Nat /\ i' \in Nat /\ rdtmp \subseteq Nat
      BY <1>0, <2>2 DEF Select!TypeOK, Select!Fds, Select!NoAccept, Select!Pass
    <3>2. CASE Select!Pass
      <4>1. i' = i + 1
        BY <3>2 DEF Select!Pass
      <4> QED
        BY <1>0, <1>1, <3>1, <4>1, SelectReports DEF SelectInv, Select!Readable
    <3>3. CASE Select!NoAccept
      <4>1. i' = i
        BY <3>3 DEF SelectInv, Select!NoAccept
      <4> QED
        BY <1>0, <1>1, <3>1, <4>1, SelectReports DEF SelectInv, Select!Readable
    <3> QED
      BY <2>2, <3>2, <3>3
  <2>3. CASE Select!EndScan
    BY <2>3 DEF Select!EndScan
  <2> QED
    BY <2>1, <2>2, <2>3
<1> QED
  BY <1>0, <1>2, <1>4, <1>5 DEF SelectInv

LEMMA SelectAccept ==
  ASSUME SelectInv, Select!Accept PROVE SelectInv'
<1> USE ServersAssumption
<1>0. Select!TypeOK /\ UNCHANGED <<rdtmp, up, peer, sock, inbox, sent>>
  BY DEF SelectInv, Select!Accept
<1>1. PICK c \in Select!Backlog : /\ conn' = [conn EXCEPT ![c] = "open"]
                                  /\ fd' = [fd EXCEPT ![c] = Select!LowestFree]
  BY DEF Select!Accept
<1>2. PICK k \in Select!Fds \ {listenfd} :
        k = Select!LowestFree /\ \A d \in Select!Open : fd[d] # k
  BY <1>0, FreeNumber
<1>3. /\ rdset' = rdset \cup {k} /\ maxfd' = Select!Highest(k)
      /\ pc = "accept" /\ pc' = "scan" /\ i' = 0
  BY <1>2 DEF Select!Accept
<1>4. c \in Clients /\ conn[c] = "backlog" /\ fd'[c] = k /\ conn'[c] = "open"
      /\ \A d \in Clients : d # c => fd'[d] = fd[d] /\ conn'[d] = conn[d]
  BY <1>0, <1>1, <1>2 DEF Select!TypeOK, Select!Backlog
<1>5. Select!Open' = Select!Open \cup {c} /\ c \notin Select!Open
  BY <1>4 DEF Select!Open
<1>6. maxfd \in Nat /\ k \in Nat /\ maxfd' \in Select!Fds /\ maxfd' >= maxfd /\ maxfd' >= k
  BY <1>0, <1>2, <1>3 DEF Select!TypeOK, Select!Fds, Select!Highest
<1>7. Select!TypeOK'
  <2>1. i' \in 0..(listenfd + Select!Cardinality(Clients) + 1)
    BY <1>3, SelectCardinality, FS_CardinalityType
  <2>2. fd' \in [Clients -> Select!Fds] /\ rdset' \subseteq Select!Fds
    BY <1>0, <1>1, <1>2, <1>3 DEF Select!TypeOK
  <2>3. conn' \in [Clients -> {"none", "backlog", "open", "closed"}]
    BY <1>0, <1>1 DEF Select!TypeOK
  <2> QED
    BY <1>0, <1>3, <1>6, <2>1, <2>2, <2>3 DEF Select!TypeOK
<1>8. \A d \in Select!Open : fd'[d] = fd[d]
  BY <1>4, <1>5 DEF Select!Open
<1>9. Select!Watched' /\ \A d \in Select!Open' : fd'[d] # listenfd
  <2>1. rdset' = {listenfd} \cup {fd'[d] : d \in Select!Open'}
    BY <1>3, <1>4, <1>5, <1>8 DEF SelectInv, Select!Watched
  <2>2. \A d, e \in Select!Open' : fd'[d] = fd'[e] => d = e
    BY <1>2, <1>4, <1>5, <1>8 DEF SelectInv, Select!Watched
  <2>3. \A m \in rdset' : m <= maxfd'
    <3>1. \A m \in rdset : m \in Nat /\ m <= maxfd
      BY <1>0 DEF SelectInv, Select!Watched, Select!TypeOK, Select!Fds
    <3> QED
      BY <1>3, <1>6, <3>1
  <2> QED
    BY <1>2, <1>4, <1>5, <1>8, <2>1, <2>2, <2>3 DEF SelectInv, Select!Watched
<1>10. ReportsLive'
  <2>1. i = 0 /\ i' = 0 /\ rdtmp \subseteq Nat
    BY <1>0, <1>3 DEF SelectInv, Select!TypeOK, Select!Fds
  <2> QED
    BY <1>0, <1>3, <1>5, <1>8, <2>1, SelectReports DEF SelectInv, Select!Readable
<1> QED
  BY <1>0, <1>3, <1>7, <1>9, <1>10 DEF SelectInv

(* One connection is read, closed, or found reset. *)
LEMMA SelectReads ==
  ASSUME SelectInv, NEW c \in Clients,
         Select!Serve(c) \/ Select!Close(c) \/ Select!ReadFails(c)
  PROVE  SelectInv'
<1> USE ServersAssumption
<1>0. /\ Select!TypeOK /\ UNCHANGED <<rdtmp, maxfd, pc, fd, peer, sent>>
      /\ i' = i + 1 /\ pc = "scan" /\ i <= maxfd /\ c \in Select!Open /\ fd[c] = i
      /\ i # listenfd
  BY DEF SelectInv, Select!Serve, Select!Close, Select!ReadFails, Select!AtEnd,
         Select!Reported, Select!Open
<1>1. /\ inbox' \in [Clients -> 0..Chunks] /\ conn' \in [Clients -> {"none", "backlog",
           "open", "closed"}]
      /\ \A d \in Clients : d # c => inbox'[d] = inbox[d] /\ conn'[d] = conn[d]
      /\ inbox'[c] <= inbox[c] /\ inbox[c] \in Nat
  BY <1>0 DEF Select!TypeOK, Select!Serve, Select!Close, Select!ReadFails
<1>2. sock' \in [Clients -> {"ok", "reset", "pipe"}] /\ up' \in BOOLEAN
  <2>1. sock \in [Clients -> {"ok", "reset", "pipe"}] /\ up \in BOOLEAN
    BY <1>0 DEF Select!TypeOK
  <2>2. CASE Select!Serve(c)
    <3>1. CASE peer[c] = "up"
      BY <2>1, <2>2, <3>1 DEF Select!Serve
    <3>2. CASE peer[c] # "up" /\ sock[c] = "reset"
      BY <2>1, <2>2, <3>2 DEF Select!Serve
    <3>3. CASE peer[c] # "up" /\ sock[c] = "pipe"
      BY <2>1, <2>2, <3>3 DEF Select!Serve
    <3>4. CASE peer[c] # "up" /\ sock[c] \notin {"reset", "pipe"}
      BY <2>1, <2>2, <3>4 DEF Select!Serve
    <3> QED
      BY <3>1, <3>2, <3>3, <3>4
  <2>3. CASE Select!Close(c) \/ Select!ReadFails(c)
    BY <2>1, <2>3 DEF Select!Close, Select!ReadFails
  <2> QED
    BY <2>2, <2>3
<1>3. i \in Nat /\ i' \in 0..(listenfd + Cardinality(Clients) + 1) /\ rdtmp \subseteq Nat
  BY <1>0, SelectCardinality, FS_CardinalityType DEF Select!TypeOK, Select!Fds
<1>4. \A d \in Clients : inbox'[d] <= sent'
  <2> SUFFICES ASSUME NEW d \in Clients PROVE inbox'[d] <= sent
    BY <1>0
  <2>1. inbox[d] <= sent /\ sent \in Nat /\ inbox[d] \in Nat /\ inbox'[d] \in Nat
    BY <1>0, <1>1 DEF SelectInv, Select!TypeOK
  <2> QED
    BY <1>1, <2>1
<1>5. rdset' \subseteq rdset
  BY DEF Select!Serve, Select!Close, Select!ReadFails
<1>6. Select!TypeOK'
  BY <1>0, <1>1, <1>2, <1>3, <1>5, SelectCardinality DEF Select!TypeOK
<1>7. Select!Watched' /\ \A d \in Select!Open' : fd'[d] # listenfd
  <2>1. CASE Select!Close(c)
    <3>1. rdset' = rdset \ {i} /\ Select!Open' = Select!Open \ {c}
      BY <1>0, <2>1 DEF Select!Close, Select!TypeOK, Select!Open
    <3>2. rdset' = {listenfd} \cup {fd[d] : d \in Select!Open'}
      BY <1>0, <3>1 DEF SelectInv, Select!Watched
    <3> QED
      BY <1>0, <3>1, <3>2 DEF SelectInv, Select!Watched
  <2>2. CASE Select!Serve(c) \/ Select!ReadFails(c)
    <3>1. rdset' = rdset /\ Select!Open' = Select!Open
      BY <2>2 DEF Select!Serve, Select!ReadFails, Select!Open
    <3> QED
      BY <1>0, <3>1 DEF SelectInv, Select!Watched
  <2> QED
    BY <2>1, <2>2
<1>8. ReportsLive'
  <2>1. \A d \in Select!Open : fd[d] >= i' => d # c
    BY <1>0, <1>3
  <2>2. \A d \in Select!Open : d # c =>
          d \in Select!Open' /\ inbox'[d] = inbox[d] /\ peer'[d] = peer[d] /\ fd'[d] = fd[d]
    BY <1>0, <1>1 DEF Select!Open
  <2>3. i' \in Nat /\ i' >= i
    BY <1>0, <1>3
  <2>4. ReportsLive
    BY <1>0 DEF SelectInv
  <2> QED
    BY <1>0, <1>3, <2>1, <2>2, <2>3, <2>4, SelectReports DEF Select!Readable
<1> QED
  BY <1>0, <1>4, <1>6, <1>7, <1>8 DEF SelectInv

LEMMA SelectStep ==
  ASSUME SelectInv, [Select!Next]_(Select!vars) PROVE SelectInv'
<1>1. CASE Select!Next
  BY <1>1, SelectClients, SelectLoop, SelectAccept, SelectReads
  DEF Select!Next, Select!Server
<1>2. CASE UNCHANGED Select!vars
  BY <1>2
  DEF Select!vars, Select!loopVars, Select!netVars, SelectInv, Select!TypeOK,
      Select!Watched, Select!Open, ReportsLive, Select!Readable
<1> QED
  BY <1>1, <1>2
-----------------------------------------------------------------------------
(* poll.  An entry that is reported and not passed yet is in use and       *)
(* readable, or the one that was filled in this round.                     *)
EntriesLive ==
    \A k \in Poll!Entries : (pc = "scan" => k >= i) /\ k <= maxfd /\ revents[k] =>
        /\ fds[k] # NoFd
        /\ Poll!Readable(fds[k]) \/ (pc = "scan" /\ revents[0] /\ k = maxfd)

PollInv ==
    /\ Poll!TypeOK
    /\ \A c \in Clients : inbox[c] <= sent
    /\ Poll!Watched
    /\ pc # "poll" => EntriesLive

(* The search of the table finds the first free entry, or none.            *)
LEMMA FirstFreeEntry ==
  ASSUME Poll!TypeOK
  PROVE  \/ /\ Poll!FirstFree \in Poll!Entries /\ fds[Poll!FirstFree] = NoFd
            /\ \A j \in Poll!Entries : j < Poll!FirstFree => fds[j] # NoFd
         \/ Poll!FirstFree = MAX_FDS /\ \A k \in Poll!Entries : fds[k] # NoFd
<1> DEFINE Free == {k \in Poll!Entries : fds[k] = NoFd}
<1>1. CASE Free = {}
  BY <1>1 DEF Poll!FirstFree
<1>2. CASE Free # {}
  <2>1. Free \in SUBSET Nat
    BY DEF Poll!Entries
  <2>2. PICK m \in Free : \A k \in Free : m <= k
    <3> HIDE DEF Free
    <3> QED
      BY <1>2, <2>1, LeastOfSet
  <2>3. \A j \in 1..(m - 1) : fds[j] # NoFd
    <3> SUFFICES ASSUME NEW j \in 1..(m - 1), fds[j] = NoFd PROVE FALSE
      OBVIOUS
    <3>1. j \in Poll!Entries /\ j < m
      BY ServersAssumption DEF Poll!Entries
    <3>2. j \in Free /\ m \in Nat /\ j \in Nat
      BY <3>1, <2>1
    <3> QED
      BY <2>2, <3>1, <3>2
  <2>4. \E k \in Poll!Entries : fds[k] = NoFd /\ \A j \in 1..(k - 1) : fds[j] # NoFd
    BY <2>2, <2>3
  <2>5. /\ Poll!FirstFree \in Poll!Entries /\ fds[Poll!FirstFree] = NoFd
        /\ \A j \in 1..(Poll!FirstFree - 1) : fds[j] # NoFd
    BY <2>4 DEF Poll!FirstFree
  <2> HIDE DEF Free
  <2>6. \A j \in Poll!Entries : j < Poll!FirstFree => j \in 1..(Poll!FirstFree - 1)
    BY <2>5, ServersAssumption DEF Poll!Entries
  <2> QED
    BY <2>5, <2>6
<1> QED
  BY <1>1, <1>2

LEMMA PollClients ==
  ASSUME PollInv, NEW c \in Clients, Poll!Connect(c) \/ Poll!Arrive(c) \/ Poll!Hangup(c)
  PROVE  PollInv'
<1> USE ServersAssumption
<1>0. Poll!TypeOK /\ UNCHANGED <<fds, revents, maxfd, i, pc, up>>
  BY DEF PollInv, Poll!Connect, Poll!Arrive, Poll!Hangup, Poll!loopVars
<1>1. /\ conn' \in [Clients -> {"none", "backlog", "open", "lost", "closed"}]
      /\ peer' \in [Clients -> {"up", "left"}]
      /\ sock' \in [Clients -> {"ok", "reset", "pipe"}]
  BY <1>0 DEF Poll!TypeOK, Poll!Connect, Poll!Arrive, Poll!Hangup
<1>2. /\ inbox' \in [Clients -> 0..PollChunks] /\ sent' \in 0..PollChunks
      /\ \A d \in Clients : inbox'[d] <= sent' /\ inbox'[d] >= inbox[d]
  BY <1>0 DEF PollInv, Poll!TypeOK, Poll!Connect, Poll!Arrive, Poll!Hangup
<1>3. Poll!TypeOK'
  BY <1>0, <1>1, <1>2 DEF Poll!TypeOK
<1>4. \A d \in Clients : conn'[d] = "open" <=> conn[d] = "open"
  BY <1>0 DEF Poll!TypeOK, Poll!Connect, Poll!Arrive, Poll!Hangup
<1>5. Poll!Watched'
  <2>1. \A k \in Poll!Entries : fds[k] # NoFd => fds[k] \in Clients
    BY <1>0 DEF Poll!TypeOK
  <2> QED
    BY <1>0, <1>4, <2>1 DEF PollInv, Poll!Watched
<1>6. pc' # "poll" => EntriesLive'
  <2>1. \A d \in Clients : Poll!Readable(d) => inbox'[d] > 0 \/ peer'[d] # "up"
    BY <1>0, <1>2 DEF Poll!TypeOK, Poll!Readable, Poll!Connect, Poll!Arrive, Poll!Hangup
  <2>2. \A k \in Poll!Entries : fds[k] # NoFd => fds[k] \in Clients
    BY <1>0 DEF Poll!TypeOK
  <2> QED
    BY <1>0, <2>1, <2>2 DEF PollInv, EntriesLive, Poll!Readable
<1> QED
  BY <1>2, <1>3, <1>5, <1>6 DEF PollInv

LEMMA PollLoop ==
  ASSUME PollInv, Poll!Poll \/ Poll!NoAccept \/ Poll!Pass \/ Poll!EndScan
  PROVE  PollInv'
<1> USE ServersAssumption
<1>0. Poll!TypeOK /\ UNCHANGED <<fds, maxfd, up, conn, peer, sock, inbox, sent>>
  BY DEF PollInv, Poll!Poll, Poll!NoAccept, Poll!Pass, Poll!EndScan, Poll!netVars
<1>1. Poll!Watched'
  BY <1>0 DEF PollInv, Poll!Watched
<1>2. Poll!TypeOK'
  <2>1. i' \in 1..(MAX_FDS + 1) /\ pc' \in {"poll", "accept", "scan"}
    BY <1>0 DEF Poll!TypeOK, Poll!Poll, Poll!NoAccept, Poll!Pass, Poll!EndScan
  <2>2. revents' \in [{0} \cup Poll!Entries -> BOOLEAN]
    <3>1. CASE Poll!Poll
      <4>1. \A k \in {0} \cup Poll!Entries :
              (IF k > maxfd THEN revents[k]
               ELSE IF k = 0 THEN Poll!Backlog # {}
               ELSE Poll!Watching(k) /\ Poll!Readable(fds[k])) \in BOOLEAN
        BY <1>0 DEF Poll!TypeOK, Poll!Watching
      <4> QED
        BY <3>1, <4>1 DEF Poll!Poll
    <3>2. CASE ~Poll!Poll
      BY <1>0, <3>2 DEF Poll!TypeOK, Poll!NoAccept, Poll!Pass, Poll!EndScan
    <3> QED
      BY <3>1, <3>2
  <2> QED
    BY <1>0, <2>1, <2>2 DEF Poll!TypeOK
<1>3. pc' # "poll" => EntriesLive'
  <2>1. CASE Poll!Poll
    <3>1. \A k \in Poll!Entries : k <= maxfd /\ revents'[k] =>
            fds[k] # NoFd /\ Poll!Readable(fds[k])
      <4> SUFFICES ASSUME NEW k \in Poll!Entries, k <= maxfd, revents'[k]
                   PROVE  fds[k] # NoFd /\ Poll!Readable(fds[k])
        OBVIOUS
      <4>1. k # 0 /\ ~(k > maxfd)
        BY <1>0 DEF Poll!TypeOK, Poll!Entries
      <4>2. revents'[k] = (Poll!Watching(k) /\ Poll!Readable(fds[k]))
        BY <2>1, <4>1 DEF Poll!Poll
      <4> QED
        BY <4>2 DEF Poll!Watching
    <3> QED
      BY <1>0, <3>1 DEF EntriesLive, Poll!Readable
  <2>2. CASE Poll!NoAccept
    BY <1>0, <2>2 DEF PollInv, EntriesLive, Poll!Readable, Poll!NoAccept
  <2>3. CASE Poll!Pass
    <3>1. /\ i' = i + 1 /\ i \in Nat /\ UNCHANGED <<pc, revents>> /\ pc = "scan"
          /\ \A k \in Poll!Entries : k \in Nat
      BY <1>0, <2>3 DEF Poll!TypeOK, Poll!Pass, Poll!Entries
    <3> QED
      BY <1>0, <3>1 DEF PollInv, EntriesLive, Poll!Readable
  <2>4. CASE Poll!EndScan
    BY <2>4 DEF Poll!EndScan
  <2> QED
    BY <2>1, <2>2, <2>3, <2>4
<1> QED
  BY <1>0, <1>1, <1>2, <1>3 DEF PollInv

LEMMA PollAccept ==
  ASSUME PollInv, Poll!Accept PROVE PollInv'
<1> USE ServersAssumption
<1>0. Poll!TypeOK /\ UNCHANGED <<revents, up, peer, sock, inbox, sent>>
  BY DEF PollInv, Poll!Accept
<1> DEFINE n == Poll!FirstFree
<1>1. PICK c \in Poll!Backlog :
        /\ fds' = [k \in Poll!Entries |-> IF k = n THEN c ELSE fds[k]]
        /\ conn' = [conn EXCEPT ![c] = IF n = MAX_FDS THEN "lost" ELSE "open"]
  BY DEF Poll!Accept
<1>2. /\ maxfd' = (IF n > maxfd THEN n ELSE maxfd)
      /\ pc = "accept" /\ pc' = "scan" /\ i' = 1 /\ revents[0]
  BY DEF Poll!Accept, Poll!Highest
<1>3. \/ /\ n \in Poll!Entries /\ fds[n] = NoFd
         /\ \A j \in Poll!Entries : j < n => fds[j] # NoFd
      \/ n = MAX_FDS /\ \A k \in Poll!Entries : fds[k] # NoFd
  BY <1>0, FirstFreeEntry
<1>4. /\ c \in Clients /\ conn[c] = "backlog"
      /\ \A d \in Clients : d # c => conn'[d] = conn[d]
      /\ conn'[c] = IF n = MAX_FDS THEN "lost" ELSE "open"
  BY <1>0, <1>1 DEF Poll!TypeOK, Poll!Backlog
<1>5. MAX_FDS \notin Poll!Entries /\ n \in Nat /\ maxfd \in Nat /\ n <= MAX_FDS
      /\ \A k \in Poll!Entries : k \in Nat
  BY <1>0, <1>3 DEF Poll!TypeOK, Poll!Entries
<1> HIDE DEF n
<1>6. \A k \in Poll!Entries : fds[k] # c
  BY <1>4 DEF PollInv, Poll!Watched
<1>7. Poll!TypeOK'
  <2>1. fds' \in [Poll!Entries -> Clients \cup {NoFd}]
    BY <1>0, <1>1, <1>4 DEF Poll!TypeOK
  <2>2. conn' \in [Clients -> {"none", "backlog", "open", "lost", "closed"}]
    BY <1>0, <1>1 DEF Poll!TypeOK
  <2>3. maxfd' \in 0..MAX_FDS
    BY <1>0, <1>2, <1>5 DEF Poll!TypeOK
  <2> QED
    BY <1>0, <1>2, <2>1, <2>2, <2>3 DEF Poll!TypeOK
<1>8. Poll!Watched'
  <2>1. ASSUME NEW d \in Clients, conn'[d] = "open"
        PROVE  \E k \in Poll!Entries :
                  k <= maxfd' /\ fds'[k] = d /\ \A j \in Poll!Entries \ {k} : fds'[j] # d
    <3>1. CASE d = c
      <4>1. n \in Poll!Entries
        BY <1>3, <1>4, <2>1, <3>1
      <4> QED
        BY <1>1, <1>2, <1>5, <1>6, <3>1, <4>1
    <3>2. CASE d # c
      <4>1. PICK k \in Poll!Entries :
               k <= maxfd /\ fds[k] = d /\ \A j \in Poll!Entries \ {k} : fds[j] # d
        BY <1>4, <2>1, <3>2 DEF PollInv, Poll!Watched
      <4>2. k # n
        BY <1>3, <1>5, <4>1
      <4> QED
        BY <1>1, <1>2, <1>5, <3>2, <4>1, <4>2
    <3> QED
      BY <3>1, <3>2
  <2>2. ASSUME NEW k \in Poll!Entries, fds'[k] # NoFd PROVE conn'[fds'[k]] = "open"
    <3>1. CASE k = n
      BY <1>1, <1>4, <1>5, <3>1
    <3>2. CASE k # n
      <4>1. fds'[k] = fds[k] /\ fds[k] \in Clients /\ conn[fds[k]] = "open"
        BY <1>0, <1>1, <2>2, <3>2 DEF PollInv, Poll!TypeOK, Poll!Watched
      <4> QED
        BY <1>4, <4>1
    <3> QED
      BY <3>1, <3>2
  <2> QED
    BY <2>1, <2>2 DEF Poll!Watched
<1>9. EntriesLive'
  <2> SUFFICES ASSUME NEW k \in Poll!Entries, k <= maxfd', revents[k]
               PROVE  /\ fds'[k] # NoFd
                      /\ inbox[fds'[k]] > 0 \/ peer[fds'[k]] # "up" \/ k = maxfd'
    BY <1>0, <1>2 DEF EntriesLive, Poll!Readable
  <2>1. CASE k <= maxfd
    <3>1. fds[k] # NoFd /\ Poll!Readable(fds[k])
      BY <1>2, <2>1 DEF PollInv, EntriesLive
    <3>2. fds'[k] = fds[k]
      BY <1>1, <1>3, <1>5, <3>1
    <3> QED
      BY <1>0, <3>1, <3>2 DEF Poll!Readable
  <2>2. CASE k > maxfd
    <3>1. fds[k] = NoFd
      <4>1. fds[k] # NoFd => fds[k] \in Clients /\ conn[fds[k]] = "open"
        BY <1>0 DEF PollInv, Poll!TypeOK, Poll!Watched
      <4>2. ASSUME fds[k] \in Clients, conn[fds[k]] = "open" PROVE FALSE
        <5>1. PICK m \in Poll!Entries :
                m <= maxfd /\ \A j \in Poll!Entries \ {m} : fds[j] # fds[k]
          BY <4>2 DEF PollInv, Poll!Watched
        <5> QED
          BY <1>5, <2>2, <5>1
      <4> QED
        BY <4>1, <4>2
    <3>2. n \in Poll!Entries /\ n > maxfd /\ maxfd' = n
      BY <1>2, <1>3, <1>5, <2>2, <3>1
    <3>3. CASE k = n
      <4>1. fds'[k] = c /\ c # NoFd
        BY <1>1, <1>4, <3>3
      <4> QED
        BY <3>2, <3>3, <4>1
    <3>4. CASE k # n
      BY <1>3, <1>5, <3>1, <3>2, <3>4
    <3> QED
      BY <3>3, <3>4
  <2> QED
    BY <1>5, <2>1, <2>2
<1> QED
  BY <1>0, <1>2, <1>7, <1>8, <1>9 DEF PollInv

(* The connection of one entry is read, closed, or found reset. *)
LEMMA PollReads ==
  ASSUME PollInv, Poll!Serve \/ Poll!Close \/ Poll!ReadFails
  PROVE  PollInv'
<1> USE ServersAssumption
<1>0. /\ Poll!TypeOK /\ UNCHANGED <<revents, maxfd, pc, peer, sent>>
      /\ i' = i + 1 /\ pc = "scan" /\ i \in Poll!Entries /\ i <= maxfd /\ revents[i]
  BY DEF PollInv, Poll!Serve, Poll!Close, Poll!ReadFails, Poll!AtEnd, Poll!Reported
<1>1. PICK c \in Clients : fds[i] = c /\ conn[c] = "open"
                           /\ \A j \in Poll!Entries : fds[j] = c => j = i
  <2>1. fds[i] # NoFd
    BY <1>0 DEF PollInv, EntriesLive, Poll!TypeOK, Poll!Entries
  <2>2. fds[i] \in Clients /\ conn[fds[i]] = "open"
    BY <1>0, <2>1 DEF PollInv, Poll!TypeOK, Poll!Watched
  <2> QED
    BY <1>0, <2>2 DEF PollInv, Poll!Watched
<1>2. /\ inbox' \in [Clients -> 0..PollChunks]
      /\ conn' \in [Clients -> {"none", "backlog", "open", "lost", "closed"}]
      /\ \A d \in Clients : d # c => inbox'[d] = inbox[d] /\ conn'[d] = conn[d]
      /\ inbox'[c] <= inbox[c] /\ inbox[c] \in Nat
  BY <1>0, <1>1 DEF Poll!TypeOK, Poll!Serve, Poll!Close, Poll!ReadFails
<1>3. sock' \in [Clients -> {"ok", "reset", "pipe"}] /\ up' \in BOOLEAN
  <2>1. sock \in [Clients -> {"ok", "reset", "pipe"}] /\ up \in BOOLEAN
    BY <1>0 DEF Poll!TypeOK
  <2>2. CASE Poll!Serve
    <3>1. CASE peer[c] = "up"
      BY <1>1, <2>1, <2>2, <3>1 DEF Poll!Serve
    <3>2. CASE peer[c] # "up" /\ sock[c] = "reset"
      BY <1>1, <2>1, <2>2, <3>2 DEF Poll!Serve
    <3>3. CASE peer[c] # "up" /\ sock[c] = "pipe"
      BY <1>1, <2>1, <2>2, <3>3 DEF Poll!Serve
    <3>4. CASE peer[c] # "up" /\ sock[c] \notin {"reset", "pipe"}
      BY <1>1, <2>1, <2>2, <3>4 DEF Poll!Serve
    <3> QED
      BY <3>1, <3>2, <3>3, <3>4
  <2>3. CASE Poll!Close \/ Poll!ReadFails
    BY <2>1, <2>3 DEF Poll!Close, Poll!ReadFails
  <2> QED
    BY <2>2, <2>3
<1>4. \A d \in Clients : inbox'[d] <= sent'
  <2> SUFFICES ASSUME NEW d \in Clients PROVE inbox'[d] <= sent
    BY <1>0
  <2>1. inbox[d] <= sent /\ sent \in Nat /\ inbox[d] \in Nat /\ inbox'[d] \in Nat
    BY <1>0, <1>2 DEF PollInv, Poll!TypeOK
  <2> QED
    BY <1>2, <2>1
<1>5. /\ fds' \in [Poll!Entries -> Clients \cup {NoFd}]
      /\ \A k \in Poll!Entries : k # i => fds'[k] = fds[k]
  BY <1>0 DEF Poll!TypeOK, Poll!Serve, Poll!Close, Poll!ReadFails
<1>6. Poll!TypeOK'
  <2>1. i' \in 1..(MAX_FDS + 1)
    BY <1>0 DEF Poll!Entries
  <2> QED
    BY <1>0, <1>2, <1>3, <1>5, <2>1 DEF Poll!TypeOK
<1>7. Poll!Watched'
  <2>1. CASE Poll!Close
    <3>1. fds'[i] = NoFd /\ conn'[c] = "closed"
      BY <1>0, <1>1, <2>1 DEF Poll!TypeOK, Poll!Close
    <3>2. ASSUME NEW d \in Clients, conn'[d] = "open"
          PROVE  \E k \in Poll!Entries :
                    k <= maxfd /\ fds'[k] = d /\ \A j \in Poll!Entries \ {k} : fds'[j] # d
      <4>1. d # c /\ conn[d] = "open" /\ d # NoFd
        BY <1>2, <3>1, <3>2
      <4>2. PICK k \in Poll!Entries :
               k <= maxfd /\ fds[k] = d /\ \A j \in Poll!Entries \ {k} : fds[j] # d
        BY <4>1 DEF PollInv, Poll!Watched
      <4> QED
        BY <1>1, <1>5, <3>1, <4>1, <4>2
    <3>3. ASSUME NEW k \in Poll!Entries, fds'[k] # NoFd PROVE conn'[fds'[k]] = "open"
      <4>1. k # i /\ fds'[k] = fds[k] /\ fds[k] # c
        BY <1>1, <1>5, <3>1, <3>3
      <4>2. fds[k] \in Clients /\ conn[fds[k]] = "open"
        BY <1>0, <3>3, <4>1 DEF PollInv, Poll!TypeOK, Poll!Watched
      <4> QED
        BY <1>2, <4>1, <4>2
    <3> QED
      BY <1>0, <3>2, <3>3 DEF Poll!Watched
  <2>2. CASE Poll!Serve \/ Poll!ReadFails
    <3>1. UNCHANGED <<fds, conn>>
      BY <2>2 DEF Poll!Serve, Poll!ReadFails
    <3> QED
      BY <1>0, <3>1 DEF PollInv, Poll!Watched
  <2> QED
    BY <2>1, <2>2
<1>8. EntriesLive'
  <2> SUFFICES ASSUME NEW k \in Poll!Entries, k >= i', k <= maxfd, revents[k]
               PROVE  /\ fds'[k] # NoFd
                      /\ \/ inbox'[fds'[k]] > 0 \/ peer[fds'[k]] # "up"
                         \/ revents[0] /\ k = maxfd
    BY <1>0 DEF EntriesLive, Poll!Readable
  <2>1. k # i /\ k >= i
    BY <1>0 DEF Poll!Entries
  <2>2. /\ fds[k] # NoFd
        /\ \/ inbox[fds[k]] > 0 \/ peer[fds[k]] # "up"
           \/ revents[0] /\ k = maxfd
    BY <1>0, <2>1 DEF PollInv, EntriesLive, Poll!Readable
  <2>3. fds'[k] = fds[k] /\ fds[k] \in Clients /\ fds[k] # c
    BY <1>0, <1>1, <1>5, <2>1, <2>2 DEF Poll!TypeOK
  <2> QED
    BY <1>2, <2>2, <2>3
<1> QED
  BY <1>0, <1>4, <1>6, <1>7, <1>8 DEF PollInv

LEMMA PollStep ==
  ASSUME PollInv, [Poll!Next]_(Poll!vars) PROVE PollInv'
<1>1. CASE Poll!Next
  BY <1>1, PollClients, PollLoop, PollAccept, PollReads DEF Poll!Next, Poll!Server
<1>2. CASE UNCHANGED Poll!vars
  BY <1>2
  DEF Poll!vars, Poll!loopVars, Poll!netVars, PollInv, Poll!TypeOK, Poll!Watched,
      EntriesLive, Poll!Readable
<1> QED
  BY <1>1, <1>2
-----------------------------------------------------------------------------
(* epoll.  Nothing is listed twice; the listening socket is in hand and on *)
(* the list at a time exactly if more than one connection waits.           *)
ListsSound ==
    /\ ready \in Seq(Epoll!Fds) /\ IsInjective(ready)
    /\ evs \in Seq(Epoll!Fds) /\ IsInjective(evs)
    /\ "lfd" \in Range(evs) =>
         ("lfd" \in Range(ready) <=> \E b, c \in Epoll!Backlog : b # c)

(* What the loop knows about the connection it has in hand.                *)
InHand ==
    /\ pc = "register" => cur \in Clients /\ conn[cur] = "accepted"
    /\ pc \in {"recv", "close"} => cur \in Clients /\ cur \notin Range(evs)
    /\ pc = "recv" => status \in {"None", "Send"}
    /\ pc = "close" /\ status = "Close" => peer[cur] # "up" /\ inbox[cur] = 0

(* A reply that came too late is followed by the end of the stream.        *)
RepliesSound ==
    \A c \in Clients :
        \/ late[c] = 0
        \/ /\ late[c] = 1 /\ peer[c] # "up"
           /\ \/ conn[c] = "closed"
              \/ cur = c /\ ((pc = "recv" /\ status = "Send") \/
                             (pc = "close" /\ status = "Close"))

EpollInv ==
    /\ up = TRUE
    /\ Epoll!TypeOK
    /\ \A c \in Clients : inbox[c] <= sent
    /\ ListsSound
    /\ Epoll!NoLostEdge /\ Epoll!EventsLive
    /\ InHand
    /\ RepliesSound

LEMMA PendingIs ==
  ASSUME NEW f
  PROVE  /\ Epoll!Listed(f) <=> f \in Range(ready)
         /\ Epoll!Pending(f) <=> f \in Range(ready) \/ f \in Range(evs)
  BY DEF Epoll!Pending, Epoll!Listed, Range

LEMMA EnqueueSet ==
  ASSUME ListsSound, NEW f \in Epoll!Fds, NEW l, l = Epoll!Enqueue(f)
  PROVE  l \in Seq(Epoll!Fds) /\ IsInjective(l) /\ Range(l) = Range(ready) \cup {f}
<1>1. CASE f \in Range(ready)
  BY <1>1, PendingIs DEF ListsSound, Epoll!Enqueue
<1>2. CASE f \notin Range(ready)
  BY <1>2, PendingIs, AppendSet DEF ListsSound, Epoll!Enqueue
<1> QED
  BY <1>1, <1>2

LEMMA UnlistSet ==
  ASSUME ListsSound, NEW f \in Epoll!Fds, NEW l, l = Epoll!Unlist(f)
  PROVE  l \in Seq(Epoll!Fds) /\ IsInjective(l) /\ Range(l) = Range(ready) \ {f}
<1>1. CASE f \notin Range(ready)
  BY <1>1, PendingIs DEF ListsSound, Epoll!Unlist
<1>2. CASE f \in Range(ready)
  <2> DEFINE n == Len(ready)
  <2>1. /\ n \in Nat /\ DOMAIN ready = 1..n /\ ready \in [1..n -> Epoll!Fds]
    BY SeqDef DEF ListsSound
  <2>2. PICK p \in 1..n :
          /\ ready[p] = f
          /\ l = [k \in 1..(n - 1) |-> IF k < p THEN ready[k] ELSE ready[k + 1]]
    <3>1. \E k \in DOMAIN ready : ready[k] = f
      BY <1>2 DEF Range
    <3>2. PICK p : p = CHOOSE k \in DOMAIN ready : ready[k] = f
      OBVIOUS
    <3>3. p \in DOMAIN ready /\ ready[p] = f
      BY <3>1, <3>2
    <3>4. l = [k \in 1..(n - 1) |-> IF k < p THEN ready[k] ELSE ready[k + 1]]
      BY <3>1, <3>2 DEF Epoll!Unlist, Epoll!Listed
    <3> QED
      BY <2>1, <3>3, <3>4
  <2> HIDE DEF n
  <2>3. /\ \A k \in 1..(n - 1) : k \in 1..n /\ k + 1 \in 1..n
        /\ DOMAIN l = 1..(n - 1) /\ n - 1 \in Nat
    BY <2>1, <2>2
  <2>4. l \in [1..(n - 1) -> Epoll!Fds]
    BY <2>1, <2>2, <2>3
  <2>5. l \in Seq(Epoll!Fds)
    BY <2>3, <2>4, SeqDef
  <2>6. \A j, k \in 1..n : ready[j] = ready[k] => j = k
    BY <2>1 DEF ListsSound, IsInjective
  <2>7. IsInjective(l)
    <3> SUFFICES ASSUME NEW j \in 1..(n - 1), NEW k \in 1..(n - 1), l[j] = l[k]
                 PROVE  j = k
      BY <2>3 DEF IsInjective
    <3>1. (IF j < p THEN j ELSE j + 1) = (IF k < p THEN k ELSE k + 1)
      BY <2>2, <2>3, <2>6
    <3> QED
      BY <2>1, <3>1
  <2>8. \A k \in 1..(n - 1) : l[k] # f /\ \E j \in 1..n : l[k] = ready[j]
    BY <2>1, <2>2, <2>3, <2>6
  <2>9. ASSUME NEW k \in 1..n, k # p PROVE \E j \in 1..(n - 1) : l[j] = ready[k]
    <3>1. CASE k < p
      BY <2>1, <2>2, <3>1
    <3>2. CASE k > p
      <4>1. k - 1 \in 1..(n - 1) /\ ~(k - 1 < p) /\ k - 1 + 1 = k
        BY <2>1, <3>2
      <4> QED
        BY <2>2, <4>1
    <3> QED
      BY <2>1, <2>9, <3>1, <3>2
  <2>10. ASSUME NEW x \in Range(l) PROVE x \in Range(ready) \ {f}
    <3>1. PICK k \in 1..(n - 1) : l[k] = x
      BY <2>3 DEF Range
    <3> QED
      BY <2>1, <2>8, <3>1 DEF Range
  <2>11. ASSUME NEW x \in Range(ready), x # f PROVE x \in Range(l)
    <3>1. PICK k \in 1..n : ready[k] = x
      BY <2>1 DEF Range
    <3>2. k # p
      BY <2>2, <2>11, <3>1
    <3>3. PICK j \in 1..(n - 1) : l[j] = x
      BY <2>9, <3>1, <3>2
    <3> QED
      BY <2>3, <3>3 DEF Range
  <2> QED
    BY <2>5, <2>7, <2>10, <2>11
<1> QED
  BY <1>1, <1>2

LEMMA BacklogOfTwo ==
  Epoll!Cardinality(Epoll!Backlog) > 1 <=> \E b, c \in Epoll!Backlog : b # c
<1> DEFINE B == Epoll!Backlog
<1>1. Epoll!Cardinality(B) = Cardinality(B)
  BY DEF Epoll!Cardinality, Cardinality
<1>2. IsFiniteSet(B)
  <2>1. B \subseteq Clients
    BY DEF Epoll!Backlog
  <2> HIDE DEF B
  <2> QED
    BY <2>1, ServersAssumption, FS_Subset
<1> HIDE DEF B
<1>3. Cardinality(B) \in Nat
  BY <1>2, FS_CardinalityType
<1>4. ASSUME NEW b \in B, NEW c \in B, b # c PROVE Cardinality(B) > 1
  <2>1. IsFiniteSet({b}) /\ Cardinality({b}) = 1
    BY FS_Singleton
  <2>2. IsFiniteSet({b} \cup {c}) /\ Cardinality({b} \cup {c}) = 2
    BY <1>4, <2>1, FS_AddElement
  <2>3. Cardinality({b} \cup {c}) <= Cardinality(B)
    BY <1>2, FS_Subset
  <2> QED
    BY <1>3, <2>2, <2>3
<1>5. ASSUME \A b, c \in B : b = c PROVE ~(Cardinality(B) > 1)
  <2>1. CASE B = {}
    BY <2>1, FS_EmptySet
  <2>2. CASE B # {}
    <3>1. PICK b : B = {b}
      BY <1>5, <2>2
    <3> QED
      BY <3>1, FS_Singleton
  <2> QED
    BY <2>1, <2>2
<1>6. Cardinality(B) > 1 <=> \E b, c \in B : b # c
  BY <1>4, <1>5
<1> QED
  BY <1>1, <1>6 DEF B
-----------------------------------------------------------------------------
(* The invariant again, with what the lists hold in place of the lists.    *)
Waiting == Range(ready) \cup Range(evs)

EpollTypes ==
    /\ up = TRUE
    /\ conn \in [Clients -> {"none", "backlog", "accepted", "open", "closed"}]
    /\ peer \in [Clients -> {"up", "left"}]
    /\ inbox \in [Clients -> 0..Chunks] /\ sent \in 0..Chunks
    /\ Len(evs) <= MaxEvents
    /\ pc \in {"wait", "next", "register", "recv", "close"} /\ cur \in Epoll!Fds
    /\ status \in {"None", "Send", "Close"}
    /\ late \in [Clients -> Nat]
    /\ \A c \in Clients : inbox[c] <= sent

EdgesKept ==
    /\ \A c \in Clients :
         conn[c] = "open" /\ (inbox[c] > 0 \/ peer[c] # "up") =>
            \/ c \in Waiting
            \/ cur = c /\ (pc = "recv" \/ (pc = "close" /\ status = "Close"))
    /\ (\E c \in Clients : conn[c] = "backlog") => "lfd" \in Waiting

WaitingLive ==
    /\ \A c \in Clients : c \in Waiting => conn[c] = "open"
    /\ "lfd" \in Waiting => \E c \in Clients : conn[c] = "backlog"
    /\ pc \in {"recv", "close"} => conn[cur] = "open"

EpollSets ==
    EpollTypes /\ ListsSound /\ EdgesKept /\ WaitingLive /\ InHand /\ RepliesSound

LEMMA EpollInvIs == EpollInv <=> EpollSets
<1>1. ASSUME ListsSound
      PROVE  /\ \A k \in DOMAIN ready : ready[k] \in Epoll!Fds
             /\ \A k \in DOMAIN evs : evs[k] \in Epoll!Fds
             /\ \A j, k \in DOMAIN evs : evs[j] = evs[k] => j = k
  BY <1>1, LenProperties, ElementOfSeq DEF ListsSound, IsInjective
<1>2. ASSUME ListsSound PROVE Epoll!NoLostEdge <=> EdgesKept
  BY PendingIs DEF Epoll!NoLostEdge, EdgesKept, Waiting, Epoll!Backlog, Epoll!Readable
<1>3. ASSUME ListsSound PROVE Epoll!EventsLive <=> WaitingLive
  BY <1>1, <1>3, PendingIs DEF Epoll!EventsLive, WaitingLive, Waiting, Epoll!Backlog
<1>4. ASSUME ListsSound
      PROVE  EpollTypes <=> /\ up = TRUE /\ Epoll!TypeOK
                            /\ \A c \in Clients : inbox[c] <= sent
  BY <1>1, <1>4 DEF EpollTypes, Epoll!TypeOK
<1> QED
  BY <1>2, <1>3, <1>4 DEF EpollInv, EpollSets

(* The client side: a connection, something that arrives, a hang-up.       *)
LEMMA EpollConnect ==
  ASSUME EpollSets, NEW c \in Clients, Epoll!Connect(c), UNCHANGED up PROVE EpollSets'
<1>0. /\ EpollTypes /\ ListsSound /\ EdgesKept /\ WaitingLive /\ InHand /\ RepliesSound
      /\ conn[c] = "none" /\ conn' = [conn EXCEPT ![c] = "backlog"]
      /\ UNCHANGED <<peer, inbox, sent, evs, pc, cur, status, late>>
  BY DEF EpollSets, Epoll!Connect
<1>1. /\ conn'[c] = "backlog" /\ \A d \in Clients : d # c => conn'[d] = conn[d]
      /\ conn' \in [Clients -> {"none", "backlog", "accepted", "open", "closed"}]
  BY <1>0 DEF EpollTypes
<1>2. /\ ready' \in Seq(Epoll!Fds) /\ IsInjective(ready')
      /\ Range(ready') = Range(ready) \cup {"lfd"}
  <2>1. "lfd" \in Epoll!Fds /\ ready' = Epoll!Enqueue("lfd")
    BY DEF Epoll!Fds, Epoll!Connect
  <2> QED
    BY <1>0, <2>1, EnqueueSet
<1>3. ASSUME "lfd" \in Range(evs) PROVE \E b, d \in Clients :
           b # d /\ conn'[b] = "backlog" /\ conn'[d] = "backlog"
  <2>1. PICK b \in Clients : conn[b] = "backlog"
    BY <1>0, <1>3 DEF WaitingLive, Waiting
  <2>2. b # c /\ conn'[b] = "backlog" /\ conn'[c] = "backlog"
    BY <1>0, <1>1, <2>1
  <2> QED
    BY <2>2
<1>4. ListsSound'
  BY <1>0, <1>2, <1>3 DEF ListsSound, Epoll!Backlog
<1>5. EpollTypes'
  BY <1>0, <1>1 DEF EpollTypes
<1>6. EdgesKept'
  BY <1>0, <1>1, <1>2 DEF EdgesKept, Waiting
<1>7. WaitingLive'
  <2>1. "lfd" \notin Clients
    BY ServersAssumption
  <2>2. c \notin Waiting
    BY <1>0 DEF WaitingLive
  <2> QED
    BY <1>0, <1>1, <1>2, <2>1, <2>2 DEF WaitingLive, Waiting, InHand
<1>8. InHand' /\ RepliesSound'
  BY <1>0, <1>1 DEF InHand, RepliesSound
<1> QED
  BY <1>4, <1>5, <1>6, <1>7, <1>8 DEF EpollSets

LEMMA EpollTraffic ==
  ASSUME EpollSets, NEW c \in Clients, Epoll!Arrive(c) \/ Epoll!Hangup(c), UNCHANGED up
  PROVE  EpollSets'
<1>0. /\ EpollTypes /\ ListsSound /\ EdgesKept /\ WaitingLive /\ InHand /\ RepliesSound
      /\ peer[c] = "up" /\ (\A d \in Clients : d # c => peer'[d] = peer[d])
      /\ UNCHANGED <<conn, evs, pc, cur, status, late>>
  BY DEF EpollSets, EpollTypes, Epoll!Arrive, Epoll!Hangup
<1>1. /\ ready' \in Seq(Epoll!Fds) /\ IsInjective(ready')
      /\ Range(ready') = IF conn[c] = "open" THEN Range(ready) \cup {c} ELSE Range(ready)
  <2>1. c \in Epoll!Fds /\ Epoll!Edge(c)
    BY DEF Epoll!Fds, Epoll!Arrive, Epoll!Hangup
  <2>2. CASE conn[c] = "open"
    <3>1. ready' = Epoll!Enqueue(c)
      BY <2>1, <2>2 DEF Epoll!Edge
    <3> QED
      BY <1>0, <2>1, <2>2, <3>1, EnqueueSet
  <2>3. CASE conn[c] # "open"
    BY <1>0, <2>1, <2>3 DEF Epoll!Edge, ListsSound
  <2> QED
    BY <2>2, <2>3
<1>2. /\ inbox' \in [Clients -> 0..Chunks] /\ sent' \in 0..Chunks
      /\ \A d \in Clients : inbox'[d] <= sent' /\ (d # c => inbox'[d] = inbox[d])
  <2>1. CASE Epoll!Arrive(c)
    <3>1. /\ inbox' = [inbox EXCEPT ![c] = inbox[c] + 1] /\ sent' = sent + 1 /\ sent < Chunks
      BY <2>1 DEF Epoll!Arrive
    <3>2. /\ inbox[c] \in Nat /\ inbox[c] <= sent /\ sent \in Nat /\ Chunks \in Nat
          /\ inbox[c] + 1 \in 0..Chunks /\ sent' \in 0..Chunks
      BY <1>0, <3>1, ServersAssumption DEF EpollTypes
    <3>3. inbox' \in [Clients -> 0..Chunks]
      BY <1>0, <3>1, <3>2 DEF EpollTypes
    <3>4. ASSUME NEW d \in Clients PROVE inbox'[d] <= sent' /\ (d # c => inbox'[d] = inbox[d])
      <4>1. inbox[d] \in Nat /\ inbox[d] <= sent
        BY <1>0 DEF EpollTypes
      <4>2. inbox'[d] = IF d = c THEN inbox[c] + 1 ELSE inbox[d]
        BY <1>0, <3>1 DEF EpollTypes
      <4> QED
        BY <3>1, <3>2, <4>1, <4>2
    <3> QED
      BY <3>2, <3>3, <3>4
  <2>2. CASE Epoll!Hangup(c)
    <3>1. inbox' \in {inbox, [inbox EXCEPT ![c] = 0]} /\ UNCHANGED sent
      BY <2>2 DEF Epoll!Hangup
    <3>2. 0 \in 0..Chunks /\ sent \in Nat /\ 0 <= sent
      BY <1>0, ServersAssumption DEF EpollTypes
    <3>3. inbox' \in [Clients -> 0..Chunks]
      BY <1>0, <3>1, <3>2 DEF EpollTypes
    <3>4. \A d \in Clients : inbox'[d] = inbox[d] \/ (inbox'[d] = 0 /\ d = c)
      BY <1>0, <3>1 DEF EpollTypes
    <3> QED
      BY <1>0, <3>1, <3>2, <3>3, <3>4 DEF EpollTypes
  <2> QED
    BY <2>1, <2>2
<1>3. peer' \in [Clients -> {"up", "left"}]
  BY <1>0 DEF EpollTypes, Epoll!Arrive, Epoll!Hangup
<1>4. EpollTypes'
  BY <1>0, <1>2, <1>3 DEF EpollTypes
<1>5. ListsSound'
  <2>1. "lfd" \notin Clients
    BY ServersAssumption
  <2> QED
    BY <1>0, <1>1, <2>1 DEF ListsSound, Epoll!Backlog
<1>6. EdgesKept'
  BY <1>0, <1>1, <1>2 DEF EdgesKept, Waiting
<1>7. WaitingLive'
  <2>1. "lfd" \notin Clients
    BY ServersAssumption
  <2> QED
    BY <1>0, <1>1, <2>1 DEF WaitingLive, Waiting
<1>8. InHand'
  <2>1. ASSUME pc = "close", status = "Close" PROVE cur # c
    BY <1>0, <2>1 DEF InHand
  <2> QED
    BY <1>0, <1>2, <2>1 DEF InHand
<1>9. RepliesSound'
  BY <1>0 DEF RepliesSound
<1> QED
  BY <1>4, <1>5, <1>6, <1>7, <1>8, <1>9 DEF EpollSets

(* epoll_wait: a batch leaves the list, which keeps the rest and, when     *)
(* more than one connection waits, the listening socket.                   *)
LEMMA EpollWait ==
  ASSUME EpollSets, Epoll!Wait, UNCHANGED up PROVE EpollSets'
<1>0. /\ EpollTypes /\ ListsSound /\ EdgesKept /\ WaitingLive /\ InHand /\ RepliesSound
      /\ pc = "wait" /\ evs = <<>> /\ pc' = "next"
      /\ UNCHANGED <<conn, peer, inbox, sent, cur, status, late>>
  BY DEF EpollSets, Epoll!Wait, Epoll!netVars
<1>1. PICK n : n = IF Len(ready) < MaxEvents THEN Len(ready) ELSE MaxEvents
  OBVIOUS
<1>2. PICK left : left = SubSeq(ready, n + 1, Len(ready))
  OBVIOUS
<1>3. n \in 0..Len(ready) /\ n <= MaxEvents
  BY <1>0, <1>1, ServersAssumption, LenProperties DEF ListsSound
<1>4. /\ evs' = SubSeq(ready, 1, n)
      /\ ready' = IF /\ Epoll!Cardinality(Epoll!Backlog) > 1
                     /\ \E k \in 1..n : ready[k] = "lfd"
                  THEN Append(left, "lfd") ELSE left
  BY <1>1, <1>2 DEF Epoll!Wait
<1>5. ready \in Seq(Epoll!Fds) /\ IsInjective(ready)
  BY <1>0 DEF ListsSound
<1>6. /\ evs' \in Seq(Epoll!Fds) /\ left \in Seq(Epoll!Fds) /\ Len(evs') = n
      /\ \A x : x \in Range(evs') <=> \E k \in 1..n : ready[k] = x
      /\ Range(ready) = Range(evs') \cup Range(left)
      /\ IsInjective(evs') /\ IsInjective(left) /\ Range(evs') \cap Range(left) = {}
  <2>1. n \in 0..Len(ready) /\ evs' = SubSeq(ready, 1, n)
    BY <1>3, <1>4
  <2> QED
    BY <1>2, <1>5, <2>1, SplitSet
<1>7. (\E k \in 1..n : ready[k] = "lfd") <=> "lfd" \in Range(evs')
  BY <1>6
<1>8. PICK again \in BOOLEAN :
        again <=> "lfd" \in Range(evs') /\ \E b, c \in Epoll!Backlog : b # c
  OBVIOUS
<1>9. ready' = IF again THEN Append(left, "lfd") ELSE left
  BY <1>4, <1>7, <1>8, BacklogOfTwo
<1>10. /\ ready' \in Seq(Epoll!Fds) /\ IsInjective(ready')
       /\ Range(ready') = IF again THEN Range(left) \cup {"lfd"} ELSE Range(left)
  <2>1. CASE again
    <3>1. "lfd" \in Epoll!Fds /\ "lfd" \notin Range(left)
      BY <1>6, <1>8, <2>1 DEF Epoll!Fds
    <3> QED
      BY <1>6, <1>9, <2>1, <3>1, AppendSet
  <2>2. CASE ~again
    BY <1>6, <1>9, <2>2
  <2> QED
    BY <2>1, <2>2
<1>11. Waiting' = Waiting
  <2>1. Range(evs) = {}
    BY <1>0 DEF Range
  <2>2. Range(ready') \cup Range(evs') = Range(ready)
    BY <1>6, <1>8, <1>10
  <2> QED
    BY <2>1, <2>2 DEF Waiting
<1>12. ListsSound'
  <2>1. "lfd" \in Range(evs') => ("lfd" \in Range(ready') <=> again)
    BY <1>6, <1>10
  <2>2. again <=> "lfd" \in Range(evs') /\ \E b, c \in Epoll!Backlog' : b # c
    BY <1>0, <1>8 DEF Epoll!Backlog
  <2> QED
    BY <1>6, <1>10, <2>1, <2>2 DEF ListsSound
<1>13. EpollTypes'
  BY <1>0, <1>3, <1>6 DEF EpollTypes
<1>14. EdgesKept' /\ WaitingLive'
  BY <1>0, <1>11 DEF EdgesKept, WaitingLive
<1>15. InHand' /\ RepliesSound'
  BY <1>0 DEF InHand, RepliesSound
<1> QED
  BY <1>12, <1>13, <1>14, <1>15 DEF EpollSets

LEMMA EpollBatchDone ==
  ASSUME EpollSets, Epoll!BatchDone, UNCHANGED up PROVE EpollSets'
<1>0. /\ EpollTypes /\ ListsSound /\ EdgesKept /\ WaitingLive /\ InHand /\ RepliesSound
      /\ pc = "next" /\ pc' = "wait"
      /\ UNCHANGED <<conn, peer, inbox, sent, ready, evs, cur, status, late>>
  BY DEF EpollSets, Epoll!BatchDone, Epoll!netVars
<1>1. EpollTypes' /\ ListsSound'
  BY <1>0 DEF EpollTypes, ListsSound, Epoll!Backlog
<1>2. EdgesKept' /\ WaitingLive'
  BY <1>0 DEF EdgesKept, WaitingLive, Waiting
<1>3. InHand' /\ RepliesSound'
  BY <1>0 DEF InHand, RepliesSound
<1> QED
  BY <1>1, <1>2, <1>3 DEF EpollSets

(* An event is taken from the batch.                                       *)
LEMMA EpollTake ==
  ASSUME EpollSets, evs # <<>>, evs' = Tail(evs)
  PROVE  /\ evs' \in Seq(Epoll!Fds) /\ IsInjective(evs') /\ Len(evs') <= MaxEvents
         /\ Head(evs) \in Epoll!Fds /\ Head(evs) \notin Range(evs')
         /\ Range(evs) = {Head(evs)} \cup Range(evs')
<1>1. evs \in Seq(Epoll!Fds) /\ IsInjective(evs) /\ Len(evs) <= MaxEvents
  BY DEF EpollSets, EpollTypes, ListsSound
<1>2. Len(evs) \in Nat /\ MaxEvents \in Nat
  BY <1>1, LenProperties, ServersAssumption
<1>3. Len(evs') = Len(evs) - 1
  BY <1>1, TailSet
<1> QED
  BY <1>1, <1>2, <1>3, TailSet

LEMMA EpollAccept ==
  ASSUME EpollSets, Epoll!Accept, UNCHANGED up PROVE EpollSets'
<1>0. /\ EpollTypes /\ ListsSound /\ EdgesKept /\ WaitingLive /\ InHand /\ RepliesSound
      /\ pc = "next" /\ evs # <<>> /\ Head(evs) = "lfd" /\ evs' = Tail(evs)
      /\ pc' = "register"
      /\ UNCHANGED <<peer, inbox, sent, ready, status, late>>
  BY DEF EpollSets, Epoll!Accept
<1>1. PICK c \in Clients :
        conn[c] = "backlog" /\ conn' = [conn EXCEPT ![c] = "accepted"] /\ cur' = c
  BY DEF Epoll!Accept, Epoll!Backlog
<1>2. /\ conn'[c] = "accepted" /\ \A d \in Clients : d # c => conn'[d] = conn[d]
      /\ conn' \in [Clients -> {"none", "backlog", "accepted", "open", "closed"}]
  BY <1>0, <1>1 DEF EpollTypes
<1>3. /\ evs' \in Seq(Epoll!Fds) /\ IsInjective(evs') /\ Len(evs') <= MaxEvents
      /\ "lfd" \notin Range(evs') /\ Range(evs) = {"lfd"} \cup Range(evs')
  BY <1>0, EpollTake
<1>4. "lfd" \in Range(ready) <=> \E b, d \in Epoll!Backlog : b # d
  BY <1>0, <1>3 DEF ListsSound
<1>5. "lfd" \in Range(ready) <=> \E b \in Clients : conn'[b] = "backlog"
  <2>1. ASSUME "lfd" \in Range(ready) PROVE \E b \in Clients : conn'[b] = "backlog"
    <3>1. PICK b \in Epoll!Backlog, d \in Epoll!Backlog : b # d
      BY <1>4, <2>1
    <3> QED
      BY <1>2, <3>1 DEF Epoll!Backlog
  <2>2. ASSUME NEW b \in Clients, conn'[b] = "backlog" PROVE "lfd" \in Range(ready)
    <3>1. b # c /\ b \in Epoll!Backlog /\ c \in Epoll!Backlog
      BY <1>1, <1>2, <2>2 DEF Epoll!Backlog
    <3> QED
      BY <1>4, <3>1
  <2> QED
    BY <2>1, <2>2
<1>6. ListsSound'
  BY <1>0, <1>3 DEF ListsSound
<1>7. EpollTypes'
  BY <1>0, <1>1, <1>2, <1>3 DEF EpollTypes, Epoll!Fds
<1>8. EdgesKept'
  BY <1>0, <1>1, <1>2, <1>3, <1>5, ServersAssumption DEF EdgesKept, Waiting
<1>9. WaitingLive'
  BY <1>0, <1>1, <1>2, <1>3, <1>5, ServersAssumption DEF WaitingLive, Waiting
<1>10. InHand' /\ RepliesSound'
  BY <1>0, <1>1, <1>2 DEF InHand, RepliesSound
<1> QED
  BY <1>6, <1>7, <1>8, <1>9, <1>10 DEF EpollSets

LEMMA EpollRegister ==
  ASSUME EpollSets, Epoll!Register, UNCHANGED up PROVE EpollSets'
<1>0. /\ EpollTypes /\ ListsSound /\ EdgesKept /\ WaitingLive /\ InHand /\ RepliesSound
      /\ pc = "register" /\ pc' = "next" /\ cur \in Clients /\ conn[cur] = "accepted"
      /\ conn' = [conn EXCEPT ![cur] = "open"]
      /\ UNCHANGED <<peer, inbox, sent, evs, cur, status, late>>
  BY DEF EpollSets, Epoll!Register, InHand
<1>1. /\ conn'[cur] = "open" /\ \A d \in Clients : d # cur => conn'[d] = conn[d]
      /\ conn' \in [Clients -> {"none", "backlog", "accepted", "open", "closed"}]
  BY <1>0 DEF EpollTypes
<1>2. /\ ready' \in Seq(Epoll!Fds) /\ IsInjective(ready')
      /\ Range(ready') = IF inbox[cur] > 0 \/ peer[cur] # "up"
                         THEN Range(ready) \cup {cur} ELSE Range(ready)
  <2>1. ready' = Epoll!Initially(cur) /\ cur \in Epoll!Fds
    BY <1>0 DEF Epoll!Register, Epoll!Fds
  <2>2. CASE inbox[cur] > 0 \/ peer[cur] # "up"
    <3>1. ready' = Epoll!Enqueue(cur)
      BY <2>1, <2>2 DEF Epoll!Initially, Epoll!Readable
    <3> QED
      BY <1>0, <2>1, <2>2, <3>1, EnqueueSet
  <2>3. CASE ~(inbox[cur] > 0 \/ peer[cur] # "up")
    BY <1>0, <2>1, <2>3 DEF Epoll!Initially, Epoll!Readable, ListsSound
  <2> QED
    BY <2>2, <2>3
<1>3. \A d \in Clients : conn'[d] = "backlog" <=> conn[d] = "backlog"
  BY <1>0, <1>1
<1>4. ListsSound'
  <2>1. Epoll!Backlog' = Epoll!Backlog
    BY <1>3 DEF Epoll!Backlog
  <2> QED
    BY <1>0, <1>2, <2>1, ServersAssumption DEF ListsSound
<1>5. EpollTypes'
  BY <1>0, <1>1 DEF EpollTypes
<1>6. EdgesKept'
  BY <1>0, <1>1, <1>2, <1>3 DEF EdgesKept, Waiting
<1>7. WaitingLive'
  BY <1>0, <1>1, <1>2, <1>3, ServersAssumption DEF WaitingLive, Waiting
<1>8. InHand' /\ RepliesSound'
  BY <1>0, <1>1 DEF InHand, RepliesSound
<1> QED
  BY <1>4, <1>5, <1>6, <1>7, <1>8 DEF EpollSets

LEMMA EpollHandle ==
  ASSUME EpollSets, Epoll!Handle, UNCHANGED up PROVE EpollSets'
<1>0. /\ EpollTypes /\ ListsSound /\ EdgesKept /\ WaitingLive /\ InHand /\ RepliesSound
      /\ pc = "next" /\ evs # <<>> /\ Head(evs) # "lfd" /\ evs' = Tail(evs)
      /\ cur' = Head(evs) /\ pc' = "recv" /\ status' = "None"
      /\ UNCHANGED <<conn, peer, inbox, sent, ready, late>>
  BY DEF EpollSets, Epoll!Handle, Epoll!netVars
<1>1. /\ evs' \in Seq(Epoll!Fds) /\ IsInjective(evs') /\ Len(evs') <= MaxEvents
      /\ cur' \in Clients /\ cur' \notin Range(evs')
      /\ Range(evs) = {cur'} \cup Range(evs')
  BY <1>0, EpollTake DEF Epoll!Fds
<1>2. ListsSound'
  BY <1>0, <1>1, ServersAssumption DEF ListsSound, Epoll!Backlog
<1>3. EpollTypes'
  BY <1>0, <1>1 DEF EpollTypes, Epoll!Fds
<1>4. EdgesKept'
  BY <1>0, <1>1, ServersAssumption DEF EdgesKept, Waiting
<1>5. WaitingLive'
  BY <1>0, <1>1, ServersAssumption DEF WaitingLive, Waiting
<1>6. InHand' /\ RepliesSound'
  BY <1>0, <1>1 DEF InHand, RepliesSound
<1> QED
  BY <1>2, <1>3, <1>4, <1>5, <1>6 DEF EpollSets

LEMMA EpollRecv ==
  ASSUME EpollSets, Epoll!Recv, UNCHANGED up PROVE EpollSets'
<1>0. /\ EpollTypes /\ ListsSound /\ EdgesKept /\ WaitingLive /\ InHand /\ RepliesSound
      /\ pc = "recv" /\ inbox[cur] > 0 /\ inbox' = [inbox EXCEPT ![cur] = inbox[cur] - 1]
      /\ status' = "Send" /\ cur \in Clients
      /\ UNCHANGED <<conn, peer, sent, ready, evs, pc, cur>>
  BY DEF EpollSets, Epoll!Recv, InHand
<1>1. late' = IF status = "Send" \/ peer[cur] = "up" THEN late
              ELSE [late EXCEPT ![cur] = late[cur] + 1]
  BY DEF Epoll!Recv, Epoll!Answer
<1>2. /\ inbox' \in [Clients -> 0..Chunks] /\ \A d \in Clients : inbox'[d] <= sent
      /\ \A d \in Clients : d # cur => inbox'[d] = inbox[d]
  <2>1. inbox[cur] - 1 \in 0..Chunks /\ inbox[cur] - 1 <= sent
    BY <1>0, ServersAssumption DEF EpollTypes
  <2> QED
    BY <1>0, <2>1 DEF EpollTypes
<1>3. /\ late' \in [Clients -> Nat] /\ \A d \in Clients : d # cur => late'[d] = late[d]
      /\ late'[cur] = IF status = "Send" \/ peer[cur] = "up" THEN late[cur]
                      ELSE late[cur] + 1
  BY <1>0, <1>1 DEF EpollTypes
<1>4. ListsSound' /\ EpollTypes'
  BY <1>0, <1>2, <1>3 DEF ListsSound, EpollTypes, Epoll!Backlog
<1>5. EdgesKept' /\ WaitingLive' /\ InHand'
  BY <1>0, <1>2 DEF EdgesKept, WaitingLive, InHand, Waiting
<1>6. RepliesSound'
  <2> SUFFICES ASSUME NEW c \in Clients
               PROVE  \/ late'[c] = 0
                      \/ /\ late'[c] = 1 /\ peer[c] # "up"
                         /\ conn[c] = "closed" \/ cur = c
    BY <1>0 DEF RepliesSound
  <2>1. late[c] \in Nat
    BY <1>0 DEF EpollTypes
  <2>2. CASE c # cur
    BY <1>0, <1>3, <2>2 DEF RepliesSound
  <2>3. CASE c = cur /\ (status = "Send" \/ peer[cur] = "up")
    BY <1>0, <1>3, <2>3 DEF RepliesSound
  <2>4. CASE c = cur /\ status # "Send" /\ peer[cur] # "up"
    <3>1. conn[cur] = "open"
      BY <1>0 DEF WaitingLive
    <3>2. late[cur] = 0
      BY <1>0, <2>4, <3>1 DEF RepliesSound
    <3> QED
      BY <1>3, <2>4, <3>2
  <2> QED
    BY <2>2, <2>3, <2>4
<1> QED
  BY <1>4, <1>5, <1>6 DEF EpollSets

LEMMA EpollRecvEnds ==
  ASSUME EpollSets, Epoll!RecvClosed \/ Epoll!RecvAgain, UNCHANGED up PROVE EpollSets'
<1>0. /\ EpollTypes /\ ListsSound /\ EdgesKept /\ WaitingLive /\ InHand /\ RepliesSound
      /\ pc = "recv" /\ pc' = "close" /\ inbox[cur] = 0 /\ cur \in Clients
      /\ \/ peer[cur] # "up" /\ status' = "Close"
         \/ peer[cur] = "up" /\ status' = status
      /\ status \in {"None", "Send"}
      /\ UNCHANGED <<conn, peer, inbox, sent, ready, evs, cur, late>>
  BY DEF EpollSets, Epoll!RecvClosed, Epoll!RecvAgain, Epoll!netVars, InHand
<1>1. ListsSound' /\ EpollTypes'
  BY <1>0 DEF ListsSound, EpollTypes, Epoll!Backlog
<1>2. EdgesKept' /\ WaitingLive'
  BY <1>0 DEF EdgesKept, WaitingLive, Waiting
<1>3. InHand' /\ RepliesSound'
  BY <1>0 DEF InHand, RepliesSound
<1> QED
  BY <1>1, <1>2, <1>3 DEF EpollSets

LEMMA EpollClose ==
  ASSUME EpollSets, Epoll!Close, UNCHANGED up PROVE EpollSets'
<1>0. /\ EpollTypes /\ ListsSound /\ EdgesKept /\ WaitingLive /\ InHand /\ RepliesSound
      /\ pc = "close" /\ pc' = "next" /\ cur \in Clients /\ cur \notin Range(evs)
      /\ conn[cur] = "open"
      /\ UNCHANGED <<peer, inbox, sent, evs, cur, status, late>>
  BY DEF EpollSets, Epoll!Close, InHand, WaitingLive
<1>1. CASE status = "Close"
  <2>1. /\ conn' = [conn EXCEPT ![cur] = "closed"] /\ ready' = Epoll!Unlist(cur)
        /\ cur \in Epoll!Fds
    BY <1>0, <1>1 DEF Epoll!Close, Epoll!Fds
  <2>2. /\ conn'[cur] = "closed" /\ \A d \in Clients : d # cur => conn'[d] = conn[d]
        /\ conn' \in [Clients -> {"none", "backlog", "accepted", "open", "closed"}]
    BY <1>0, <2>1 DEF EpollTypes
  <2>3. /\ ready' \in Seq(Epoll!Fds) /\ IsInjective(ready')
        /\ Range(ready') = Range(ready) \ {cur}
    BY <1>0, <2>1, UnlistSet
  <2>4. \A d \in Clients : conn'[d] = "backlog" <=> conn[d] = "backlog"
    BY <1>0, <2>2
  <2>5. ListsSound'
    <3>1. Epoll!Backlog' = Epoll!Backlog
      BY <2>4 DEF Epoll!Backlog
    <3> QED
      BY <1>0, <2>3, <3>1, ServersAssumption DEF ListsSound
  <2>6. EpollTypes'
    BY <1>0, <2>2 DEF EpollTypes
  <2>7. EdgesKept'
    BY <1>0, <2>2, <2>3, <2>4, ServersAssumption DEF EdgesKept, Waiting
  <2>8. WaitingLive'
    BY <1>0, <2>2, <2>3, <2>4, ServersAssumption DEF WaitingLive, Waiting
  <2>9. InHand' /\ RepliesSound'
    BY <1>0, <2>2 DEF InHand, RepliesSound
  <2> QED
    BY <2>5, <2>6, <2>7, <2>8, <2>9 DEF EpollSets
<1>2. CASE status # "Close"
  <2>1. UNCHANGED <<conn, ready>>
    BY <1>2 DEF Epoll!Close
  <2>2. ListsSound' /\ EpollTypes'
    BY <1>0, <2>1 DEF ListsSound, EpollTypes, Epoll!Backlog
  <2>3. EdgesKept' /\ WaitingLive'
    BY <1>0, <1>2, <2>1 DEF EdgesKept, WaitingLive, Waiting
  <2>4. InHand' /\ RepliesSound'
    BY <1>0, <1>2, <2>1 DEF InHand, RepliesSound
  <2> QED
    BY <2>2, <2>3, <2>4 DEF EpollSets
<1> QED
  BY <1>1, <1>2

LEMMA EpollStep ==
  ASSUME EpollInv, [Epoll!Next]_(Epoll!vars), UNCHANGED up PROVE EpollInv'
<1>1. EpollSets
  BY EpollInvIs
<1>2. EpollSets'
  <2>1. CASE Epoll!Next
    BY <1>1, <2>1, EpollConnect, EpollTraffic, EpollWait, EpollBatchDone, EpollAccept,
       EpollRegister, EpollHandle, EpollRecv, EpollRecvEnds, EpollClose
    DEF Epoll!Next, Epoll!Server
  <2>2. CASE UNCHANGED Epoll!vars
    <3>1. ListsSound' /\ EpollTypes'
      BY <1>1, <2>2 DEF EpollSets, ListsSound, EpollTypes, Epoll!Backlog, Epoll!vars,
         Epoll!netVars
    <3>2. EdgesKept' /\ WaitingLive' /\ InHand' /\ RepliesSound'
      BY <1>1, <2>2 DEF EpollSets, EdgesKept, WaitingLive, Waiting, InHand, RepliesSound,
         Epoll!vars, Epoll!netVars
    <3> QED
      BY <3>1, <3>2 DEF EpollSets
  <2> QED
    BY <2>1, <2>2
<1>3. (EpollInv <=> EpollSets)'
  BY EpollInvIs, PTL
<1> QED
  BY <1>2, <1>3
-----------------------------------------------------------------------------
(* The three servers together.                                             *)
ServersInv ==
    \/ program = "select" /\ SelectInv
    \/ program = "poll" /\ PollInv
    \/ program = "epoll" /\ EpollInv

(* A step of the program that runs is a step of its module.                *)
LEMMA NextIs ==
  ASSUME [Next]_vars
  PROVE  /\ UNCHANGED program
         /\ program = "select" => [Select!Next]_(Select!vars)
         /\ program = "poll" => [Poll!Next]_(Poll!vars)
         /\ program = "epoll" => [Epoll!Next]_(Epoll!vars) /\ UNCHANGED up
<1>1. CASE UNCHANGED vars
  BY <1>1 DEF vars, loopOnly, selectOnly, pollOnly, epollOnly, Select!vars,
     Select!loopVars, Select!netVars, Poll!vars, Poll!loopVars, Poll!netVars,
     Epoll!vars, Epoll!netVars
<1>2. CASE Server
  BY <1>2 DEF Server, Others, Select!Next, Poll!Next, Epoll!Next
<1>3. CASE Hangup \/ Client
  BY <1>3, ServersAssumption
  DEF Hangup, Client, Others, Select!Next, Poll!Next, Epoll!Next
<1> QED
  BY <1>1, <1>2, <1>3 DEF Next

LEMMA SelectStarts ==
  ASSUME Select!Init PROVE SelectInv
<1>1. Cardinality(Clients) \in Nat
  BY ServersAssumption, FS_CardinalityType
<1>2. listenfd \in Select!Fds /\ 0 \in 0..(listenfd + Select!Cardinality(Clients) + 1)
  BY <1>1, SelectCardinality, ServersAssumption DEF Select!Fds
<1>3. Select!Open = {}
  BY DEF Select!Init, Select!Open
<1>4. Select!TypeOK
  BY <1>2, ServersAssumption DEF Select!Init, Select!TypeOK
<1>5. Select!Watched
  BY <1>3, ServersAssumption DEF Select!Init, Select!Watched
<1> QED
  BY <1>3, <1>4, <1>5 DEF Select!Init, SelectInv

LEMMA PollStarts ==
  ASSUME Poll!Init PROVE PollInv
<1>1. Poll!TypeOK
  BY ServersAssumption DEF Poll!Init, Poll!TypeOK
<1>2. Poll!Watched
  BY ServersAssumption DEF Poll!Init, Poll!Watched
<1> QED
  BY <1>1, <1>2, ServersAssumption DEF Poll!Init, PollInv

LEMMA EpollStarts ==
  ASSUME Epoll!Init, up = TRUE PROVE EpollInv
<1>1. ready = <<>> /\ evs = <<>> /\ Range(ready) = {} /\ Range(evs) = {} /\ Len(evs) = 0
  BY DEF Epoll!Init, Range
<1>2. EpollTypes
  BY <1>1, ServersAssumption DEF Epoll!Init, EpollTypes, Epoll!Fds
<1>3. ListsSound
  BY <1>1 DEF ListsSound, IsInjective
<1>4. EdgesKept /\ WaitingLive /\ InHand /\ RepliesSound
  BY <1>1 DEF Epoll!Init, EdgesKept, WaitingLive, Waiting, InHand, RepliesSound
<1> QED
  BY <1>2, <1>3, <1>4, EpollInvIs DEF EpollSets

LEMMA ServersInvHolds == Spec => []ServersInv
<1>1. Init => ServersInv
  BY SelectStarts, PollStarts, EpollStarts DEF Init, ServersInv
<1>2. ServersInv /\ [Next]_vars => ServersInv'
  BY NextIs, SelectStep, PollStep, EpollStep DEF ServersInv
<1> QED
  BY <1>1, <1>2, PTL DEF Spec

(* The state of each of the three loops has its type: no descriptor is     *)
(* outside the range that is scanned, no entry beyond the table, and no    *)
(* batch is larger than evs.                                               *)
THEOREM TypeCorrect == Spec => []TypeOK
<1>1. ServersInv => TypeOK
  BY DEF ServersInv, TypeOK, SelectInv, PollInv, EpollInv
<1> QED
  BY <1>1, ServersInvHolds, PTL

(* What is watched is what is open, in each of the three servers: select's *)
(* rdset, poll's table, and for epoll no edge is lost.                     *)
THEOREM WatchedCorrect == Spec => []Watched
<1>1. ServersInv => Watched
  BY DEF ServersInv, Watched, SelectInv, PollInv, EpollInv
<1> QED
  BY <1>1, ServersInvHolds, PTL

(* No loop waits in read() for one client, save poll's for one it has      *)
(* accepted in the same round.                                             *)
THEOREM NeverBlocksCorrect == Spec => []NeverBlocks
<1>1. ASSUME SelectInv PROVE Select!NeverBlocks
  BY <1>1 DEF SelectInv, ReportsLive, Select!NeverBlocks
<1>2. ASSUME PollInv PROVE Poll!BlocksOnNewOnly
  BY <1>2 DEF PollInv, Poll!TypeOK, EntriesLive, Poll!BlocksOnNewOnly, Poll!Reported
<1>3. ServersInv => NeverBlocks
  BY <1>1, <1>2 DEF ServersInv, NeverBlocks, EpollInv
<1> QED
  BY <1>3, ServersInvHolds, PTL

(* epoll_server writes to a client that has hung up at most once.          *)
THEOREM OneLateReplyCorrect == Spec => []OneLateReply
<1>1. ServersInv => OneLateReply
  BY DEF ServersInv, OneLateReply, EpollInv, RepliesSound, Epoll!OneLateReply
<1> QED
  BY <1>1, ServersInvHolds, PTL

(* Every step of the three is a step of ConnectionService, or one that its *)
(* clients do not see.                                                     *)
LEMMA SelectServes ==
  ASSUME SelectInv, SelectInv', Select!Next PROVE [Service!Next]_(Service!vars)
<1>1. /\ conn \in [Clients -> {"none", "backlog", "open", "closed"}]
      /\ conn' \in [Clients -> {"none", "backlog", "open", "closed"}]
  BY DEF SelectInv, Select!TypeOK
<1>2. connBar = conn /\ connBar' = conn'
  BY <1>1 DEF connBar
<1>3. ASSUME NEW c \in Clients, Select!Connect(c) \/ Select!Arrive(c) \/ Select!Hangup(c)
      PROVE  Service!Next
  <2>1. CASE Select!Connect(c)
    BY <1>2, <2>1 DEF Select!Connect, Select!loopVars, Service!Connect, Service!Moved,
       Service!Next
  <2>2. CASE Select!Arrive(c)
    BY <1>2, <2>2 DEF Select!Arrive, Select!loopVars, Service!Arrive, Service!Next
  <2>3. CASE Select!Hangup(c)
    BY <1>2, <2>3 DEF Select!Hangup, Select!loopVars, Service!Hangup, Service!Next
  <2> QED
    BY <1>3, <2>1, <2>2, <2>3
<1>4. CASE Select!Select \/ Select!NoAccept \/ Select!Pass \/ Select!EndScan
  BY <1>2, <1>4 DEF Select!Select, Select!NoAccept, Select!Pass, Select!EndScan,
     Select!netVars, Service!vars
<1>5. CASE Select!Accept
  <2>1. PICK c \in Clients : conn[c] = "backlog" /\ conn' = [conn EXCEPT ![c] = "open"]
    BY <1>5 DEF Select!Accept, Select!Backlog
  <2> QED
    BY <1>2, <1>5, <2>1 DEF Select!Accept, Service!Accept, Service!Moved, Service!Next
<1>6. ASSUME NEW c \in Clients, Select!Serve(c) \/ Select!Close(c) \/ Select!ReadFails(c)
      PROVE  [Service!Next]_(Service!vars)
  <2>0. up /\ up \in BOOLEAN /\ conn[c] = "open"
    BY <1>6 DEF SelectInv, Select!TypeOK, Select!Serve, Select!Close, Select!ReadFails,
       Select!AtEnd, Select!Reported
  <2>1. CASE Select!Serve(c)
    <3>1. /\ inbox[c] > 0 /\ inbox' = [inbox EXCEPT ![c] = inbox[c] - 1]
          /\ UNCHANGED <<conn, peer>>
      BY <2>1 DEF Select!Serve
    <3>2. up' = up \/ (up' = FALSE /\ peer[c] # "up")
      <4>1. CASE peer[c] = "up"
        BY <2>1, <4>1 DEF Select!Serve
      <4>2. CASE peer[c] # "up" /\ sock[c] = "reset"
        BY <2>1, <4>2 DEF Select!Serve
      <4>3. CASE peer[c] # "up" /\ sock[c] = "pipe"
        BY <2>1, <4>3 DEF Select!Serve
      <4>4. CASE peer[c] # "up" /\ sock[c] \notin {"reset", "pipe"}
        BY <2>1, <4>4 DEF Select!Serve
      <4> QED
        BY <4>1, <4>2, <4>3, <4>4
    <3>3. up' \in {up, c \notin Service!Left}
      BY <1>2, <2>0, <3>2 DEF Service!Left
    <3>4. connBar[c] = "open" /\ UNCHANGED <<connBar, peer>>
      BY <1>2, <2>0, <3>1
    <3>5. Service!Read(c)
      BY <3>1, <3>3, <3>4 DEF Service!Read
    <3> QED
      BY <2>0, <3>5 DEF Service!Next
  <2>2. CASE Select!Close(c)
    BY <1>2, <2>0, <2>2 DEF Select!Close, Select!AtEnd, Service!Close, Service!Moved,
       Service!Next
  <2>3. CASE Select!ReadFails(c)
    BY <1>2, <2>3 DEF Select!ReadFails, Service!vars
  <2> QED
    BY <1>6, <2>1, <2>2, <2>3
<1> QED
  BY <1>3, <1>4, <1>5, <1>6 DEF Select!Next, Select!Server

LEMMA PollServes ==
  ASSUME PollInv, PollInv', Poll!Next PROVE [Service!Next]_(Service!vars)
<1>1. /\ conn \in [Clients -> {"none", "backlog", "open", "lost", "closed"}]
      /\ conn' \in [Clients -> {"none", "backlog", "open", "lost", "closed"}]
  BY DEF PollInv, Poll!TypeOK
<1>2. connBar = conn /\ connBar' = conn'
  BY <1>1 DEF connBar
<1>3. ASSUME NEW c \in Clients, Poll!Connect(c) \/ Poll!Arrive(c) \/ Poll!Hangup(c)
      PROVE  Service!Next
  <2>1. CASE Poll!Connect(c)
    BY <1>2, <2>1 DEF Poll!Connect, Poll!loopVars, Service!Connect, Service!Moved,
       Service!Next
  <2>2. CASE Poll!Arrive(c)
    BY <1>2, <2>2 DEF Poll!Arrive, Poll!loopVars, Service!Arrive, Service!Next
  <2>3. CASE Poll!Hangup(c)
    BY <1>2, <2>3 DEF Poll!Hangup, Poll!loopVars, Service!Hangup, Service!Next
  <2> QED
    BY <1>3, <2>1, <2>2, <2>3
<1>4. CASE Poll!Poll \/ Poll!NoAccept \/ Poll!Pass \/ Poll!EndScan
  BY <1>2, <1>4 DEF Poll!Poll, Poll!NoAccept, Poll!Pass, Poll!EndScan, Poll!netVars,
     Service!vars
<1>5. CASE Poll!Accept
  <2>1. PICK c \in Clients :
          /\ conn[c] = "backlog"
          /\ conn' = [conn EXCEPT ![c] = IF Poll!FirstFree = MAX_FDS THEN "lost" ELSE "open"]
    BY <1>5 DEF Poll!Accept, Poll!Backlog
  <2>2. Service!Moved(c, "backlog", "open") \/ Service!Moved(c, "backlog", "lost")
    BY <1>2, <2>1 DEF Service!Moved
  <2> QED
    BY <1>5, <2>2 DEF Poll!Accept, Service!Accept, Service!Next
<1>6. CASE Poll!Serve \/ Poll!Close \/ Poll!ReadFails
  <2>1. PICK c : c = fds[i]
    OBVIOUS
  <2>2. up /\ up \in BOOLEAN /\ c \in Clients /\ conn[c] = "open"
    <3>1. up /\ pc = "scan" /\ i \in Poll!Entries /\ i <= maxfd /\ revents[i]
      BY <1>6 DEF Poll!Serve, Poll!Close, Poll!ReadFails, Poll!AtEnd, Poll!Reported
    <3>2. i \in Nat
      BY DEF PollInv, Poll!TypeOK
    <3>3. fds[i] # NoFd
      BY <3>1, <3>2 DEF PollInv, EntriesLive
    <3>4. fds[i] \in Clients /\ conn[fds[i]] = "open"
      BY <3>1, <3>3 DEF PollInv, Poll!TypeOK, Poll!Watched
    <3> QED
      BY <2>1, <3>1, <3>4 DEF PollInv, Poll!TypeOK
  <2>3. CASE Poll!Serve
    <3>1. /\ inbox[c] > 0 /\ inbox' = [inbox EXCEPT ![c] = inbox[c] - 1]
          /\ UNCHANGED <<conn, peer>>
      BY <2>1, <2>3 DEF Poll!Serve
    <3>2. up' = up \/ (up' = FALSE /\ peer[c] # "up")
      <4>1. CASE peer[c] = "up"
        BY <2>1, <2>3, <4>1 DEF Poll!Serve
      <4>2. CASE peer[c] # "up" /\ sock[c] = "reset"
        BY <2>1, <2>3, <4>2 DEF Poll!Serve
      <4>3. CASE peer[c] # "up" /\ sock[c] = "pipe"
        BY <2>1, <2>3, <4>3 DEF Poll!Serve
      <4>4. CASE peer[c] # "up" /\ sock[c] \notin {"reset", "pipe"}
        BY <2>1, <2>3, <4>4 DEF Poll!Serve
      <4> QED
        BY <4>1, <4>2, <4>3, <4>4
    <3>3. up' \in {up, c \notin Service!Left}
      BY <1>2, <2>2, <3>2 DEF Service!Left
    <3>4. connBar[c] = "open" /\ UNCHANGED <<connBar, peer>>
      BY <1>2, <2>2, <3>1
    <3>5. Service!Read(c)
      BY <3>1, <3>3, <3>4 DEF Service!Read
    <3> QED
      BY <2>2, <3>5 DEF Service!Next
  <2>4. CASE Poll!Close
    <3>1. Service!Close(c)
      BY <1>2, <2>1, <2>2, <2>4 DEF Poll!Close, Poll!AtEnd, Service!Close, Service!Moved
    <3> QED
      BY <2>2, <3>1 DEF Service!Next
  <2>5. CASE Poll!ReadFails
    BY <1>2, <2>5 DEF Poll!ReadFails, Service!vars
  <2> QED
    BY <1>6, <2>3, <2>4, <2>5
<1> QED
  BY <1>3, <1>4, <1>5, <1>6 DEF Poll!Next, Poll!Server

(* One connection of conn changes: connBar changes as it does, where what  *)
(* is accepted and not registered counts as waiting.                       *)
LEMMA BarMoved ==
  ASSUME NEW S, conn \in [Clients -> S], NEW c \in Clients, NEW v,
         conn' = [conn EXCEPT ![c] = v]
  PROVE  /\ connBar[c] = IF conn[c] = "accepted" THEN "backlog" ELSE conn[c]
         /\ connBar' = [connBar EXCEPT ![c] = IF v = "accepted" THEN "backlog" ELSE v]
  BY DEF connBar

LEMMA EpollServes ==
  ASSUME EpollSets, Epoll!Next, UNCHANGED up PROVE [Service!Next]_(Service!vars)
<1>1. /\ conn \in [Clients -> {"none", "backlog", "accepted", "open", "closed"}]
      /\ up = TRUE /\ up' = TRUE /\ InHand /\ WaitingLive
      /\ inbox \in [Clients -> 0..Chunks]
  BY DEF EpollSets, EpollTypes
<1>2. conn' = conn => connBar' = connBar
  BY DEF connBar
<1>3. ASSUME NEW c \in Clients, Epoll!Connect(c) \/ Epoll!Arrive(c) \/ Epoll!Hangup(c)
      PROVE  Service!Next
  <2>1. CASE Epoll!Connect(c)
    <3>1. Service!Moved(c, "none", "backlog")
      BY <1>1, <2>1, BarMoved DEF Epoll!Connect, Service!Moved
    <3> QED
      BY <1>1, <2>1, <3>1 DEF Epoll!Connect, Service!Connect, Service!Next
  <2>2. ASSUME conn[c] \in {"backlog", "accepted", "open"}
        PROVE  connBar[c] \in {"backlog", "open"}
    BY <2>2 DEF connBar
  <2>3. CASE Epoll!Arrive(c)
    BY <1>1, <1>2, <2>2, <2>3 DEF Epoll!Arrive, Service!Arrive, Service!Next
  <2>4. CASE Epoll!Hangup(c)
    BY <1>1, <1>2, <2>2, <2>4 DEF Epoll!Hangup, Service!Hangup, Service!Next
  <2> QED
    BY <1>3, <2>1, <2>3, <2>4
<1>4. CASE \/ Epoll!Wait \/ Epoll!BatchDone \/ Epoll!Handle
           \/ Epoll!RecvClosed \/ Epoll!RecvAgain
  BY <1>1, <1>2, <1>4 DEF Epoll!Wait, Epoll!BatchDone, Epoll!Handle, Epoll!RecvClosed,
     Epoll!RecvAgain, Epoll!netVars, Service!vars
<1>5. CASE Epoll!Accept
  <2>1. PICK c \in Clients : conn[c] = "backlog" /\ conn' = [conn EXCEPT ![c] = "accepted"]
    BY <1>5 DEF Epoll!Accept, Epoll!Backlog
  <2>2. connBar' = connBar
    BY <1>1, <2>1 DEF connBar
  <2> QED
    BY <1>1, <1>5, <2>2 DEF Epoll!Accept, Service!vars
<1>6. CASE Epoll!Register
  <2>1. cur \in Clients /\ conn[cur] = "accepted" /\ conn' = [conn EXCEPT ![cur] = "open"]
    BY <1>1, <1>6 DEF Epoll!Register, InHand
  <2>2. Service!Moved(cur, "backlog", "open")
    BY <1>1, <2>1, BarMoved DEF Service!Moved
  <2> QED
    BY <1>1, <1>6, <2>1, <2>2 DEF Epoll!Register, Service!Accept, Service!Next
<1>7. CASE Epoll!Recv
  <2>1. cur \in Clients /\ conn[cur] = "open" /\ UNCHANGED conn
    BY <1>1, <1>7 DEF Epoll!Recv, InHand, WaitingLive
  <2>2. connBar[cur] = "open"
    BY <2>1 DEF connBar
  <2>3. Service!Read(cur)
    BY <1>1, <1>2, <1>7, <2>1, <2>2 DEF Epoll!Recv, Service!Read
  <2> QED
    BY <1>1, <2>1, <2>3 DEF Service!Next
<1>8. CASE Epoll!Close
  <2>1. cur \in Clients /\ conn[cur] = "open" /\ UNCHANGED <<peer, inbox>>
    BY <1>1, <1>8 DEF Epoll!Close, InHand, WaitingLive
  <2>2. CASE status = "Close"
    <3>1. /\ conn' = [conn EXCEPT ![cur] = "closed"] /\ peer[cur] # "up" /\ inbox[cur] = 0
      BY <1>1, <1>8, <2>2 DEF Epoll!Close, InHand
    <3>2. Service!Moved(cur, "open", "closed")
      BY <1>1, <2>1, <3>1, BarMoved DEF Service!Moved
    <3> QED
      BY <1>1, <2>1, <3>1, <3>2 DEF Service!Close, Service!Next
  <2>3. CASE status # "Close"
    BY <1>1, <1>2, <1>8, <2>1, <2>3 DEF Epoll!Close, Service!vars
  <2> QED
    BY <2>2, <2>3
<1> QED
  BY <1>3, <1>4, <1>5, <1>6, <1>7, <1>8 DEF Epoll!Next, Epoll!Server

(* The three servers implement one ConnectionService: every connection is  *)
(* taken from the backlog once, read to the end, and closed only after the *)
(* client has hung up.                                                     *)
THEOREM Implementation == Spec => ImplementsService
<1>1. Init => Service!Init
  BY DEF Init, Select!Init, Poll!Init, Epoll!Init, Service!Init, connBar
<1>2. ServersInv /\ ServersInv' /\ [Next]_vars => [Service!Next]_(Service!vars)
  <2> SUFFICES ASSUME ServersInv, ServersInv', [Next]_vars
               PROVE  [Service!Next]_(Service!vars)
    OBVIOUS
  <2>1. CASE UNCHANGED <<conn, peer, inbox, up>>
    BY <2>1 DEF Service!vars, connBar
  <2>2. CASE program = "select" /\ Select!Next
    BY <2>2, NextIs, SelectServes DEF ServersInv
  <2>3. CASE program = "poll" /\ Poll!Next
    BY <2>3, NextIs, PollServes DEF ServersInv
  <2>4. CASE program = "epoll" /\ Epoll!Next
    BY <2>4, NextIs, EpollServes, EpollInvIs DEF ServersInv
  <2>5. /\ UNCHANGED Select!vars => UNCHANGED <<conn, peer, inbox, up>>
        /\ UNCHANGED Poll!vars => UNCHANGED <<conn, peer, inbox, up>>
        /\ UNCHANGED Epoll!vars => UNCHANGED <<conn, peer, inbox>>
    BY DEF Select!vars, Select!loopVars, Select!netVars, Poll!vars, Poll!loopVars,
       Poll!netVars, Epoll!vars, Epoll!netVars
  <2> QED
    BY <2>1, <2>2, <2>3, <2>4, <2>5, NextIs DEF ServersInv
<1> QED
  BY <1>1, <1>2, ServersInvHolds, PTL DEF Spec, ImplementsService, Service!Spec
=============================================================================
