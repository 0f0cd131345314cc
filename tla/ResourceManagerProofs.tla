----------------------- MODULE ResourceManagerProofs -----------------------
(***************************************************************************)
(* Proofs about ResourceManager for every pool size, counter width and     *)
(* number of clients.  IInv strengthens the checked invariants with where  *)
(* the generation of a slot stands relative to every handle issued on it.  *)
(***************************************************************************)
EXTENDS ResourceManager, SequenceTheorems, FiniteSetTheorems, TLAPS

Period == GenMod - 1

(* A handle names a slot of the pool and was stamped when it was issued.   *)
IssuedOK ==
    \A o \in 1..made :
        /\ issued[o].index \in 1..size
        /\ issued[o].generation \in 1..Period
        /\ stamp[o] <= bumps[issued[o].index]

(* g plus a, wrapped (at most twice) into 1..Period, is `now'.             *)
AtAge(g, now, a) ==
    \/ g + a <= Period /\ now = g + a
    \/ g + a > Period /\ g + a <= 2 * Period /\ now = g + a - Period
    \/ g + a > 2 * Period /\ now = g + a - 2 * Period

GenerationByAge ==
    \A o \in 1..made :
        Age(o) <= 2 * Period =>
            AtAge(issued[o].generation, generation[issued[o].index], Age(o))

(* Slots are occupied by odd bumps and vacated by even ones.               *)
Parity ==
    /\ \A s \in Slots : (pres[s] # 0) <=> (bumps[s] % 2 = 1)
    /\ \A o \in 1..made : stamp[o] % 2 = 1

(* A slot not bumped since a handle was issued still owns its object.      *)
Fresh == \A o \in 1..made : Age(o) = 0 => pres[issued[o].index] = o

Unused == \A s \in Slots : s > size => pres[s] = 0

IInv ==
    /\ TypeOK
    /\ FreeListExact
    /\ LiveReachable
    /\ IssuedOK
    /\ GenerationByAge
    /\ Parity
    /\ Fresh
    /\ Unused
-----------------------------------------------------------------------------
(* A bump stays in range, never yields the reserved 0, and cycles.         *)
LEMMA BumpStep ==
    ASSUME NEW g \in 0..(GenMod - 1)
    PROVE  /\ Bump(g) \in 1..Period
           /\ g < Period => Bump(g) = g + 1
           /\ g = Period => Bump(g) = 1
  BY ConstantsAssumption DEF Bump, Inc, Period

LEMMA ParityStep ==
    ASSUME NEW n \in Nat
    PROVE  ((n + 1) % 2 = 1) <=> (n % 2 # 1)
  OBVIOUS

LEMMA Widths ==
    /\ MaxSlots \in Nat /\ MaxObj \in Nat /\ GenMod \in Nat
    /\ Period \in Nat /\ Period >= 1 /\ GenMod - 1 = Period
  BY ConstantsAssumption DEF Period

LEMMA InitIInv == Init => IInv
  <1> SUFFICES ASSUME Init PROVE IInv
    OBVIOUS
  <1> USE ConstantsAssumption DEF Init
  <1>1. TypeOK
    BY DEF TypeOK, Slots, Handles, NullHandle, Errors
  <1>2. FreeListExact
    BY DEF FreeListExact
  <1>3. LiveReachable /\ IssuedOK /\ GenerationByAge /\ Fresh
    BY DEF LiveReachable, IssuedOK, GenerationByAge, Fresh
  <1>4. Parity /\ Unused
    BY DEF Parity, Unused
  <1> QED
    BY <1>1, <1>2, <1>3, <1>4 DEF IInv

(* What acquire() has established before the slot is filled: the slot is   *)
(* empty, and the free stack describes the other empty slots exactly.      *)
LEMMA AcquireSlot ==
    ASSUME IInv, Acquire
    PROVE  \E s \in Slots :
             /\ Occupy(s)
             /\ pres[s] = 0
             /\ s <= size'
             /\ size' \in 0..MaxSlots /\ size <= size' 
             /\ \A t \in Slots : t > size /\ t <= size' => t = s
             /\ free' \in Seq(Slots)
             /\ \A i, j \in 1..Len(free') : free'[i] = free'[j] => i = j
             /\ \A i \in 1..Len(free') : free'[i] <= size /\ free'[i] # s
             /\ \A t \in 1..size : 
                  t # s => ((pres[t] = 0) <=> (\E i \in 1..Len(free') : free'[i] = t))
  <1> USE ConstantsAssumption
  <1>1. CASE AcquireReused
    <2> DEFINE s == free[Len(free)]
               n == Len(free)
    <2>1. /\ n \in Nat \ {0} /\ s \in Slots /\ s <= size /\ Occupy(s) /\ size' = size
          /\ free' = SubSeq(free, 1, n - 1)
      BY <1>1 DEF AcquireReused, IInv, TypeOK, FreeListExact
    <2>2. /\ free' \in Seq(Slots) /\ Len(free') = n - 1
          /\ \A i \in 1..(n - 1) : free'[i] = free[i]
      <3>1. \A i \in 1..(n - 1) : free[i] \in Slots
        BY <2>1 DEF IInv, TypeOK
      <3> HIDE DEF s, n
      <3>2. /\ SubSeq(free, 1, n - 1) \in Seq(Slots)
            /\ Len(SubSeq(free, 1, n - 1)) = IF 1 <= n - 1 THEN n - 1 - 1 + 1 ELSE 0
            /\ \A i \in 1..(n - 1 - 1 + 1) : SubSeq(free, 1, n - 1)[i] = free[1 + i - 1]
        BY <3>1, <2>1, 1 \in Int, n - 1 \in Int, SubSeqProperties
      <3> QED
        BY <2>1, <3>2
    <2>3. pres[s] = 0
      <3>1. size \in Nat /\ \A t \in 1..size : (pres[t] = 0) <=> (\E i \in 1..Len(free) : free[i] = t)
        BY DEF IInv, TypeOK, FreeListExact
      <3>2. s \in 1..size
        BY <2>1, <3>1 DEF Slots
      <3>3. n \in 1..Len(free) /\ free[n] = s
        BY <2>1
      <3> QED
        BY <3>1, <3>2, <3>3
    <2>4. \A i, j \in 1..Len(free') : free'[i] = free'[j] => i = j
      BY <2>1, <2>2 DEF IInv, FreeListExact
    <2>5. \A i \in 1..Len(free') : free'[i] <= size /\ free'[i] # s
      BY <2>1, <2>2 DEF IInv, FreeListExact
    <2>6. \A t \in 1..size : 
            t # s => ((pres[t] = 0) <=> (\E i \in 1..Len(free') : free'[i] = t))
      <3> SUFFICES ASSUME NEW t \in 1..size, t # s
                   PROVE (pres[t] = 0) <=> (\E i \in 1..Len(free') : free'[i] = t)
        OBVIOUS
      <3>1. (pres[t] = 0) <=> (\E i \in 1..Len(free) : free[i] = t)
        BY DEF IInv, FreeListExact
      <3>2. ASSUME NEW i \in 1..Len(free), free[i] = t PROVE i \in 1..(n - 1)
        BY <3>2, <2>1
      <3> QED
        BY <2>1, <2>2, <3>1, <3>2
    <2>7. /\ size' \in 0..MaxSlots /\ size <= size' /\ s <= size'
          /\ \A t \in Slots : t > size /\ t <= size' => t = s
      BY <2>1 DEF IInv, TypeOK, Slots
    <2> s \in Slots
      BY <2>1
    <2> WITNESS s \in Slots
    <2> HIDE DEF s, n
    <2> QED
      BY <2>1, <2>2, <2>3, <2>4, <2>5, <2>6, <2>7
  <1>2. CASE AcquireFresh
    <2> DEFINE s == size + 1
    <2>1. /\ s \in Slots /\ size' = s /\ Occupy(s) /\ free' = free /\ free = <<>>
      BY <1>2 DEF AcquireFresh, IInv, TypeOK, Slots
    <2>2. pres[s] = 0
      BY <2>1 DEF IInv, Unused, TypeOK, Slots
    <2>3. \A t \in 1..size : pres[t] # 0
      BY <2>1 DEF IInv, FreeListExact
    <2>4. s \in Nat /\ size \in Nat /\ s = size + 1 /\ s <= MaxSlots /\ free \in Seq(Slots)
      BY <2>1 DEF IInv, TypeOK, Slots
    <2>5. \A t \in 1..size : (pres[t] = 0) <=> (\E i \in 1..Len(free) : free[i] = t)
      BY DEF IInv, FreeListExact
    <2> s \in Slots
      BY <2>1
    <2> WITNESS s \in Slots
    <2> HIDE DEF s
    <2> QED
      BY <2>1, <2>2, <2>3, <2>4, <2>5 DEF Slots
  <1> QED
    BY <1>1, <1>2 DEF Acquire

LEMMA AcquireIInv == IInv /\ Acquire => IInv'
  <1> SUFFICES ASSUME IInv, Acquire PROVE IInv'
    OBVIOUS
  <1> USE Widths
  <1>p. PICK s \in Slots :
             /\ Occupy(s)
             /\ pres[s] = 0
             /\ s <= size'
             /\ size' \in 0..MaxSlots /\ size <= size'
             /\ \A t \in Slots : t > size /\ t <= size' => t = s
             /\ free' \in Seq(Slots)
             /\ \A i, j \in 1..Len(free') : free'[i] = free'[j] => i = j
             /\ \A i \in 1..Len(free') : free'[i] <= size /\ free'[i] # s
             /\ \A t \in 1..size :
                  t # s => ((pres[t] = 0) <=> (\E i \in 1..Len(free') : free'[i] = t))
    BY AcquireSlot
  <1>a. /\ size \in Nat /\ made \in Nat /\ made + 1 \in 1..MaxObj
        /\ generation[s] \in 0..(GenMod - 1) /\ generation[s] \in 0..Period /\ bumps[s] \in Nat
    BY DEF IInv, TypeOK, Acquire
  <1>b. PICK o \in 1..MaxObj : o = made + 1
    BY <1>a
  <1>c. PICK g \in 1..Period : g = Bump(generation[s])
    BY <1>a, BumpStep
  <1>d. /\ generation[s] < Period => g = generation[s] + 1
        /\ generation[s] = Period => g = 1
    BY <1>a, <1>c, BumpStep
  <1>e. size' \in Nat /\ size <= size' /\ s \in 1..size' /\ size' <= MaxSlots
    BY <1>p DEF Slots
  <1>1. /\ g \in 1..Period /\ o \in 1..MaxObj /\ made \in Nat /\ size \in Nat
        /\ generation[s] \in 0..Period /\ bumps[s] \in Nat
        /\ generation[s] < Period => g = generation[s] + 1
        /\ generation[s] = Period => g = 1
        /\ o \notin 1..made /\ o = made + 1 /\ size' \in Nat /\ size <= size'
        /\ s \in 1..size' /\ size' <= MaxSlots
    BY <1>a, <1>b, <1>c, <1>d, <1>e
  <1>2. /\ generation' = [generation EXCEPT ![s] = g]
        /\ pres' = [pres EXCEPT ![s] = o]
        /\ made' = o
        /\ issued' = [issued EXCEPT ![o] = [index |-> s, generation |-> g]]
        /\ bumps' = [bumps EXCEPT ![s] = bumps[s] + 1]
        /\ stamp' = [stamp EXCEPT ![o] = bumps[s] + 1]
        /\ strong' = strong /\ ec' = ec
    BY <1>p, <1>b, <1>c DEF Occupy, Acquire, IInv, TypeOK
  <1>3. TypeOK'
    <2>1. [index |-> s, generation |-> g] \in Handles /\ bumps[s] + 1 \in Nat /\ g \in 0..Period
      BY <1>1, <1>p DEF Handles, Slots
    <2>2. TypeOK
      BY DEF IInv
    <2>3. /\ generation' \in [Slots -> 0..(GenMod - 1)] /\ pres' \in [Slots -> 0..MaxObj]
          /\ bumps' \in [Slots -> Nat]
      BY <1>1, <1>2, <2>1, <2>2 DEF TypeOK
    <2>4. issued' \in [1..MaxObj -> Handles] /\ stamp' \in [1..MaxObj -> Nat]
      BY <1>1, <1>2, <2>1, <2>2 DEF TypeOK
    <2>5. /\ size' \in 0..MaxSlots /\ free' \in Seq(Slots) /\ made' \in 0..MaxObj
      BY <1>1, <1>2, <1>p
    <2>6. /\ strong' \in [Clients -> 0..MaxObj] /\ ec' \in Errors
      BY <1>2, <2>2 DEF TypeOK
    <2> QED
      BY <2>3, <2>4, <2>5, <2>6 DEF TypeOK
  <1>4. \A p \in 1..made :
          /\ issued'[p] = issued[p] /\ stamp'[p] = stamp[p] /\ p \in 1..MaxObj
          /\ issued[p].index \in Slots /\ issued[p].index \in 1..size /\ issued[p].index \in 1..size'
          /\ issued[p].generation \in 1..Period
          /\ stamp[p] \in Nat /\ bumps[issued[p].index] \in Nat /\ Age(p) \in Nat
          /\ stamp[p] <= bumps[issued[p].index]
    <2> TAKE p \in 1..made
    <2>1. p \in 1..MaxObj /\ p # o
      BY <1>1 DEF IInv, TypeOK
    <2>2. issued'[p] = issued[p] /\ stamp'[p] = stamp[p]
      BY <2>1, <1>2 DEF IInv, TypeOK
    <2>3. /\ issued[p].index \in 1..size /\ issued[p].generation \in 1..Period
          /\ stamp[p] <= bumps[issued[p].index]
      BY DEF IInv, IssuedOK
    <2>4. issued[p].index \in Slots /\ issued[p].index \in 1..size'
      BY <2>3, <1>1 DEF Slots
    <2>5. stamp[p] \in Nat /\ bumps[issued[p].index] \in Nat
      BY <2>1, <2>4 DEF IInv, TypeOK
    <2> QED
      BY <2>1, <2>2, <2>3, <2>4, <2>5 DEF Age
  <1>5. /\ issued'[o] = [index |-> s, generation |-> g]
        /\ stamp'[o] = bumps[s] + 1 /\ bumps'[s] = bumps[s] + 1
        /\ generation'[s] = g /\ pres'[s] = o
    BY <1>1, <1>2, <1>p DEF IInv, TypeOK
  <1>6. \A t \in Slots : t # s =>
          pres'[t] = pres[t] /\ generation'[t] = generation[t] /\ bumps'[t] = bumps[t]
    BY <1>2 DEF IInv, TypeOK
  <1>7. \A p \in 1..made' : p = o \/ p \in 1..made
    BY <1>1, <1>2
  <1>8. \A t \in 1..size' : t \in Slots /\ (t # s => t \in 1..size)
    <2> TAKE t \in 1..size'
    <2>1. t \in Slots
      BY <1>1 DEF Slots
    <2>2. t > size => t = s
      BY <2>1, <1>1, <1>p
    <2> QED
      BY <2>1, <2>2, <1>1
  <1>9. \A p \in 1..made :
          /\ issued[p].index # s => Age(p)' = Age(p)
          /\ issued[p].index = s => Age(p)' = Age(p) + 1
    BY <1>1, <1>4, <1>5, <1>6 DEF Age
  <1>10. Age(o)' = 0
    BY <1>1, <1>5 DEF Age
  <1>11. FreeListExact'
    <2>1. \A i \in 1..Len(free') : free'[i] <= size'
      <3> TAKE i \in 1..Len(free')
      <3>1. free'[i] \in Slots /\ free'[i] <= size
        BY <1>p
      <3> QED
        BY <3>1, <1>1 DEF Slots
    <2>2. \A t \in 1..size' : (pres'[t] = 0) <=> (\E i \in 1..Len(free') : free'[i] = t)
      <3> TAKE t \in 1..size'
      <3>1. CASE t = s
        BY <3>1, <1>1, <1>5, <1>p
      <3>2. CASE t # s
        BY <3>2, <1>6, <1>8, <1>p
      <3> QED
        BY <3>1, <3>2
    <2> QED
      BY <2>1, <2>2, <1>p DEF FreeListExact
  <1>12. LiveReachable'
    <2> SUFFICES ASSUME NEW t \in 1..size', pres'[t] # 0
                 PROVE /\ pres'[t] \in 1..made'
                       /\ issued'[pres'[t]] = [index |-> t, generation |-> generation'[t]]
      BY DEF LiveReachable
    <2>1. CASE t = s
      BY <1>1, <1>2, <1>5, <2>1
    <2>2. CASE t # s
      <3>1. /\ t \in 1..size /\ pres'[t] = pres[t] /\ generation'[t] = generation[t]
        BY <2>2, <1>8, <1>6
      <3>2. /\ pres[t] \in 1..made
            /\ issued[pres[t]] = [index |-> t, generation |-> generation[t]]
        BY <3>1 DEF IInv, LiveReachable
      <3> QED
        BY <3>1, <3>2, <1>1, <1>2, <1>4
    <2> QED
      BY <2>1, <2>2
  <1>13. IssuedOK'
    <2> SUFFICES ASSUME NEW p \in 1..made'
                 PROVE /\ issued'[p].index \in 1..size'
                       /\ issued'[p].generation \in 1..Period
                       /\ stamp'[p] <= bumps'[issued'[p].index]
      BY DEF IssuedOK, Period
    <2>1. CASE p = o
      BY <2>1, <1>1, <1>5
    <2>2. CASE p \in 1..made /\ issued[p].index = s
      BY <2>2, <1>1, <1>4, <1>5
    <2>3. CASE p \in 1..made /\ issued[p].index # s
      BY <2>3, <1>1, <1>4, <1>6
    <2> QED
      BY <2>1, <2>2, <2>3, <1>7
  <1>14. GenerationByAge'
    <2> SUFFICES ASSUME NEW p \in 1..made', Age(p)' <= 2 * Period
                 PROVE AtAge(issued'[p].generation, generation'[issued'[p].index], Age(p)')
      BY DEF GenerationByAge, Period
    <2>1. CASE p = o
      BY <2>1, <1>1, <1>5, <1>10 DEF AtAge
    <2>2. CASE p \in 1..made /\ issued[p].index # s
      BY <2>2, <1>4, <1>6, <1>9 DEF IInv, GenerationByAge
    <2>3. CASE p \in 1..made /\ issued[p].index = s
      <3>1. /\ Age(p)' = Age(p) + 1 /\ Age(p) \in Nat /\ Age(p) <= 2 * Period
            /\ issued[p].generation \in 1..Period
            /\ issued'[p] = issued[p] /\ generation'[s] = g
        BY <2>3, <1>1, <1>4, <1>5, <1>9
      <3>2. AtAge(issued[p].generation, generation[s], Age(p))
        BY <2>3, <3>1 DEF IInv, GenerationByAge
      <3> QED
        BY <2>3, <3>1, <3>2, <1>1 DEF AtAge
    <2> QED
      BY <2>1, <2>2, <2>3, <1>7
  <1>15. Parity'
    <2>1. (bumps[s] + 1) % 2 = 1
      BY <1>1, <1>p, ParityStep DEF IInv, Parity
    <2>2. \A t \in Slots : (pres'[t] # 0) <=> (bumps'[t] % 2 = 1)
      BY <2>1, <1>1, <1>5, <1>6 DEF IInv, Parity
    <2>3. \A p \in 1..made' : stamp'[p] % 2 = 1
      BY <2>1, <1>4, <1>5, <1>7 DEF IInv, Parity
    <2> QED
      BY <2>2, <2>3 DEF Parity
  <1>16. Fresh'
    <2> SUFFICES ASSUME NEW p \in 1..made', Age(p)' = 0
                 PROVE pres'[issued'[p].index] = p
      BY DEF Fresh
    <2>1. CASE p = o
      BY <2>1, <1>5
    <2>2. CASE p \in 1..made
      <3>1. issued[p].index # s /\ Age(p) = 0
        BY <2>2, <1>4, <1>9
      <3> QED
        BY <3>1, <2>2, <1>4, <1>6 DEF IInv, Fresh
    <2> QED
      BY <2>1, <2>2, <1>7
  <1>17. Unused'
    BY <1>1, <1>6 DEF IInv, Unused, Slots
  <1> QED
    BY <1>3, <1>11, <1>12, <1>13, <1>14, <1>15, <1>16, <1>17 DEF IInv

LEMMA ReleaseGrantedIInv ==
    ASSUME IInv, NEW q \in 1..made, ReleaseGranted(issued[q])
    PROVE  IInv'
  <1> USE Widths
  <1>a. /\ size \in Nat /\ size <= MaxSlots /\ made \in Nat /\ q \in 1..MaxObj
        /\ issued[q].index \in Slots /\ issued[q].index \in 1..size
    BY DEF IInv, TypeOK, IssuedOK, Slots
  <1>b. PICK s \in Slots : s = issued[q].index
    BY <1>a
  <1>c. /\ s \in 1..size /\ pres[s] # 0 /\ generation[s] = issued[q].generation
        /\ generation[s] \in 1..Period /\ bumps[s] \in Nat
    BY <1>a, <1>b DEF ReleaseGranted, IsValid, IInv, IssuedOK, TypeOK
  <1>d. PICK g \in 1..Period : g = Bump(generation[s])
    BY <1>c, BumpStep
  <1>1. /\ generation[s] < Period => g = generation[s] + 1
        /\ generation[s] = Period => g = 1
    BY <1>c, <1>d, BumpStep
  <1>2. /\ pres' = [pres EXCEPT ![s] = 0]
        /\ generation' = [generation EXCEPT ![s] = g]
        /\ bumps' = [bumps EXCEPT ![s] = bumps[s] + 1]
        /\ free' = Append(free, s)
        /\ size' = size /\ strong' = strong /\ ec' = ec /\ made' = made
        /\ issued' = issued /\ stamp' = stamp
    BY <1>b, <1>d DEF ReleaseGranted, IInv, TypeOK
  <1>3. /\ pres'[s] = 0 /\ generation'[s] = g /\ bumps'[s] = bumps[s] + 1
        /\ \A t \in Slots : t # s =>
              pres'[t] = pres[t] /\ generation'[t] = generation[t] /\ bumps'[t] = bumps[t]
    BY <1>2 DEF IInv, TypeOK
  <1>4. /\ free' \in Seq(Slots) /\ Len(free') = Len(free) + 1 /\ Len(free) \in Nat
        /\ \A i \in 1..Len(free) : free'[i] = free[i]
        /\ free'[Len(free) + 1] = s
    BY <1>2, AppendProperties DEF IInv, TypeOK
  <1>5. TypeOK'
    <2>1. TypeOK
      BY DEF IInv
    <2>2. /\ generation' \in [Slots -> 0..(GenMod - 1)] /\ pres' \in [Slots -> 0..MaxObj]
          /\ bumps' \in [Slots -> Nat]
      BY <1>2, <1>c, <2>1 DEF TypeOK
    <2> QED
      BY <1>2, <1>4, <2>1, <2>2 DEF TypeOK
  <1>6. \A i \in 1..Len(free) : free[i] # s /\ free[i] <= size
    BY <1>a, <1>b, <1>c DEF IInv, FreeListExact
  <1>7. FreeListExact'
    <2>1. \A i, j \in 1..Len(free') : free'[i] = free'[j] => i = j
      BY <1>4, <1>6 DEF IInv, FreeListExact
    <2>2. \A i \in 1..Len(free') : free'[i] <= size'
      BY <1>2, <1>4, <1>6, <1>c
    <2>3. \A t \in 1..size' : (pres'[t] = 0) <=> (\E i \in 1..Len(free') : free'[i] = t)
      <3> TAKE t \in 1..size'
      <3>1. t \in 1..size /\ t \in Slots
        BY <1>2, <1>a DEF Slots
      <3>2. (pres[t] = 0) <=> (\E i \in 1..Len(free) : free[i] = t)
        BY <3>1 DEF IInv, FreeListExact
      <3>3. CASE t = s
        BY <3>3, <1>3, <1>4
      <3>4. CASE t # s
        <4>1. (\E i \in 1..Len(free') : free'[i] = t) <=> (\E i \in 1..Len(free) : free[i] = t)
          BY <3>4, <1>4
        <4> QED
          BY <3>1, <3>2, <3>4, <4>1, <1>3
      <3> QED
        BY <3>3, <3>4
    <2> QED
      BY <2>1, <2>2, <2>3 DEF FreeListExact
  <1>8. LiveReachable'
    BY <1>2, <1>3, <1>a DEF IInv, LiveReachable, Slots
  <1>9. \A p \in 1..made :
          /\ issued[p].index \in Slots /\ issued[p].index \in 1..size
          /\ issued[p].generation \in 1..Period
          /\ stamp[p] \in Nat /\ bumps[issued[p].index] \in Nat
          /\ stamp[p] <= bumps[issued[p].index] /\ Age(p) \in Nat
          /\ issued[p].index # s => Age(p)' = Age(p)
          /\ issued[p].index = s => Age(p)' = Age(p) + 1
    <2> TAKE p \in 1..made
    <2>1. /\ issued[p].index \in 1..size /\ issued[p].generation \in 1..Period
          /\ stamp[p] <= bumps[issued[p].index]
      BY DEF IInv, IssuedOK
    <2>2. issued[p].index \in Slots /\ stamp[p] \in Nat
      BY <2>1, <1>a DEF IInv, TypeOK, Slots
    <2>3. bumps[issued[p].index] \in Nat
      BY <2>2 DEF IInv, TypeOK
    <2> QED
      BY <2>1, <2>2, <2>3, <1>2, <1>3 DEF Age
  <1>10. IssuedOK'
    <2> SUFFICES ASSUME NEW p \in 1..made'
                 PROVE /\ issued'[p].index \in 1..size'
                       /\ issued'[p].generation \in 1..Period
                       /\ stamp'[p] <= bumps'[issued'[p].index]
      BY DEF IssuedOK, Period
    <2> QED
      BY <1>2, <1>3, <1>9
  <1>11. GenerationByAge'
    <2> SUFFICES ASSUME NEW p \in 1..made, Age(p)' <= 2 * Period
                 PROVE AtAge(issued'[p].generation, generation'[issued'[p].index], Age(p)')
      BY <1>2 DEF GenerationByAge, Period
    <2>1. CASE issued[p].index # s
      BY <2>1, <1>2, <1>3, <1>9 DEF IInv, GenerationByAge
    <2>2. CASE issued[p].index = s
      <3>1. Age(p)' = Age(p) + 1 /\ Age(p) \in Nat /\ issued[p].generation \in 1..Period
        BY <2>2, <1>9
      <3>2. AtAge(issued[p].generation, generation[s], Age(p))
        BY <2>2, <3>1 DEF IInv, GenerationByAge
      <3>3. issued'[p] = issued[p] /\ generation'[issued'[p].index] = g
        BY <2>2, <1>2, <1>3
      <3>4. generation[s] \in 1..Period /\ Age(p)' <= 2 * Period
        BY <1>c
      <3> QED
        BY <3>1, <3>2, <3>3, <3>4, <1>1 DEF AtAge
    <2> QED
      BY <2>1, <2>2
  <1>12. Parity'
    <2>1. bumps[s] % 2 = 1 /\ (bumps[s] + 1) % 2 # 1
      BY <1>c, ParityStep DEF IInv, Parity
    <2> QED
      BY <2>1, <1>2, <1>3 DEF IInv, Parity
  <1>13. Fresh'
    <2> SUFFICES ASSUME NEW p \in 1..made, Age(p)' = 0
                 PROVE pres'[issued'[p].index] = p
      BY <1>2 DEF Fresh
    <2> QED
      BY <1>2, <1>3, <1>9 DEF IInv, Fresh
  <1>14. Unused'
    BY <1>2, <1>3, <1>a DEF IInv, Unused
  <1> QED
    BY <1>5, <1>7, <1>8, <1>10, <1>11, <1>12, <1>13, <1>14 DEF IInv

(* Steps that leave the pool and its history alone. *)
LEMMA PoolUnchangedIInv ==
    ASSUME IInv, UNCHANGED <<pool, history>>, TypeOK'
    PROVE  IInv'
  BY DEF pool, history, IInv, FreeListExact, LiveReachable, IssuedOK,
         GenerationByAge, Parity, Fresh, Unused, Age

LEMMA LookupType == ASSUME IInv, NEW o \in 1..made PROVE Lookup(issued[o]) \in 0..MaxObj
  <1>1. issued[o].index \in Slots
    BY Widths DEF IInv, IssuedOK, TypeOK, Slots
  <1> QED
    BY <1>1, Widths DEF Lookup, IInv, TypeOK

LEMMA NextIInv == IInv /\ [Next]_vars => IInv'
  <1> SUFFICES ASSUME IInv, [Next]_vars PROVE IInv'
    OBVIOUS
  <1>t. TypeOK /\ NullHandle.index = 0
    BY DEF IInv, NullHandle
  <1>1. CASE Acquire
    BY <1>1, AcquireIInv
  <1>2. ASSUME NEW h, ReleaseRefused(h) PROVE IInv'
    <2>1. TypeOK'
      BY <1>2, <1>t DEF ReleaseRefused, TypeOK, pool, history, Errors
    <2> QED
      BY <2>1, <1>2, PoolUnchangedIInv DEF ReleaseRefused
  <1>3. CASE ReleaseRefused(NullHandle)
    BY <1>2, <1>3
  <1>4. ASSUME NEW o \in 1..made, Release(issued[o]) PROVE IInv'
    BY <1>2, <1>4, ReleaseGrantedIInv DEF Release
  <1>5. ASSUME NEW c \in Clients, NEW o \in 1..made, Get(c, issued[o]) PROVE IInv'
    <2>1. TypeOK'
      BY <1>5, <1>t, LookupType DEF Get, TypeOK, pool, history
    <2> QED
      BY <2>1, <1>5, PoolUnchangedIInv DEF Get
  <1>6. ASSUME NEW c \in Clients, Drop(c) PROVE IInv'
    <2>1. TypeOK'
      BY <1>6, <1>t, Widths DEF Drop, TypeOK, pool, history
    <2> QED
      BY <2>1, <1>6, PoolUnchangedIInv DEF Drop
  <1>7. CASE ClearError
    <2>1. TypeOK'
      BY <1>7, <1>t DEF ClearError, TypeOK, pool, history, Errors
    <2> QED
      BY <2>1, <1>7, PoolUnchangedIInv DEF ClearError
  <1>8. CASE UNCHANGED vars
    <2>1. TypeOK'
      BY <1>8, <1>t DEF vars, TypeOK, pool, history
    <2> QED
      BY <2>1, <1>8, PoolUnchangedIInv DEF vars
  <1> QED
    BY <1>1, <1>3, <1>4, <1>5, <1>6, <1>7, <1>8 DEF Next
-----------------------------------------------------------------------------
(* The pool keeps its inductive invariant. *)
THEOREM Inductive == Spec => []IInv
  BY InitIInv, NextIInv, PTL DEF Spec

(* Every variable keeps its type, whatever handles are presented. *)
THEOREM TypeCorrect == Spec => []TypeOK
  <1>1. IInv => TypeOK
    BY DEF IInv
  <1> QED
    BY <1>1, Inductive, PTL

(* The free stack is exactly the empty slots: release() can neither lose   *)
(* a slot nor list it twice, for any order of releases.                    *)
THEOREM FreeListCorrect == Spec => []FreeListExact
  <1>1. IInv => FreeListExact
    BY DEF IInv
  <1> QED
    BY <1>1, Inductive, PTL

(* Objects in the pool stay reachable through the handle they came with.   *)
THEOREM LiveReachableCorrect == Spec => []LiveReachable
  <1>1. IInv => LiveReachable
    BY DEF IInv
  <1> QED
    BY <1>1, Inductive, PTL

LEMMA SafeFromIInv == IInv => HandleSafe
  <1> SUFFICES ASSUME IInv, NEW o \in 1..made, IsValid(issued[o]), Age(o) < 2 * (GenMod - 1)
               PROVE Lookup(issued[o]) = o
    BY DEF HandleSafe
  <1> DEFINE s == issued[o].index
  <1>1. /\ s \in Slots /\ issued[o].generation \in 1..Period /\ pres[s] # 0
        /\ generation[s] = issued[o].generation /\ stamp[o] <= bumps[s]
    BY Widths DEF IInv, IssuedOK, TypeOK, Slots, IsValid
  <1>2. bumps[s] \in Nat /\ stamp[o] \in Nat /\ bumps[s] % 2 = 1 /\ stamp[o] % 2 = 1
    BY <1>1, Widths DEF IInv, TypeOK, Parity
  <1>3. Age(o) \in Nat /\ Age(o) = bumps[s] - stamp[o] /\ Age(o) < 2 * Period
    BY <1>1, <1>2 DEF Age, Period
  <1>4. PICK k \in 1..GenMod : GenMod = 2 * k
    BY ConstantsAssumption
  <1>5. AtAge(issued[o].generation, generation[s], Age(o))
    BY <1>3, Widths DEF IInv, GenerationByAge
  <1>6. Age(o) = 0 \/ Age(o) = Period
    BY <1>1, <1>3, <1>5, Widths DEF AtAge
  <1>7. Age(o) # Period
    <2> HIDE DEF s
    <2>1. \E i \in Int : bumps[s] = 2 * i + 1
      BY <1>2
    <2>2. \E i \in Int : stamp[o] = 2 * i + 1
      BY <1>2
    <2> QED
      BY <2>1, <2>2, <1>3, <1>4, Widths
  <1>8. pres[s] = o
    BY <1>6, <1>7 DEF IInv, Fresh
  <1> QED
    BY <1>8 DEF Lookup

(* A stale handle is never mistaken for the handle of a newer object until *)
(* its slot has been reused GenMod - 1 (2^32 - 1 in the code) times.       *)
THEOREM HandlesSafe == Spec => []HandleSafe
  BY SafeFromIInv, Inductive, PTL
-----------------------------------------------------------------------------
Occupied == {s \in Slots : pres[s] # 0}

LEMMA OccupiedFinite == IsFiniteSet(Occupied)
  <1>1. IsFiniteSet(1..MaxSlots)
    BY FS_Interval, Widths
  <1>2. Occupied \subseteq 1..MaxSlots
    BY DEF Occupied, Slots
  <1> QED
    BY <1>1, <1>2, FS_Subset

LEMMA ActiveStep == IInv /\ ActiveExact /\ [Next]_vars => ActiveExact'
  <1> SUFFICES ASSUME IInv, Active = Cardinality(Occupied), [Next]_vars
               PROVE Active' = Cardinality(Occupied')
    BY DEF ActiveExact, Occupied
  <1>1. CASE Acquire
    <2>1. PICK s \in Slots : Occupy(s) /\ pres[s] = 0
      BY <1>1, AcquireSlot
    <2>2. Occupied' = Occupied \cup {s} /\ s \notin Occupied
      BY <2>1 DEF Occupy, Occupied, IInv, TypeOK
    <2>3. Active' = Active + 1
      <3>1. AcquireReused => size' = size /\ Len(free') = Len(free) - 1
        <4>1. SUFFICES ASSUME AcquireReused PROVE Len(SubSeq(free, 1, Len(free) - 1)) = Len(free) - 1
          BY DEF AcquireReused
        <4>2. /\ Len(free) \in Nat \ {0} /\ Len(free) - 1 \in Nat
              /\ \A i \in 1..(Len(free) - 1) : free[i] \in Slots
          BY <4>1 DEF AcquireReused, IInv, TypeOK
        <4>3. Len(SubSeq(free, 1, Len(free) - 1)) =
                IF 1 <= Len(free) - 1 THEN Len(free) - 1 - 1 + 1 ELSE 0
          BY <4>2, 1 \in Int, Len(free) - 1 \in Int, SubSeqProperties
        <4> DEFINE n == Len(free)
                   m == Len(SubSeq(free, 1, Len(free) - 1))
        <4>4. n \in Nat \ {0} /\ m = IF 1 <= n - 1 THEN n - 1 - 1 + 1 ELSE 0
          BY <4>2, <4>3, Zenon
        <4> HIDE DEF n, m
        <4>5. m = n - 1
          BY <4>4
        <4> QED
          BY <4>5, Zenon DEF m, n
      <3>2. AcquireFresh => size' = size + 1 /\ Len(free') = Len(free)
        BY DEF AcquireFresh
      <3> QED
        <4>1. size \in Nat /\ Len(free) \in Nat
          BY DEF IInv, TypeOK
        <4> QED
          BY <3>1, <3>2, <4>1, <1>1 DEF Acquire, Active
    <2> QED
      BY <2>2, <2>3, OccupiedFinite, FS_AddElement
  <1>2. ASSUME UNCHANGED pool PROVE Active' = Cardinality(Occupied')
    BY <1>2 DEF pool, Active, Occupied
  <1>3. ASSUME NEW q \in 1..made, ReleaseGranted(issued[q])
        PROVE Active' = Cardinality(Occupied')
    <2> DEFINE s == issued[q].index
    <2>1. s \in Slots /\ s \in Occupied
      BY <1>3, Widths DEF ReleaseGranted, IsValid, IInv, IssuedOK, TypeOK, Slots, Occupied
    <2>2. Occupied' = Occupied \ {s}
      BY <1>3, <2>1 DEF ReleaseGranted, Occupied, IInv, TypeOK
    <2>3. Active' = Active - 1
      BY <1>3, <2>1, AppendProperties DEF ReleaseGranted, Active, IInv, TypeOK
    <2> QED
      BY <2>1, <2>2, <2>3, OccupiedFinite, FS_RemoveElement
  <1>4. CASE ReleaseRefused(NullHandle)
    BY <1>2, <1>4 DEF ReleaseRefused
  <1>5. ASSUME NEW o \in 1..made, Release(issued[o]) PROVE Active' = Cardinality(Occupied')
    BY <1>2, <1>3, <1>5 DEF Release, ReleaseRefused
  <1>6. ASSUME NEW c \in Clients, Drop(c) \/ \E o \in 1..made : Get(c, issued[o])
        PROVE Active' = Cardinality(Occupied')
    BY <1>2, <1>6 DEF Drop, Get
  <1>7. CASE ClearError \/ UNCHANGED vars
    BY <1>2, <1>7 DEF ClearError, vars, pool
  <1> QED
    BY <1>1, <1>4, <1>5, <1>6, <1>7 DEF Next

(* active() is exact: capacity minus the free list never drifts from the   *)
(* number of objects the pool owns.                                        *)
THEOREM ActiveCorrect == Spec => []ActiveExact
  <1>1. Init => ActiveExact
    <2> SUFFICES ASSUME Init PROVE Active = Cardinality(Occupied)
      BY DEF ActiveExact, Occupied
    <2>1. Occupied = {}
      BY DEF Init, Occupied
    <2>2. Active = 0
      <3>1. free = <<>> /\ size = 0
        BY DEF Init
      <3>2. Len(<<>>) = 0
        OBVIOUS
      <3>3. Active = 0 - 0
        BY <3>1, <3>2, Zenon DEF Active
      <3> QED
        BY <3>3
    <2> QED
      BY <2>1, <2>2, FS_EmptySet
  <1> QED
    BY <1>1, ActiveStep, Inductive, PTL DEF Spec
-----------------------------------------------------------------------------
(* As long as no handle repeats, the objects whose handle is good are      *)
(* those their slot still owns.                                            *)
LiveIsOwned ==
    \A o \in 1..made : IsValid(issued[o]) <=> (pres[issued[o].index] = o)

LEMMA LiveIff == IInv /\ Unrepeated => LiveIsOwned
  <1> SUFFICES ASSUME IInv, Unrepeated, NEW o \in 1..made
               PROVE IsValid(issued[o]) <=> (pres[issued[o].index] = o)
    BY DEF LiveIsOwned
  <1> DEFINE s == issued[o].index
  <1>1. s \in Slots /\ s \in 1..size
    BY Widths DEF IInv, IssuedOK, TypeOK, Slots
  <1>3. Age(o) < 2 * (GenMod - 1)
    BY DEF Unrepeated
  <1>4. IsValid(issued[o]) => pres[s] = o
    BY <1>3, SafeFromIInv DEF HandleSafe, Lookup
  <1>5. pres[s] = o => IsValid(issued[o])
    <2> SUFFICES ASSUME pres[s] = o PROVE IsValid(issued[o])
      OBVIOUS
    <2>1. issued[o] = [index |-> s, generation |-> generation[s]]
      BY <1>1 DEF IInv, LiveReachable
    <2>2. issued[o].generation = generation[s]
      BY <2>1
    <2> QED
      BY <2>2, <1>1 DEF IsValid
  <1> QED
    BY <1>4, <1>5

Live == {o \in 1..made : IsValid(issued[o])}

LEMMA MadeBound == IInv => made \in Nat /\ made <= MaxObj /\ MaxObj \in Nat
  BY Widths DEF IInv, TypeOK

LEMMA SameLive == UNCHANGED <<pool, history>> => Live' = Live
  BY DEF pool, history, IsValid, Live

(* What each operation does to the objects whose handle is good.           *)
LEMMA AcquireStore ==
    ASSUME IInv, LiveIsOwned, LiveIsOwned', Acquire
    PROVE  Store!Acquire
  <1>b. made \in Nat /\ made <= MaxObj /\ MaxObj \in Nat
    BY MadeBound
  <1>c. \A o \in 1..made : o \in 1..MaxObj /\ issued[o].index \in Slots
    BY <1>b, Widths DEF IInv, TypeOK, IssuedOK, Slots
  <1>1. PICK s \in Slots : Occupy(s) /\ pres[s] = 0
    BY AcquireSlot
  <1>n. PICK n \in 1..MaxObj : n = made + 1
    BY <1>b DEF Acquire
  <1>2. /\ made' = n /\ pres'[s] = n /\ issued'[n].index = s
        /\ \A t \in Slots : t # s => pres'[t] = pres[t]
        /\ \A o \in 1..made : issued'[o] = issued[o]
        /\ made < MaxObj /\ strong' = strong /\ ec' = ec
    BY <1>b, <1>c, <1>1, <1>n DEF Acquire, Occupy, IInv, TypeOK
  <1>3. \A o \in 1..made : IsValid(issued[o])' <=> IsValid(issued[o])
    BY <1>1, <1>2, <1>n, <1>b, <1>c DEF LiveIsOwned
  <1>4. IsValid(issued[n])'
    BY <1>2, <1>n, <1>b DEF LiveIsOwned
  <1>5. \A o : o \in 1..made' <=> (o \in 1..made \/ o = n)
    BY <1>2, <1>n, <1>b
  <1>6. Live' = Live \cup {n}
    BY <1>3, <1>4, <1>5 DEF Live
  <1> QED
    BY <1>2, <1>n, <1>6, <1>b DEF Store!Acquire, Live

LEMMA ReleaseStore ==
    ASSUME IInv, LiveIsOwned, LiveIsOwned', NEW q \in 1..made, ReleaseGranted(issued[q])
    PROVE  Store!Release(q)
  <1>b. made \in Nat /\ made <= MaxObj /\ MaxObj \in Nat
    BY MadeBound
  <1>c. \A o \in 1..made : o \in 1..MaxObj /\ issued[o].index \in Slots
    BY <1>b, Widths DEF IInv, TypeOK, IssuedOK, Slots
  <1>1. /\ pres' = [pres EXCEPT ![issued[q].index] = 0]
        /\ made' = made /\ issued' = issued /\ strong' = strong /\ ec' = ec
    BY DEF ReleaseGranted
  <1>2. pres[issued[q].index] = q /\ IsValid(issued[q]) /\ q \in Live
    BY DEF ReleaseGranted, LiveIsOwned, Live
  <1>3. \A o \in 1..made :
          (pres'[issued[o].index] = o) <=> (pres[issued[o].index] = o /\ o # q)
    <2> TAKE o \in 1..made
    <2>1. o # 0 /\ issued[o].index \in Slots /\ issued[q].index \in Slots
      BY <1>b, <1>c
    <2>2. pres'[issued[o].index] = IF issued[o].index = issued[q].index
                                   THEN 0 ELSE pres[issued[o].index]
      BY <2>1, <1>1 DEF IInv, TypeOK
    <2> QED
      BY <2>1, <2>2, <1>2
  <1>4. \A o \in 1..made : IsValid(issued[o])' <=> (IsValid(issued[o]) /\ o # q)
    BY <1>1, <1>3, <1>b DEF LiveIsOwned
  <1>5. Live' = Live \ {q}
    BY <1>1, <1>4 DEF Live
  <1> QED
    BY <1>1, <1>2, <1>5 DEF Store!Release, Live

LEMMA GetStore ==
    ASSUME LiveIsOwned, NEW c, NEW o \in 1..made, Get(c, issued[o])
    PROVE  Store!Get(c, o)
  <1>1. Lookup(issued[o]) = IF o \in Live THEN o ELSE 0
    BY DEF Lookup, LiveIsOwned, Live
  <1>2. Live' = Live
    BY SameLive DEF Get
  <1> QED
    BY <1>1, <1>2 DEF Get, Store!Get, Live, history

LEMMA StoreStep ==
    ASSUME IInv, IInv', [Next]_vars, Unrepeated, Unrepeated'
    PROVE  [Store!Next]_(Store!vars)
  <1>a. (IInv /\ Unrepeated => LiveIsOwned)'
    BY LiveIff, PTL
  <1>b. LiveIsOwned /\ LiveIsOwned'
    BY <1>a, LiveIff
  <1>1. CASE Acquire
    BY <1>1, <1>b, AcquireStore DEF Store!Next
  <1>2. ASSUME NEW h, ReleaseRefused(h) PROVE Store!Refuse
    BY <1>2, SameLive DEF ReleaseRefused, Store!Refuse, history, Live
  <1>3. CASE ReleaseRefused(NullHandle)
    BY <1>2, <1>3 DEF Store!Next
  <1>4. ASSUME NEW o \in 1..made, Release(issued[o]) PROVE Store!Next
    BY <1>b, <1>2, <1>4, ReleaseStore DEF Release, Store!Next
  <1>5. ASSUME NEW c \in Clients, NEW o \in 1..made, Get(c, issued[o]) PROVE Store!Next
    BY <1>b, <1>5, GetStore DEF Store!Next
  <1>6. ASSUME NEW c \in Clients, Drop(c) PROVE Store!Next
    BY <1>6, SameLive DEF Drop, Store!Drop, Store!Next, history, Live
  <1>7. CASE ClearError
    BY <1>7, SameLive DEF ClearError, Store!ClearError, Store!Next, history, Live
  <1>8. CASE UNCHANGED vars
    BY <1>8, SameLive DEF vars, history, Store!vars, Live
  <1> QED
    BY <1>1, <1>3, <1>4, <1>5, <1>6, <1>7, <1>8 DEF Next

(* Until the generations of a slot repeat, the slots, generations and free *)
(* stack of the pool are invisible: it takes the steps of a HandleStore.   *)
THEOREM Implementation == Spec => ImplementsStore
  <1>1. Init => Store!Init
    BY DEF Init, Store!Init
  <1>2. IInv /\ IInv' /\ [Next]_vars
          => [Unrepeated /\ Unrepeated' => Store!Next]_(Store!vars)
    <2>1. IInv /\ IInv' /\ [Next]_vars /\ Unrepeated /\ Unrepeated'
            => [Store!Next]_(Store!vars)
      BY StoreStep
    <2> QED
      BY <2>1
  <1> QED
    BY <1>1, <1>2, Inductive, PTL DEF Spec, ImplementsStore
-----------------------------------------------------------------------------
(* A slot is bumped twice for an object at most, so that no handle is ever *)
(* too old if fewer objects are made than there are generations.           *)
Seldom == \A s \in Slots : bumps[s] <= 2 * made

FewInv == IInv /\ Seldom

LEMMA SeldomStep == ASSUME FewInv, [Next]_vars PROVE FewInv'
  <1>1. IInv'
    BY NextIInv DEF FewInv
  <1>b. made \in Nat /\ \A t \in Slots : bumps[t] \in Nat /\ bumps[t] <= 2 * made
    BY DEF FewInv, IInv, TypeOK, Seldom
  <1>2. CASE Acquire
    <2>1. PICK s \in Slots : Occupy(s) /\ pres[s] = 0
      BY <1>2, AcquireSlot DEF FewInv
    <2>2. /\ made' = made + 1 /\ bumps'[s] = bumps[s] + 1
          /\ \A t \in Slots : t # s => bumps'[t] = bumps[t]
      BY <2>1 DEF Occupy, FewInv, IInv, TypeOK
    <2>3. \A t \in Slots : bumps'[t] <= 2 * (made + 1)
      BY <1>b, <2>2
    <2> QED
      BY <1>1, <2>2, <2>3 DEF FewInv, Seldom
  <1>3. ASSUME NEW o \in 1..made, ReleaseGranted(issued[o]) PROVE FewInv'
    <2> DEFINE s == issued[o].index
    <2>1. s \in Slots /\ pres[s] # 0 /\ made' = made /\ bumps' = [bumps EXCEPT ![s] = @ + 1]
      BY <1>3, Widths DEF ReleaseGranted, IsValid, FewInv, IInv, IssuedOK, TypeOK, Slots
    <2>2. bumps[s] % 2 = 1
      BY <2>1 DEF FewInv, IInv, Parity
    <2>3. bumps[s] + 1 <= 2 * made
      <3>1. \A b, m \in Nat : b % 2 = 1 /\ b <= 2 * m => b + 1 <= 2 * m
        OBVIOUS
      <3> QED
        BY <1>b, <2>1, <2>2, <3>1
    <2>4. \A t \in Slots : bumps'[t] <= 2 * made
      BY <1>b, <2>1, <2>3 DEF FewInv, IInv, TypeOK
    <2> QED
      BY <1>1, <2>1, <2>4 DEF FewInv, Seldom
  <1>4. CASE made' = made /\ bumps' = bumps
    BY <1>1, <1>4 DEF FewInv, Seldom
  <1>5. \/ Acquire
        \/ made' = made /\ bumps' = bumps
        \/ \E o \in 1..made : ReleaseGranted(issued[o])
    BY DEF Next, Release, ReleaseRefused, Get, Drop, ClearError, vars, history
  <1> QED
    BY <1>2, <1>3, <1>4, <1>5

LEMMA SeldomStart == Init => FewInv
  <1>1. Init => Seldom
    BY Widths DEF Init, Seldom
  <1> QED
    BY <1>1, InitIInv DEF FewInv

LEMMA FewUnrepeated == ASSUME MaxObj < GenMod, FewInv PROVE Unrepeated
  <1> SUFFICES ASSUME NEW o \in 1..made PROVE Age(o) < 2 * (GenMod - 1)
    BY DEF Unrepeated
  <1> DEFINE s == issued[o].index
  <1>1. s \in Slots /\ o \in 1..MaxObj /\ made \in Nat /\ made <= MaxObj
    BY Widths DEF FewInv, IInv, IssuedOK, TypeOK, Slots
  <1>2. /\ bumps[s] \in Nat /\ bumps[s] <= 2 * made
        /\ stamp[o] \in Nat /\ stamp[o] % 2 = 1
    BY <1>1 DEF FewInv, Seldom, IInv, Parity, TypeOK
  <1>3. MaxObj \in Nat /\ GenMod \in Nat /\ MaxObj <= GenMod - 1
    BY Widths
  <1>4. \A b, c, m, n, g \in Nat :
            b <= 2 * m /\ m <= n /\ n <= g - 1 /\ c % 2 = 1 => b - c < 2 * (g - 1)
    OBVIOUS
  <1> QED
    BY <1>1, <1>2, <1>3, <1>4 DEF Age

LEMMA FewLive == ASSUME MaxObj < GenMod, FewInv PROVE LiveIsOwned
  BY FewUnrepeated, LiveIff DEF FewInv

LEMMA FewLiveNext == ASSUME MaxObj < GenMod, FewInv' PROVE LiveIsOwned'
  <1>1. (MaxObj < GenMod /\ FewInv => LiveIsOwned)'
    BY FewLive, PTL
  <1> QED
    BY <1>1

(* The operations as they are to whoever makes fewer objects than there    *)
(* are generations.                                                        *)
LEMMA FewAcquire ==
    ASSUME MaxObj < GenMod, FewInv, Acquire
    PROVE  FewInv' /\ Store!Acquire
  <1>1. FewInv'
    BY SeldomStep DEF Next
  <1> QED
    BY <1>1, FewLive, FewLiveNext, AcquireStore DEF FewInv

LEMMA FewRelease ==
    ASSUME MaxObj < GenMod, FewInv, NEW o \in 1..made, Release(issued[o])
    PROVE  /\ FewInv'
           /\ o \in Live => Store!Release(o)
           /\ o \notin Live => Live' = Live /\ made' = made /\ strong' = strong
  <1>1. FewInv'
    BY SeldomStep DEF Next
  <1>2. CASE o \in Live
    <2>1. ReleaseGranted(issued[o])
      BY <1>2 DEF Release, ReleaseRefused, Live
    <2> QED
      BY <1>1, <1>2, <2>1, FewLive, FewLiveNext, ReleaseStore DEF FewInv
  <1>3. CASE o \notin Live
    <2>1. ReleaseRefused(issued[o])
      BY <1>3 DEF Release, ReleaseGranted, Live
    <2> QED
      BY <1>1, <1>3, <2>1, SameLive DEF ReleaseRefused, history
  <1> QED
    BY <1>2, <1>3

LEMMA FewGet ==
    ASSUME MaxObj < GenMod, FewInv, NEW c \in Clients, NEW o \in 1..made, Get(c, issued[o])
    PROVE  FewInv' /\ Store!Get(c, o)
  <1>1. FewInv'
    BY SeldomStep DEF Next
  <1> QED
    BY <1>1, FewLive, GetStore

LEMMA FewDrop ==
    ASSUME FewInv, NEW c \in Clients, Drop(c)
    PROVE  FewInv' /\ Store!Drop(c)
  <1>1. FewInv'
    BY SeldomStep DEF Next
  <1> QED
    BY <1>1, SameLive DEF Drop, Store!Drop, history, Live

LEMMA FewStay ==
    ASSUME FewInv, UNCHANGED vars
    PROVE  FewInv' /\ Live' = Live /\ made' = made /\ strong' = strong
  <1>1. FewInv'
    BY SeldomStep
  <1> QED
    BY <1>1, SameLive DEF vars, history

(* A program that acquires fewer objects than there are generations cannot *)
(* tell the pool from a HandleStore: get() leads from a handle to the      *)
(* object acquired for it until that is released, and nowhere afterwards.  *)
THEOREM StoreOfFew == MaxObj < GenMod => (Spec => Store!Spec)
  <1> SUFFICES ASSUME MaxObj < GenMod PROVE Spec => Store!Spec
    OBVIOUS
  <1>1. Init => Store!Init
    BY DEF Init, Store!Init
  <1>2. FewInv /\ [Next]_vars => FewInv'
    BY SeldomStep
  <1>3. FewInv => Unrepeated
    BY FewUnrepeated
  <1>4. IInv /\ IInv' /\ Unrepeated /\ Unrepeated' /\ [Next]_vars => [Store!Next]_(Store!vars)
    BY StoreStep
  <1>5. FewInv => IInv
    BY DEF FewInv
  <1> QED
    BY <1>1, <1>2, <1>3, <1>4, <1>5, SeldomStart, PTL DEF Spec, Store!Spec
=============================================================================
