-------------------------- MODULE SignalSlotProofs --------------------------
(***************************************************************************)
(* Proofs about SignalSlot for every table size, set of functions and      *)
(* depth of nested emits.                                                  *)
(***************************************************************************)
EXTENDS SignalSlot, SequenceTheorems, FiniteSetTheorems, TLAPS

Frame == [i : 0..MAX_SLOTS, calling : BOOLEAN, start : SUBSET Fns,
          called : [Fns -> Nat], drops : Nat, left : SUBSET Fns]

(* Only an entry below slot_count is called, so the index has room to go   *)
(* on by one when the call returns.                                        *)
CallsInside == \A k \in DOMAIN emits : emits[k].calling => emits[k].i < MAX_SLOTS

IInv == TypeOK /\ TableExact /\ CallsInside

(* The two variables of the table keep their domains. *)
TableTypeOK == slots \in [Index -> Fns \cup {NULL}] /\ slot_count \in 0..MAX_SLOTS

(* The table stays packed and free of duplicates: connect appends what is  *)
(* not there, disconnect fills the gap with the last entry.                *)
LEMMA TableStep ==
  ASSUME TypeOK, TableExact, Next PROVE TableTypeOK' /\ TableExact'
<1> USE SignalAssumption
<1>0. TableTypeOK /\ TableExact
  BY DEF TypeOK, TableTypeOK
<1>1. ASSUME UNCHANGED <<slots, slot_count>> PROVE TableTypeOK' /\ TableExact'
  BY <1>0, <1>1 DEF TableTypeOK, TableExact
<1>2. ASSUME NEW f \in Fns, ConnectNew(f) PROVE TableTypeOK' /\ TableExact'
  <2>1. /\ slots' = [slots EXCEPT ![slot_count] = f]
        /\ slot_count' = slot_count + 1
        /\ slot_count < MAX_SLOTS
        /\ \A j \in 0..(slot_count - 1) : slots[j] # f
    BY <1>2 DEF ConnectNew, Room, Unknown, Connected
  <2>2. TableTypeOK'
    BY <1>0, <2>1 DEF TableTypeOK, Index
  <2>3. TableExact'
    BY <1>0, <2>1 DEF TableTypeOK, TableExact, Index
  <2> QED
    BY <2>2, <2>3
<1>3. ASSUME NEW f \in Fns, Disconnect(f) PROVE TableTypeOK' /\ TableExact'
  <2>1. PICK r \in 0..(slot_count - 1) :
           slots' = [slots EXCEPT ![r] = slots[slot_count - 1],
                                  ![slot_count - 1] = NULL]
    BY <1>3 DEF Disconnect, Removed
  <2>2. slot_count' = slot_count - 1
    BY <1>3 DEF Disconnect
  <2>3. TableTypeOK'
    BY <1>0, <2>1, <2>2 DEF TableTypeOK, Index
  <2>4. TableExact'
    BY <1>0, <2>1, <2>2 DEF TableTypeOK, TableExact, Index
  <2> QED
    BY <2>3, <2>4
<1>4. ASSUME NEW f \in Fns,
             ConnectKnown(f) \/ ConnectFull(f) \/ DisconnectUnknown(f)
      PROVE  TableTypeOK' /\ TableExact'
  BY <1>1, <1>4 DEF ConnectKnown, ConnectFull, DisconnectUnknown
<1>5. CASE ConnectNull \/ Emit \/ CallSlot \/ SlotReturns \/ EmitReturns
  BY <1>1, <1>5 DEF ConnectNull, Emit, CallSlot, SlotReturns, EmitReturns
<1> QED
  BY <1>2, <1>3, <1>4, <1>5 DEF Next

(* The frames of the emits under way keep their shape. *)
FramesOK == emits \in Seq(Frame) /\ CallsInside

(* A frame stays a frame under the three updates the code makes. *)
LEMMA FrameDrop ==
  ASSUME NEW e \in Frame, NEW f \in Fns
  PROVE  LET n == [e EXCEPT !.drops = @ + 1, !.left = @ \cup {f}]
         IN  n \in Frame /\ n.i = e.i /\ n.calling = e.calling
<1>1. e.drops + 1 \in Nat /\ e.left \cup {f} \in SUBSET Fns
  BY DEF Frame
<1>2. ASSUME NEW d \in Nat, NEW l \in SUBSET Fns
      PROVE  [e EXCEPT !.drops = d, !.left = l] \in Frame
  BY DEF Frame
<1> QED
  BY <1>1, <1>2 DEF Frame

LEMMA FrameCall ==
  ASSUME NEW e \in Frame, NEW f \in Fns
  PROVE  LET n == [e EXCEPT !.calling = TRUE, !.called[f] = @ + 1]
         IN  n \in Frame /\ n.i = e.i
<1>1. [e.called EXCEPT ![f] = @ + 1] \in [Fns -> Nat]
  BY DEF Frame
<1>2. ASSUME NEW c \in [Fns -> Nat]
      PROVE  [e EXCEPT !.calling = TRUE, !.called = c] \in Frame
  BY DEF Frame
<1> QED
  BY <1>1, <1>2 DEF Frame

LEMMA FrameReturn ==
  ASSUME NEW e \in Frame, NEW j \in 0..MAX_SLOTS
  PROVE  LET n == [e EXCEPT !.calling = FALSE, !.i = j]
         IN  n \in Frame /\ ~n.calling
  BY DEF Frame

(* Replacing the innermost frame. *)
LEMMA FrameUpdate ==
  ASSUME FramesOK, emits # <<>>, NEW e \in Frame, e.calling => e.i < MAX_SLOTS,
         emits' = [emits EXCEPT ![Len(emits)] = e]
  PROVE  FramesOK'
<1>1. Len(emits) \in Nat \ {0} /\ emits \in [1..Len(emits) -> Frame]
  BY EmptySeq, SeqDef DEF FramesOK
<1>2. emits' \in [1..Len(emits) -> Frame]
  BY <1>1
<1>3. emits' \in Seq(Frame)
  BY <1>1, <1>2, SeqDef
<1>4. CallsInside'
  BY <1>1 DEF FramesOK, CallsInside
<1> QED
  BY <1>3, <1>4 DEF FramesOK

(* Every action keeps the frames well formed. *)
LEMMA FramesStep ==
  ASSUME TypeOK, TableExact, CallsInside, Next PROVE FramesOK'
<1> USE SignalAssumption
<1>0. FramesOK /\ TableTypeOK
  BY DEF TypeOK, FramesOK, TableTypeOK, Frame
<1>1. ASSUME UNCHANGED emits PROVE FramesOK'
  BY <1>0, <1>1 DEF FramesOK, CallsInside
<1>2. ASSUME NEW f \in Fns,
             ConnectNew(f) \/ ConnectKnown(f) \/ ConnectFull(f)
               \/ DisconnectUnknown(f)
      PROVE  FramesOK'
  BY <1>1, <1>2 DEF ConnectNew, ConnectKnown, ConnectFull, DisconnectUnknown
<1>3. ASSUME NEW f \in Fns, Disconnect(f) PROVE FramesOK'
  <2>1. emits' = [k \in DOMAIN emits |->
                    [emits[k] EXCEPT !.drops = @ + 1, !.left = @ \cup {f}]]
    BY <1>3 DEF Disconnect
  <2>2. emits \in [1..Len(emits) -> Frame] /\ Len(emits) \in Nat
    BY <1>0, SeqDef DEF FramesOK
  <2>3. ASSUME NEW k \in 1..Len(emits)
        PROVE  emits'[k] \in Frame /\ emits'[k].i = emits[k].i
               /\ emits'[k].calling = emits[k].calling
    <3>1. PICK e \in Frame : e = emits[k]
      BY <2>2
    <3>2. emits'[k] = [e EXCEPT !.drops = @ + 1, !.left = @ \cup {f}]
      BY <2>1, <2>2, <3>1
    <3>3. PICK n : n = [e EXCEPT !.drops = @ + 1, !.left = @ \cup {f}]
      OBVIOUS
    <3>4. n \in Frame /\ n.i = e.i /\ n.calling = e.calling
      BY <3>3, FrameDrop
    <3> QED
      BY <3>1, <3>2, <3>3, <3>4
  <2>4. emits' \in [1..Len(emits) -> Frame]
    BY <2>1, <2>2, <2>3
  <2>5. emits' \in Seq(Frame)
    BY <2>2, <2>4, SeqDef
  <2>6. CallsInside'
    <3>1. DOMAIN emits' = 1..Len(emits) /\ DOMAIN emits = 1..Len(emits)
      BY <2>2, <2>4
    <3> QED
      BY <1>0, <2>3, <3>1 DEF FramesOK, CallsInside
  <2> QED
    BY <2>5, <2>6 DEF FramesOK
<1>4. CASE Emit
  <2>1. PICK e : e = NewEmit
    OBVIOUS
  <2>2. e \in Frame /\ ~e.calling
    BY <1>0, <2>1 DEF NewEmit, Frame, Connected, TableTypeOK, TableExact, Index
  <2>3. emits' = Append(emits, e)
    BY <1>4, <2>1 DEF Emit
  <2>4. /\ emits' \in Seq(Frame) /\ Len(emits') = Len(emits) + 1
        /\ \A k \in 1..Len(emits) : emits'[k] = emits[k]
        /\ emits'[Len(emits) + 1] = e
    BY <1>0, <2>2, <2>3, AppendProperties DEF FramesOK
  <2>5. CallsInside'
    <3>1. DOMAIN emits' = 1..(Len(emits) + 1) /\ DOMAIN emits = 1..Len(emits)
          /\ Len(emits) \in Nat
      BY <1>0, <2>4, LenProperties DEF FramesOK
    <3>2. ASSUME NEW k \in 1..(Len(emits) + 1), emits'[k].calling
          PROVE  emits'[k].i < MAX_SLOTS
      <4>1. CASE k \in 1..Len(emits)
        BY <1>0, <2>4, <3>1, <3>2, <4>1 DEF FramesOK, CallsInside
      <4>2. CASE k = Len(emits) + 1
        <5>1. emits'[k] = e
          BY <2>4, <4>2
        <5> QED
          BY <2>2, <3>2, <5>1, Zenon
      <4> QED
        BY <3>1, <4>1, <4>2
    <3> QED
      BY <3>1, <3>2 DEF CallsInside
  <2> QED
    BY <2>4, <2>5 DEF FramesOK
<1>5. CASE CallSlot
  <2>1. emits # <<>> /\ Top.i < slot_count /\ slots[Top.i] # NULL
    BY <1>5 DEF CallSlot, Running
  <2>2. PICK e : e = [Top EXCEPT !.calling = TRUE, !.called[slots[Top.i]] = @ + 1]
    OBVIOUS
  <2>3. Top \in Frame /\ Len(emits) \in 1..Len(emits)
    BY <1>0, <2>1, EmptySeq, SeqDef DEF FramesOK, Top
  <2>4. e \in Frame /\ e.i < MAX_SLOTS
    <3>1. PICK t \in Frame : t = Top
      BY <2>3
    <3>2. t.i \in Nat /\ t.i < MAX_SLOTS /\ t.i \in Index
      BY <1>0, <2>1, <3>1 DEF Frame, TableTypeOK, Index
    <3>3. PICK f \in Fns : f = slots[Top.i]
      BY <1>0, <2>1, <3>1, <3>2 DEF TableTypeOK
    <3>4. e = [t EXCEPT !.calling = TRUE, !.called[f] = @ + 1]
      BY <2>2, <3>1, <3>3
    <3> QED
      BY <3>2, <3>4, FrameCall
  <2>5. emits' = [emits EXCEPT ![Len(emits)] = e]
    BY <1>5, <2>2, <2>3 DEF CallSlot, Top
  <2> QED
    BY <1>0, <2>1, <2>4, <2>5, FrameUpdate
<1>6. CASE SlotReturns
  <2>1. emits # <<>> /\ Top.calling
    BY <1>6 DEF SlotReturns
  <2>2. PICK e : e = [Top EXCEPT !.calling = FALSE, !.i = Top.i + 1]
    OBVIOUS
  <2>3. Top \in Frame /\ Len(emits) \in 1..Len(emits)
    BY <1>0, <2>1, EmptySeq, SeqDef DEF FramesOK, Top
  <2>4. Top.i < MAX_SLOTS
    BY <1>0, <2>1, <2>3, SeqDef DEF FramesOK, CallsInside, Top
  <2>5. e \in Frame /\ ~e.calling
    <3>1. PICK t \in Frame : t = Top
      BY <2>3
    <3>2. t.i \in Nat /\ t.i + 1 \in 0..MAX_SLOTS
      BY <2>4, <3>1 DEF Frame
    <3>3. e = [t EXCEPT !.calling = FALSE, !.i = t.i + 1]
      BY <2>2, <3>1
    <3> QED
      BY <3>2, <3>3, FrameReturn
  <2>6. emits' = [emits EXCEPT ![Len(emits)] = e]
    BY <1>6, <2>2, <2>3 DEF SlotReturns, Advance, Top
  <2> QED
    BY <1>0, <2>1, <2>5, <2>6, FrameUpdate
<1>7. CASE EmitReturns
  <2>1. emits # <<>> /\ emits' = SubSeq(emits, 1, Len(emits) - 1)
    BY <1>7 DEF EmitReturns, Running
  <2>2. Len(emits) \in Nat \ {0}
    BY <1>0, <2>1, EmptySeq, LenProperties DEF FramesOK
  <2>3. /\ emits' \in Seq(Frame) /\ Len(emits') = Len(emits) - 1
        /\ \A k \in 1..(Len(emits) - 1) : emits'[k] = emits[k]
    <3>1. /\ emits \in Seq(Frame) /\ 1 \in Int /\ Len(emits) - 1 \in Int
          /\ \A k \in 1..(Len(emits) - 1) : emits[k] \in Frame
      BY <1>0, <2>2, LenProperties, ElementOfSeq DEF FramesOK
    <3>2. PICK n \in Int : n = Len(emits) - 1
      BY <2>2
    <3>3. n >= 0
      BY <2>2, <3>2
    <3> QED
      BY <2>1, <3>1, <3>2, <3>3, SubSeqProperties
  <2>4. CallsInside'
    BY <1>0, <2>2, <2>3, LenProperties DEF FramesOK, CallsInside
  <2> QED
    BY <2>3, <2>4 DEF FramesOK
<1>8. CASE ConnectNull
  BY <1>1, <1>8 DEF ConnectNull
<1> QED
  BY <1>2, <1>3, <1>4, <1>5, <1>6, <1>7, <1>8 DEF Next

(* The inductive invariant holds however emits and changes are nested. *)
THEOREM Inductive == Spec => []IInv
<1>1. Init => IInv
  <2> SUFFICES ASSUME Init PROVE IInv
    OBVIOUS
  <2>1. emits \in Seq(Frame) /\ DOMAIN emits = {}
    BY EmptySeq DEF Init
  <2>2. slots \in [Index -> Fns \cup {NULL}] /\ slot_count \in 0..MAX_SLOTS
    BY SignalAssumption DEF Init
  <2>3. ret \in {"EXIT_SUCCESS", "EXIT_FAILURE"}
    BY DEF Init
  <2>4. TableExact
    BY SignalAssumption DEF Init, TableExact, Index
  <2> QED
    BY <2>1, <2>2, <2>3, <2>4 DEF IInv, TypeOK, CallsInside, Frame
<1>2. IInv /\ [Next]_vars => IInv'
  <2> SUFFICES ASSUME IInv, [Next]_vars PROVE IInv'
    OBVIOUS
  <2>1. CASE Next
    <3>1. TableTypeOK' /\ TableExact' /\ FramesOK'
      BY <2>1, TableStep, FramesStep DEF IInv
    <3>2. ret' \in {"EXIT_SUCCESS", "EXIT_FAILURE"}
      BY <2>1
      DEF IInv, TypeOK, Next, ConnectNull, ConnectKnown, ConnectNew, ConnectFull,
          Disconnect, DisconnectUnknown, Emit, CallSlot, SlotReturns, EmitReturns
    <3> QED
      BY <3>1, <3>2 DEF IInv, TypeOK, TableTypeOK, FramesOK, Frame
  <2>2. CASE UNCHANGED vars
    BY <2>2 DEF vars, IInv, TypeOK, TableExact, CallsInside
  <2> QED
    BY <2>1, <2>2
<1> QED
  BY <1>1, <1>2, PTL DEF Spec

(* The table, the loop indices and the results keep their domains: no emit *)
(* reads past the MAX_SLOTS entries, whatever its slot functions do.       *)
THEOREM TypeCorrect == Spec => []TypeOK
<1>1. IInv => TypeOK
  BY DEF IInv
<1> QED
  BY <1>1, Inductive, PTL

(* The table is packed and free of duplicates at every step. *)
THEOREM TableCorrect == Spec => []TableExact
<1>1. IInv => TableExact
  BY DEF IInv
<1> QED
  BY <1>1, Inductive, PTL
-----------------------------------------------------------------------------
(* How far the loop of an emit has come: the entry being called included.  *)
Reached(e) == IF e.calling THEN e.i + 1 ELSE e.i

(* Function f stands in a table s of c entries where the loop has been.    *)
Passed(f, e, s, c) == \E j \in 0..(c - 1) : s[j] = f /\ j < Reached(e)

(* What the loop has missed: connected all along, passed and not called.   *)
Missed(e, s, c) == {f \in e.start \ e.left : e.called[f] = 0 /\ Passed(f, e, s, c)}

(* A function that stays connected moves towards the front only, so one    *)
(* that was called is never met again, and each disconnect moves at most   *)
(* one that was not called to where the loop has been.                     *)
LoopSound(e, s, c) ==
    /\ \A f \in Fns \ e.left :
          e.called[f] <= 1 /\ (e.called[f] >= 1 => Passed(f, e, s, c))
    /\ \A f \in e.start \ e.left : \E j \in 0..(c - 1) : s[j] = f
    /\ IsFiniteSet(Missed(e, s, c)) /\ Cardinality(Missed(e, s, c)) <= e.drops

LoopsSound == \A k \in DOMAIN emits : LoopSound(emits[k], slots, slot_count)

Entries == [Index -> Fns \cup {NULL}]

(* A set that grows by at most one element.                                *)
LEMMA OneMore ==
  ASSUME NEW S, IsFiniteSet(S), NEW n \in Nat, Cardinality(S) <= n, NEW x, NEW R,
         R \subseteq S \cup {x}
  PROVE  IsFiniteSet(R) /\ Cardinality(R) <= n + 1
<1>1. IsFiniteSet(S \cup {x}) /\ Cardinality(S \cup {x}) \in Nat
      /\ Cardinality(S \cup {x}) <= n + 1
  <2>1. Cardinality(S) \in Nat
    BY FS_CardinalityType
  <2>2. /\ IsFiniteSet(S \cup {x})
        /\ Cardinality(S \cup {x}) \in {Cardinality(S), Cardinality(S) + 1}
    BY FS_AddElement
  <2> QED
    BY <2>1, <2>2
<1>2. IsFiniteSet(R) /\ Cardinality(R) <= Cardinality(S \cup {x})
  BY <1>1, FS_Subset
<1>3. Cardinality(R) \in Nat
  BY <1>2, FS_CardinalityType
<1> QED
  BY <1>1, <1>2, <1>3

LEMMA NoMore ==
  ASSUME NEW S, IsFiniteSet(S), NEW n \in Nat, Cardinality(S) <= n, NEW R, R \subseteq S
  PROVE  IsFiniteSet(R) /\ Cardinality(R) <= n
<1>1. IsFiniteSet(R) /\ Cardinality(R) <= Cardinality(S)
  BY FS_Subset
<1>2. Cardinality(R) \in Nat /\ Cardinality(S) \in Nat
  BY <1>1, FS_CardinalityType
<1> QED
  BY <1>1, <1>2

(* connect: the new entry stands behind all others.                        *)
LEMMA SoundConnect ==
  ASSUME NEW e \in Frame, NEW s \in Entries, NEW c \in 0..MAX_SLOTS, NEW f \in Fns,
         c < MAX_SLOTS, \A j \in 0..(c - 1) : s[j] # f, LoopSound(e, s, c)
  PROVE  LoopSound(e, [s EXCEPT ![c] = f], c + 1)
<1> DEFINE w == [s EXCEPT ![c] = f]
<1>1. /\ \A j \in 0..(c - 1) : w[j] = s[j] /\ j \in 0..c
      /\ w[c] = f
  BY SignalAssumption DEF Entries, Index
<1>2. \A j \in 0..(c + 1 - 1) : j \in 0..(c - 1) \/ j = c
  OBVIOUS
<1>3. \A j \in 0..(c - 1) : j \in 0..(c + 1 - 1)
  OBVIOUS
<1> HIDE DEF w
<1>4. \A g : Passed(g, e, s, c) => Passed(g, e, w, c + 1)
  BY <1>1, <1>3 DEF Passed
<1>5. \A g \in e.start \ e.left : Passed(g, e, w, c + 1) => Passed(g, e, s, c)
  <2>1. \A g \in e.start \ e.left : g # f
    BY DEF LoopSound
  <2> QED
    BY <1>1, <1>2, <2>1 DEF Passed
<1>6. Missed(e, w, c + 1) \subseteq Missed(e, s, c)
  BY <1>5 DEF Missed
<1>7. IsFiniteSet(Missed(e, w, c + 1)) /\ Cardinality(Missed(e, w, c + 1)) <= e.drops
  BY <1>6, NoMore DEF LoopSound, Frame
<1>8. \A g \in e.start \ e.left : \E j \in 0..(c + 1 - 1) : w[j] = g
  BY <1>1, <1>3 DEF LoopSound
<1>9. LoopSound(e, w, c + 1)
  BY <1>4, <1>7, <1>8 DEF LoopSound
<1> QED
  BY <1>9 DEF w

(* disconnect: the last entry moves to the front, the others stay.         *)
LEMMA SoundDisconnect ==
  ASSUME NEW e \in Frame, NEW s \in Entries, NEW c \in 0..MAX_SLOTS, NEW f \in Fns,
         NEW r \in 0..(c - 1), s[r] = f, LoopSound(e, s, c),
         NEW n \in Frame, n = [e EXCEPT !.drops = @ + 1, !.left = @ \cup {f}]
  PROVE  LoopSound(n, [s EXCEPT ![r] = s[c - 1], ![c - 1] = NULL], c - 1)
<1> DEFINE w == [s EXCEPT ![r] = s[c - 1], ![c - 1] = NULL]
<1>1. /\ n.drops = e.drops + 1 /\ n.left = e.left \cup {f} /\ n.start = e.start
      /\ n.called = e.called /\ n.i = e.i /\ n.calling = e.calling /\ e.drops \in Nat
      /\ e.i \in Nat
  BY DEF Frame
<1>2. Reached(n) = Reached(e) /\ Reached(e) \in Nat
  BY <1>1 DEF Reached
<1>3. /\ \A j \in 0..(c - 1 - 1) : j # r => w[j] = s[j]
      /\ r # c - 1 => w[r] = s[c - 1]
      /\ \A j \in 0..(c - 1) : j # c - 1 => j \in 0..(c - 1 - 1)
      /\ \A j \in 0..(c - 1 - 1) : j \in 0..(c - 1) /\ j < c - 1
      /\ c - 1 \in 0..(c - 1) /\ c - 1 \in Nat
  BY SignalAssumption DEF Entries, Index
<1> HIDE DEF w
<1>4. \A g : g # f /\ (\E j \in 0..(c - 1) : s[j] = g) => \E j \in 0..(c - 1 - 1) : w[j] = g
  BY <1>3
<1>5. \A g : g # f /\ Passed(g, e, s, c) => Passed(g, n, w, c - 1)
  <2> SUFFICES ASSUME NEW g, g # f, Passed(g, e, s, c) PROVE Passed(g, n, w, c - 1)
    OBVIOUS
  <2>1. PICK j \in 0..(c - 1) : s[j] = g /\ j < Reached(e)
    BY DEF Passed
  <2>2. j # r
    BY <2>1
  <2>3. CASE j = c - 1
    <3>1. r # c - 1 /\ r < Reached(e)
      BY <1>2, <1>3, <2>1, <2>2, <2>3
    <3>2. w[r] = g /\ r \in 0..(c - 1 - 1)
      BY <1>3, <2>1, <2>3, <3>1
    <3> QED
      BY <1>2, <3>1, <3>2 DEF Passed
  <2>4. CASE j # c - 1
    <3>1. j \in 0..(c - 1 - 1) /\ w[j] = g
      BY <1>3, <2>1, <2>2, <2>4
    <3> QED
      BY <1>2, <2>1, <3>1 DEF Passed
  <2> QED
    BY <2>3, <2>4
<1>6. \A g : Passed(g, n, w, c - 1) => Passed(g, e, s, c) \/ g = s[c - 1]
  BY <1>2, <1>3 DEF Passed
<1>7. Missed(n, w, c - 1) \subseteq Missed(e, s, c) \cup {s[c - 1]}
  <2> SUFFICES ASSUME NEW g \in Missed(n, w, c - 1), g # s[c - 1]
               PROVE  g \in Missed(e, s, c)
    OBVIOUS
  <2>1. g \in n.start \ n.left /\ n.called[g] = 0 /\ Passed(g, n, w, c - 1)
    BY DEF Missed
  <2>2. g \in e.start \ e.left /\ e.called[g] = 0
    BY <1>1, <2>1
  <2>3. Passed(g, e, s, c)
    BY <1>6, <2>1
  <2> QED
    BY <2>2, <2>3 DEF Missed
<1>8. IsFiniteSet(Missed(n, w, c - 1)) /\ Cardinality(Missed(n, w, c - 1)) <= n.drops
  <2>1. IsFiniteSet(Missed(e, s, c)) /\ Cardinality(Missed(e, s, c)) <= e.drops
    BY DEF LoopSound
  <2>2. /\ IsFiniteSet(Missed(n, w, c - 1))
        /\ Cardinality(Missed(n, w, c - 1)) <= e.drops + 1
    <3>1. e.drops \in Nat
      BY <1>1
    <3> QED
      BY <3>1, <1>7, <2>1, OneMore
  <2> QED
    BY <1>1, <2>2
<1>9. \A g \in n.start \ n.left : \E j \in 0..(c - 1 - 1) : w[j] = g
  BY <1>1, <1>4 DEF LoopSound
<1>10. \A g \in Fns \ n.left :
          n.called[g] <= 1 /\ (n.called[g] >= 1 => Passed(g, n, w, c - 1))
  BY <1>1, <1>5 DEF LoopSound
<1>11. LoopSound(n, w, c - 1)
  BY <1>8, <1>9, <1>10 DEF LoopSound
<1> QED
  BY <1>11 DEF w

(* A call: the loop has come to this entry for the first time.             *)
LEMMA SoundCall ==
  ASSUME NEW e \in Frame, NEW s \in Entries, NEW c \in 0..MAX_SLOTS, NEW f \in Fns,
         ~e.calling, e.i < c, s[e.i] = f, LoopSound(e, s, c),
         \A a, b \in 0..(c - 1) : s[a] = s[b] => a = b,
         NEW n \in Frame, n = [e EXCEPT !.calling = TRUE, !.called[f] = @ + 1]
  PROVE  LoopSound(n, s, c)
<1>1. /\ n.drops = e.drops /\ n.left = e.left /\ n.start = e.start /\ n.i = e.i
      /\ n.calling /\ e.i \in Nat /\ e.drops \in Nat /\ e.i \in 0..(c - 1)
      /\ e.called \in [Fns -> Nat] /\ n.called = [e.called EXCEPT ![f] = @ + 1]
  BY DEF Frame
<1>2. Reached(n) = e.i + 1 /\ Reached(e) = e.i
  BY <1>1 DEF Reached
<1>3. Passed(f, n, s, c) /\ ~Passed(f, e, s, c)
  BY <1>1, <1>2 DEF Passed
<1>4. \A g : Passed(g, e, s, c) => Passed(g, n, s, c)
  BY <1>1, <1>2 DEF Passed
<1>5. \A g : Passed(g, n, s, c) => g = f \/ Passed(g, e, s, c)
  BY <1>1, <1>2 DEF Passed
<1>6. n.called[f] = e.called[f] + 1 /\ \A g \in Fns : g # f => n.called[g] = e.called[g]
  BY <1>1
<1>7. \A g \in Fns \ n.left : n.called[g] <= 1 /\ (n.called[g] >= 1 => Passed(g, n, s, c))
  <2> SUFFICES ASSUME NEW g \in Fns \ n.left
               PROVE  n.called[g] <= 1 /\ (n.called[g] >= 1 => Passed(g, n, s, c))
    OBVIOUS
  <2>1. e.called[g] \in Nat /\ e.called[g] <= 1 /\ (e.called[g] >= 1 => Passed(g, e, s, c))
    BY <1>1 DEF LoopSound
  <2>2. CASE g = f
    BY <1>3, <1>6, <2>1, <2>2
  <2>3. CASE g # f
    BY <1>4, <1>6, <2>1, <2>3
  <2> QED
    BY <2>2, <2>3
<1>8. Missed(n, s, c) \subseteq Missed(e, s, c)
  <2>1. n.called[f] # 0 /\ \A g \in e.start : g \in Fns
    BY <1>1, <1>6 DEF Frame
  <2> QED
    BY <1>1, <1>5, <1>6, <2>1 DEF Missed
<1>9. IsFiniteSet(Missed(n, s, c)) /\ Cardinality(Missed(n, s, c)) <= n.drops
  BY <1>1, <1>8, NoMore DEF LoopSound
<1> QED
  BY <1>1, <1>7, <1>9 DEF LoopSound

(* The call returns: the loop has not come further by that.                *)
LEMMA SoundReturn ==
  ASSUME NEW e \in Frame, NEW s, NEW c, e.calling, LoopSound(e, s, c),
         NEW n \in Frame, n = [e EXCEPT !.calling = FALSE, !.i = e.i + 1]
  PROVE  LoopSound(n, s, c)
<1>1. /\ n.drops = e.drops /\ n.left = e.left /\ n.start = e.start
      /\ n.called = e.called /\ ~n.calling /\ n.i = e.i + 1
  BY DEF Frame
<1>2. Reached(n) = Reached(e)
  BY <1>1 DEF Reached
<1>3. \A g : Passed(g, n, s, c) <=> Passed(g, e, s, c)
  BY <1>2 DEF Passed
<1>4. Missed(n, s, c) = Missed(e, s, c)
  BY <1>1, <1>3 DEF Missed
<1> QED
  BY <1>1, <1>3, <1>4 DEF LoopSound

(* Another innermost frame, the others and the table being what they were. *)
LEMMA LoopUpdate ==
  ASSUME emits \in Seq(Frame), emits # <<>>, LoopsSound, UNCHANGED <<slots, slot_count>>,
         NEW n \in Frame, emits' = [emits EXCEPT ![Len(emits)] = n],
         LoopSound(n, slots, slot_count)
  PROVE  LoopsSound'
<1>1. Len(emits) \in Nat \ {0} /\ emits \in [1..Len(emits) -> Frame]
  BY EmptySeq, SeqDef
<1>2. ASSUME NEW k \in DOMAIN emits' PROVE LoopSound(emits'[k], slots, slot_count)
  <2>1. k \in DOMAIN emits /\ emits'[k] = IF k = Len(emits) THEN n ELSE emits[k]
    BY <1>1, <1>2
  <2> QED
    BY <2>1 DEF LoopsSound
<1> QED
  BY <1>2 DEF LoopsSound

(* Every action keeps the loops sound.                                     *)
LEMMA LoopsStep ==
  ASSUME IInv, LoopsSound, Next PROVE LoopsSound'
<1>0. /\ emits \in Seq(Frame) /\ slots \in Entries /\ slot_count \in 0..MAX_SLOTS
      /\ TableExact
  BY DEF IInv, TypeOK, Frame, Entries
<1>1. Len(emits) \in Nat /\ emits \in [1..Len(emits) -> Frame]
  BY <1>0, SeqDef
<1>2. ASSUME UNCHANGED <<slots, slot_count, emits>> PROVE LoopsSound'
  BY <1>2 DEF LoopsSound
<1>3. ASSUME NEW f \in Fns, ConnectNew(f) PROVE LoopsSound'
  <2>1. /\ slots' = [slots EXCEPT ![slot_count] = f] /\ slot_count' = slot_count + 1
        /\ slot_count < MAX_SLOTS /\ emits' = emits
        /\ \A j \in 0..(slot_count - 1) : slots[j] # f
    BY <1>3 DEF ConnectNew, Room, Unknown, Connected
  <2>2. ASSUME NEW k \in DOMAIN emits PROVE LoopSound(emits[k], slots', slot_count')
    <3>1. emits[k] \in Frame /\ LoopSound(emits[k], slots, slot_count)
      BY <1>1 DEF LoopsSound
    <3>2. LoopSound(emits[k], [slots EXCEPT ![slot_count] = f], slot_count + 1)
      BY <1>0, <2>1, <3>1, SoundConnect
    <3> QED
      BY <2>1, <3>2
  <2> QED
    BY <2>1, <2>2 DEF LoopsSound
<1>4. ASSUME NEW f \in Fns, Disconnect(f) PROVE LoopsSound'
  <2>1. PICK r \in 0..(slot_count - 1) :
           /\ slots[r] = f
           /\ slots' = [slots EXCEPT ![r] = slots[slot_count - 1],
                                     ![slot_count - 1] = NULL]
    BY <1>4 DEF Disconnect, Removed
  <2>2. /\ slot_count' = slot_count - 1
        /\ emits' = [k \in DOMAIN emits |->
                       [emits[k] EXCEPT !.drops = @ + 1, !.left = @ \cup {f}]]
    BY <1>4 DEF Disconnect
  <2>3. ASSUME NEW k \in DOMAIN emits PROVE LoopSound(emits'[k], slots', slot_count')
    <3>1. PICK e \in Frame : e = emits[k] /\ LoopSound(e, slots, slot_count)
      BY <1>1 DEF LoopsSound
    <3>2. emits'[k] = [e EXCEPT !.drops = @ + 1, !.left = @ \cup {f}]
      BY <2>2, <3>1
    <3>3. PICK n : n = [e EXCEPT !.drops = @ + 1, !.left = @ \cup {f}]
      OBVIOUS
    <3>4. n \in Frame
      BY <3>3, FrameDrop
    <3>5. LoopSound(n, [slots EXCEPT ![r] = slots[slot_count - 1], ![slot_count - 1] = NULL],
                    slot_count - 1)
      BY <1>0, <2>1, <3>1, <3>3, <3>4, SoundDisconnect
    <3> QED
      BY <2>1, <2>2, <3>2, <3>3, <3>5
  <2>4. DOMAIN emits' = DOMAIN emits
    BY <2>2
  <2> QED
    BY <2>3, <2>4 DEF LoopsSound
<1>5. CASE Emit
  <2>1. PICK n : n = NewEmit
    OBVIOUS
  <2>2. /\ n \in Frame /\ n.i = 0 /\ ~n.calling /\ n.start = Connected /\ n.drops = 0
        /\ n.called = [f \in Fns |-> 0]
    <3>1. Connected \in SUBSET Fns
      BY <1>0, SignalAssumption DEF Connected, Entries, TableExact, Index
    <3> QED
      BY <2>1, <3>1, SignalAssumption DEF NewEmit, Frame
  <2>3. LoopSound(n, slots, slot_count)
    <3>1. \A f : ~Passed(f, n, slots, slot_count)
      BY <2>2 DEF Passed, Reached
    <3>2. Missed(n, slots, slot_count) = {}
      BY <3>1 DEF Missed
    <3>3. \A f \in n.start : \E j \in 0..(slot_count - 1) : slots[j] = f
      BY <2>2 DEF Connected
    <3>4. \A f \in Fns : n.called[f] = 0
      BY <2>2
    <3> QED
      BY <2>2, <3>2, <3>3, <3>4, FS_EmptySet DEF LoopSound
  <2>4. emits' = Append(emits, n) /\ UNCHANGED <<slots, slot_count>>
    BY <1>5, <2>1 DEF Emit
  <2>5. /\ DOMAIN emits' = 1..(Len(emits) + 1) /\ DOMAIN emits = 1..Len(emits)
        /\ \A k \in 1..Len(emits) : emits'[k] = emits[k]
        /\ emits'[Len(emits) + 1] = n
    BY <1>0, <2>2, <2>4, AppendProperties, LenProperties
  <2>6. ASSUME NEW k \in DOMAIN emits' PROVE LoopSound(emits'[k], slots, slot_count)
    <3>1. CASE k \in DOMAIN emits
      BY <2>5, <3>1 DEF LoopsSound
    <3>2. CASE k = Len(emits) + 1
      BY <2>3, <2>5, <3>2
    <3> QED
      BY <1>1, <2>5, <3>1, <3>2
  <2> QED
    BY <2>4, <2>6 DEF LoopsSound
<1>6. CASE CallSlot
  <2>1. emits # <<>> /\ ~Top.calling /\ Top.i < slot_count /\ slots[Top.i] # NULL
    BY <1>6 DEF CallSlot, Running
  <2>2. PICK e \in Frame : e = Top /\ LoopSound(e, slots, slot_count)
    <3>1. Len(emits) \in DOMAIN emits
      BY <1>0, <1>1, <2>1, EmptySeq
    <3> QED
      BY <1>1, <3>1 DEF Top, LoopsSound
  <2>3. e.i \in Nat /\ e.i \in Index
    BY <1>0, <2>1, <2>2, SignalAssumption DEF Frame, Index
  <2>4. PICK f \in Fns : f = slots[e.i]
    BY <1>0, <2>1, <2>2, <2>3 DEF Entries
  <2>5. PICK n : n = [e EXCEPT !.calling = TRUE, !.called[f] = @ + 1]
    OBVIOUS
  <2>6. n \in Frame
    BY <2>5, FrameCall
  <2>7. LoopSound(n, slots, slot_count)
    BY <1>0, <2>1, <2>2, <2>4, <2>5, <2>6, SoundCall DEF TableExact
  <2>8. emits' = [emits EXCEPT ![Len(emits)] = n] /\ UNCHANGED <<slots, slot_count>>
    BY <1>1, <1>6, <2>2, <2>4, <2>5 DEF CallSlot, Top
  <2> QED
    BY <1>0, <2>1, <2>6, <2>7, <2>8, LoopUpdate
<1>7. CASE SlotReturns
  <2>1. emits # <<>> /\ Top.calling
    BY <1>7 DEF SlotReturns
  <2>2. PICK e \in Frame : e = Top /\ LoopSound(e, slots, slot_count) /\ e.i < MAX_SLOTS
    <3>1. Len(emits) \in DOMAIN emits
      BY <1>0, <1>1, <2>1, EmptySeq
    <3> QED
      BY <1>1, <2>1, <3>1 DEF Top, LoopsSound, IInv, CallsInside
  <2>3. PICK n : n = [e EXCEPT !.calling = FALSE, !.i = e.i + 1]
    OBVIOUS
  <2>4. n \in Frame
    <3>1. e.i + 1 \in 0..MAX_SLOTS
      BY <2>2, SignalAssumption DEF Frame
    <3> QED
      BY <2>3, <3>1, FrameReturn
  <2>5. LoopSound(n, slots, slot_count)
    BY <2>1, <2>2, <2>3, <2>4, SoundReturn
  <2>6. emits' = [emits EXCEPT ![Len(emits)] = n] /\ UNCHANGED <<slots, slot_count>>
    BY <1>1, <1>7, <2>2, <2>3 DEF SlotReturns, Advance, Top
  <2> QED
    BY <1>0, <2>1, <2>4, <2>5, <2>6, LoopUpdate
<1>8. CASE EmitReturns
  <2>1. emits # <<>> /\ emits' = SubSeq(emits, 1, Len(emits) - 1)
        /\ UNCHANGED <<slots, slot_count>>
    BY <1>8 DEF EmitReturns, Running
  <2>2. Len(emits) \in Nat \ {0}
    BY <1>0, <2>1, EmptySeq, LenProperties
  <2>3. /\ DOMAIN emits' = 1..(Len(emits) - 1) /\ DOMAIN emits = 1..Len(emits)
        /\ \A k \in 1..(Len(emits) - 1) : emits'[k] = emits[k]
    <3>1. PICK n \in Nat : n = Len(emits) - 1
      BY <2>2
    <3>2. \A k \in 1..n : emits[k] \in Frame
      BY <1>1, <3>1
    <3>3. /\ emits' \in Seq(Frame) /\ Len(emits') = n
          /\ \A k \in 1..n : emits'[k] = emits[k]
      BY <1>0, <2>1, <3>1, <3>2, SubSeqProperties
    <3> QED
      BY <1>0, <3>1, <3>3, LenProperties
  <2> QED
    BY <2>1, <2>2, <2>3 DEF LoopsSound
<1>9. ASSUME NEW f \in Fns, ConnectKnown(f) \/ ConnectFull(f) \/ DisconnectUnknown(f)
      PROVE  LoopsSound'
  BY <1>2, <1>9 DEF ConnectKnown, ConnectFull, DisconnectUnknown
<1>10. CASE ConnectNull
  BY <1>2, <1>10 DEF ConnectNull
<1> QED
  BY <1>3, <1>4, <1>5, <1>6, <1>7, <1>8, <1>9, <1>10 DEF Next

LEMMA LoopsAlways == Spec => []LoopsSound
<1>1. Init => LoopsSound
  BY DEF Init, LoopsSound
<1>2. IInv /\ LoopsSound /\ [Next]_vars => LoopsSound'
  <2>1. CASE UNCHANGED vars
    BY <2>1 DEF vars, LoopsSound
  <2> QED
    BY <2>1, LoopsStep
<1> QED
  BY <1>1, <1>2, Inductive, PTL DEF Spec

(* No emit calls a function twice, unless it was disconnected meanwhile,   *)
(* however slot functions connect, disconnect and emit.                    *)
THEOREM CalledOnceCorrect == Spec => []CalledOnce
<1>1. LoopsSound => CalledOnce
  BY DEF LoopsSound, LoopSound, CalledOnce
<1> QED
  BY <1>1, LoopsAlways, PTL

(* An emit misses at most one function for each disconnect during it.      *)
THEOREM SkipsCorrect == Spec => []SkipsBounded
<1>1. IInv /\ LoopsSound => SkipsBounded
  <2> SUFFICES ASSUME IInv, LoopsSound, NEW k \in DOMAIN emits,
                      k = Len(emits), ~emits[k].calling, Finished
               PROVE  Cardinality({f \in emits[k].start \ emits[k].left :
                                     emits[k].called[f] = 0}) <= emits[k].drops
    BY DEF SkipsBounded
  <2>1. PICK e \in Frame : e = emits[k] /\ LoopSound(e, slots, slot_count)
    <3>1. emits \in Seq(Frame)
      BY DEF IInv, TypeOK, Frame
    <3>2. emits[k] \in Frame
      BY <3>1, SeqDef
    <3> QED
      BY <3>2 DEF LoopsSound
  <2>2. e.i >= slot_count /\ e.i \in Nat /\ e.drops \in Nat /\ Reached(e) = e.i
        /\ slot_count \in Nat
    BY <2>1 DEF Finished, Top, Reached, Frame, IInv, TypeOK
  <2>3. \A f \in e.start \ e.left : Passed(f, e, slots, slot_count)
    BY <2>1, <2>2 DEF LoopSound, Passed
  <2>4. {f \in e.start \ e.left : e.called[f] = 0} = Missed(e, slots, slot_count)
    BY <2>3 DEF Missed
  <2> QED
    BY <2>1, <2>4 DEF LoopSound
<1> QED
  BY <1>1, Inductive, LoopsAlways, PTL
=============================================================================
