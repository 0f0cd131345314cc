------------------------ MODULE CircularQueueProofs ------------------------
(***************************************************************************)
(* Proofs about CircularQueue for every capacity, number of threads and    *)
(* kind of lock.                                                           *)
(***************************************************************************)
EXTENDS CircularQueue, SequenceTheorems, TLAPS

(* What a thread inside knows: its call is well formed, the test it passed *)
(* still holds, and no call runs when there is no queue.                   *)
Calls ==
    /\ \A t \in Threads : pc[t] # "idle" => op[t].kind \in {"push", "pop"}
    /\ \A t \in Threads : op[t].kind = "push" => op[t].val \in Values
    /\ \A t \in Threads : pc[t] \in {"body", "advance"} => ~Refused(t)
    /\ alive \/ \A t \in Threads : pc[t] = "idle"

IInv == TypeOK /\ Exclusion /\ Calls /\ LiveCells

(* The ring successor stays in the ring. *)
LEMMA SuccInCells == ASSUME NEW i \in Cells PROVE Succ(i) \in Cells
  BY QueueAssumption DEF Succ, Cells

(* The window has the length of the ring distance; it contains m_head      *)
(* unless the queue is empty and never m_tail.                             *)
LEMMA WindowEnds ==
  ASSUME TypeOK
  PROVE  /\ head # tail => head \in Window
         /\ tail \notin Window
  BY QueueAssumption DEF TypeOK, Window, Dist, Cells

(* The thread inside is the only one. *)
LEMMA Alone ==
  ASSUME TypeOK, Exclusion, NEW t \in Threads, pc[t] \in Inside
  PROVE  using /\ \A u \in Threads : pc[u] \in Inside => u = t
  BY DEF Exclusion, Holders

(* pop moves an element out, never a dead cell. *)
LEMMA HeadIsLive ==
  ASSUME IInv, NEW t \in Threads, pc[t] = "body", op[t].kind = "pop"
  PROVE  data[head] \in Values
<1>1. head # tail
  BY DEF IInv, Calls, Refused, IsEmpty
<1>2. head \in Window
  BY <1>1, WindowEnds DEF IInv
<1>3. \A u \in Threads : pc[u] # "advance"
  BY Alone DEF IInv, Inside
<1> QED
  BY <1>2, <1>3 DEF IInv, LiveCells, Window

(* The variables keep their domains. *)
LEMMA TypeStep == ASSUME IInv, Next PROVE TypeOK'
<1> USE QueueAssumption
<1>1. ASSUME NEW t \in Threads, Call(t) PROVE TypeOK'
  BY <1>1 DEF IInv, TypeOK, Call, OpRec, Locations
<1>2. ASSUME NEW t \in Threads, Lock(t) PROVE TypeOK'
  BY <1>2 DEF IInv, TypeOK, Lock, Locations
<1>3. ASSUME NEW t \in Threads, Refuse(t) PROVE TypeOK'
  BY <1>3 DEF IInv, TypeOK, Refuse, Locations
<1>4. ASSUME NEW t \in Threads, Enter(t) PROVE TypeOK'
  BY <1>4 DEF IInv, TypeOK, Enter, Locations
<1>5. ASSUME NEW t \in Threads, Construct(t) PROVE TypeOK'
  BY <1>5 DEF IInv, TypeOK, Construct, Calls, Locations
<1>6. ASSUME NEW t \in Threads, Move(t) PROVE TypeOK'
  <2>1. data[head] \in Values
    BY <1>6, HeadIsLive DEF Move
  <2> QED
    BY <1>6, <2>1 DEF IInv, TypeOK, Move, Locations
<1>7. ASSUME NEW t \in Threads, Throw(t) PROVE TypeOK'
  BY <1>7 DEF IInv, TypeOK, Throw, Unwind, Locations
<1>8. ASSUME NEW t \in Threads, Advance(t) PROVE TypeOK'
  BY <1>8, SuccInCells DEF IInv, TypeOK, Advance, Locations
<1>9. ASSUME NEW t \in Threads, Unlock(t) PROVE TypeOK'
  BY <1>9 DEF IInv, TypeOK, Unlock, Locations
<1>10. ASSUME NEW t \in Threads, Return(t) PROVE TypeOK'
  BY <1>10 DEF IInv, TypeOK, Return, NoOp, OpRec, Locations
<1>11. CASE Destroy
  BY <1>11 DEF IInv, TypeOK, Destroy, Cells
<1>12. CASE Create
  <2>1. head' \in Cells /\ tail' \in Cells
    BY <1>12 DEF Create, Cells
  <2>2. data' \in [Cells -> Values \cup {"raw", "moved"}]
    BY <1>12 DEF Create
  <2> QED
    BY <1>12, <2>1, <2>2 DEF IInv, TypeOK, Create
<1>13. ASSUME NEW t \in Threads, Step(t) PROVE TypeOK'
  BY <1>2, <1>3, <1>4, <1>5, <1>6, <1>7, <1>8, <1>9, <1>10, <1>13 DEF Step
<1> QED
  BY <1>1, <1>11, <1>12, <1>13 DEF Next

(* Only Lock brings a thread inside, and it needs the lock to be free; the *)
(* ways out clear it, except an exception past a hand-written release.     *)
LEMMA ExclusionStep == ASSUME IInv, Next PROVE Exclusion'
<1> USE QueueAssumption
<1>0. TypeOK /\ Exclusion /\ Calls
  BY DEF IInv
<1>1. ASSUME NEW t \in Threads, Call(t) PROVE Exclusion'
  BY <1>0, <1>1 DEF TypeOK, Exclusion, Holders, Inside, Call
<1>2. ASSUME NEW t \in Threads, Lock(t) PROVE Exclusion'
  <2>1. Holders = {}
    BY <1>0, <1>2 DEF Exclusion, Lock
  <2>2. Holders' = {t} /\ using'
    BY <1>0, <1>2, <2>1 DEF TypeOK, Holders, Inside, Lock
  <2> QED
    BY <2>2 DEF Exclusion
<1>3. ASSUME NEW t \in Threads,
             Refuse(t) \/ Enter(t) \/ Construct(t) \/ Move(t) \/ Advance(t)
      PROVE  Exclusion'
  <2>1. Holders' = Holders /\ using' = using /\ class' = class
    BY <1>0, <1>3
    DEF TypeOK, Holders, Inside, Refuse, Enter, Construct, Move, Advance
  <2> QED
    BY <1>0, <2>1 DEF Exclusion
<1>4. ASSUME NEW t \in Threads, Throw(t) PROVE Exclusion'
  <2>1. pc[t] \in Inside /\ class \in Throwing /\ class' = class /\ using' = using
    BY <1>4 DEF Throw, Inside
  <2>2. CASE class = "LK"
    <3>1. Holders' = Holders
      BY <1>0, <1>4, <2>2 DEF TypeOK, Holders, Inside, Throw, Unwind
    <3> QED
      BY <1>0, <2>1, <3>1 DEF Exclusion
  <2>3. CASE class # "LK"
    <3>1. Holders' = Holders \ {t}
      BY <1>0, <1>4, <2>3 DEF TypeOK, Holders, Inside, Throw, Unwind
    <3> QED
      BY <1>0, <2>1, <2>3, <3>1 DEF Exclusion
  <2> QED
    BY <2>2, <2>3
<1>5. ASSUME NEW t \in Threads, Unlock(t) PROVE Exclusion'
  <2>1. Holders' = Holders \ {t} /\ t \in Holders /\ ~using'
    BY <1>0, <1>5 DEF TypeOK, Holders, Inside, Unlock
  <2> QED
    BY <1>0, <2>1 DEF Exclusion
<1>6. ASSUME NEW t \in Threads, Return(t) PROVE Exclusion'
  BY <1>0, <1>6 DEF TypeOK, Exclusion, Holders, Inside, Return
<1>7. CASE Destroy
  BY <1>0, <1>7 DEF TypeOK, Exclusion, Holders, Inside, Destroy
<1>8. CASE Create
  <2>1. Holders = {} /\ Holders' = {}
    BY <1>0, <1>8 DEF Calls, Holders, Inside, Create
  <2> QED
    BY <1>8, <2>1 DEF Exclusion, Create
<1> QED
  BY <1>1, <1>2, <1>3, <1>4, <1>5, <1>6, <1>7, <1>8 DEF Next, Step

(* A step of the thread inside does not change what the others know. *)
LEMMA CallsStep == ASSUME IInv, Next PROVE Calls'
<1> USE QueueAssumption
<1>0. TypeOK /\ Exclusion /\ Calls
  BY DEF IInv
<1>1. ASSUME NEW t \in Threads, Call(t) PROVE Calls'
  BY <1>0, <1>1 DEF TypeOK, Calls, Call, OpRec, Refused, IsFull, IsEmpty
<1>2. ASSUME NEW t \in Threads, Lock(t) PROVE Calls'
  BY <1>0, <1>2 DEF TypeOK, Calls, Lock, Refused, IsFull, IsEmpty
<1>3. ASSUME NEW t \in Threads, Refuse(t) PROVE Calls'
  BY <1>0, <1>3 DEF TypeOK, Calls, Refuse, Refused, IsFull, IsEmpty
<1>4. ASSUME NEW t \in Threads, Enter(t) PROVE Calls'
  BY <1>0, <1>4 DEF TypeOK, Calls, Enter, Refused, IsFull, IsEmpty
<1>5. ASSUME NEW t \in Threads, Construct(t) PROVE Calls'
  BY <1>0, <1>5 DEF TypeOK, Calls, Construct, Refused, IsFull, IsEmpty
<1>6. ASSUME NEW t \in Threads, Move(t) PROVE Calls'
  BY <1>0, <1>6 DEF TypeOK, Calls, Move, Refused, IsFull, IsEmpty
<1>7. ASSUME NEW t \in Threads, Throw(t) PROVE Calls'
  BY <1>0, <1>7 DEF TypeOK, Calls, Throw, Unwind, Refused, IsFull, IsEmpty
<1>8. ASSUME NEW t \in Threads, Advance(t) PROVE Calls'
  <2>1. \A u \in Threads : pc[u] \in Inside => u = t
    BY <1>0, <1>8, Alone DEF Advance, Inside
  <2>2. \A u \in Threads : pc'[u] \notin {"body", "advance"}
    BY <1>0, <1>8, <2>1 DEF TypeOK, Advance, Inside
  <2> QED
    BY <1>0, <1>8, <2>2 DEF TypeOK, Calls, Advance
<1>9. ASSUME NEW t \in Threads, Unlock(t) PROVE Calls'
  BY <1>0, <1>9 DEF TypeOK, Calls, Unlock, Refused, IsFull, IsEmpty
<1>10. ASSUME NEW t \in Threads, Return(t) PROVE Calls'
  BY <1>0, <1>10
  DEF TypeOK, Calls, Return, NoOp, OpRec, Refused, IsFull, IsEmpty
<1>11. CASE Destroy
  BY <1>0, <1>11 DEF Calls, Destroy
<1>12. CASE Create
  BY <1>0, <1>12 DEF Calls, Create
<1>13. ASSUME NEW t \in Threads, Step(t) PROVE Calls'
  BY <1>2, <1>3, <1>4, <1>5, <1>6, <1>7, <1>8, <1>9, <1>10, <1>13 DEF Step
<1> QED
  BY <1>1, <1>11, <1>12, <1>13 DEF Next

(* How the window moves with the two indices. *)
LEMMA WindowMoves ==
  ASSUME TypeOK
  PROVE  /\ \A i \in Cells :
              Succ(tail) # head =>
                (Dist(head, i) < Dist(head, Succ(tail))
                   <=> i \in Window \/ i = tail)
         /\ \A i \in Cells :
              head # tail =>
                (Dist(Succ(head), i) < Dist(Succ(head), tail)
                   <=> i \in Window /\ i # head)
  BY QueueAssumption DEF TypeOK, Window, Dist, Succ, Cells

(* Steps that leave the ring and the threads at "advance" alone. *)
LEMMA LiveCellsKept ==
  ASSUME LiveCells, UNCHANGED <<head, tail, data>>,
         \A t \in Threads : pc'[t] = "advance" <=> pc[t] = "advance",
         \A t \in Threads : pc[t] = "advance" => op'[t].kind = op[t].kind
  PROVE  LiveCells'
  BY DEF LiveCells, Window

(* construct fills the free cell at m_tail, pop empties the one at m_head, *)
(* the index that follows takes the cell into or out of the window.        *)
LEMMA LiveCellsStep == ASSUME IInv, Next PROVE LiveCells'
<1> USE QueueAssumption
<1>0. TypeOK /\ Exclusion /\ Calls /\ LiveCells
  BY DEF IInv
<1>1. ASSUME NEW t \in Threads,
             Call(t) \/ Lock(t) \/ Refuse(t) \/ Enter(t) \/ Unlock(t)
               \/ Return(t)
      PROVE  LiveCells'
  <2>1. /\ UNCHANGED <<head, tail, data>>
        /\ \A u \in Threads : pc'[u] = "advance" <=> pc[u] = "advance"
        /\ \A u \in Threads : pc[u] = "advance" => op'[u].kind = op[u].kind
    BY <1>0, <1>1
    DEF TypeOK, Call, Lock, Refuse, Enter, Unlock, Return, NoOp, OpRec
  <2> QED
    BY <1>0, <2>1, LiveCellsKept
<1>2. ASSUME NEW t \in Threads, Throw(t) PROVE LiveCells'
  <2>1. /\ UNCHANGED <<head, tail, data>>
        /\ \A u \in Threads : pc'[u] = "advance" <=> pc[u] = "advance"
        /\ \A u \in Threads : pc[u] = "advance" => op'[u].kind = op[u].kind
    BY <1>0, <1>2 DEF TypeOK, Throw, Unwind
  <2> QED
    BY <1>0, <2>1, LiveCellsKept
<1>3. ASSUME NEW t \in Threads, Construct(t) PROVE LiveCells'
  <2>1. \A u \in Threads : pc[u] # "advance"
    BY <1>0, <1>3, Alone DEF Construct, Inside
  <2>2. \A u \in Threads :
          pc'[u] = "advance" <=> u = t
    BY <1>0, <1>3, <2>1 DEF TypeOK, Construct
  <2>3. op[t].val \in Values /\ op' = op /\ op[t].kind = "push"
    BY <1>0, <1>3 DEF Calls, Construct
  <2>4. {i \in Cells : data[i] \in Values} = Window
    BY <1>0, <2>1 DEF LiveCells, Window
  <2>5. Window' = Window /\ head' = head /\ tail' = tail
    BY <1>3 DEF Construct, Window
  <2>6. {i \in Cells : data'[i] \in Values} = Window \cup {tail}
    BY <1>0, <1>3, <2>3, <2>4 DEF TypeOK, Construct
  <2> QED
    BY <2>2, <2>3, <2>5, <2>6 DEF LiveCells
<1>4. ASSUME NEW t \in Threads, Move(t) PROVE LiveCells'
  <2>1. \A u \in Threads : pc[u] # "advance"
    BY <1>0, <1>4, Alone DEF Move, Inside
  <2>2. \A u \in Threads :
          pc'[u] = "advance" <=> u = t
    BY <1>0, <1>4, <2>1 DEF TypeOK, Move
  <2>3. op'[t].kind = "pop"
    BY <1>0, <1>4 DEF TypeOK, Move
  <2>4. {i \in Cells : data[i] \in Values} = Window
    BY <1>0, <2>1 DEF LiveCells, Window
  <2>5. Window' = Window /\ head' = head /\ tail' = tail
    BY <1>4 DEF Move, Window
  <2>6. {i \in Cells : data'[i] \in Values} = Window \ {head}
    BY <1>0, <1>4, <2>4 DEF TypeOK, Move
  <2> QED
    BY <2>2, <2>3, <2>5, <2>6 DEF LiveCells
<1>5. ASSUME NEW t \in Threads, Advance(t) PROVE LiveCells'
  <2>1. \A u \in Threads : pc[u] = "advance" <=> u = t
    BY <1>0, <1>5, Alone DEF Advance, Inside
  <2>2. \A u \in Threads : pc'[u] # "advance"
    BY <1>0, <1>5, <2>1 DEF TypeOK, Advance
  <2>3. ~Refused(t) /\ data' = data
    BY <1>0, <1>5 DEF Calls, Advance
  <2>4. SUFFICES {i \in Cells : data[i] \in Values} = Window'
    BY <2>2, <2>3 DEF LiveCells, Window
  <2>5. CASE op[t].kind = "push"
    <3>1. {i \in Cells : data[i] \in Values} = Window \cup {tail}
      BY <1>0, <2>1, <2>5 DEF LiveCells
    <3>2. Succ(tail) # head /\ head' = head /\ tail' = Succ(tail)
      BY <1>5, <2>3, <2>5 DEF Refused, IsFull, Advance
    <3>3. \A i \in Cells : i \in Window' <=> i \in Window \/ i = tail
      BY <1>0, <3>2, WindowMoves DEF Window, Dist
    <3> QED
      BY <1>0, <3>1, <3>3 DEF Window, TypeOK
  <2>6. CASE op[t].kind = "pop"
    <3>1. {i \in Cells : data[i] \in Values} = Window \ {head}
      BY <1>0, <2>1, <2>6 DEF LiveCells
    <3>2. head # tail /\ head' = Succ(head) /\ tail' = tail
      BY <1>5, <2>3, <2>6 DEF Refused, IsEmpty, Advance
    <3>3. \A i \in Cells : i \in Window' <=> i \in Window /\ i # head
      BY <1>0, <3>2, WindowMoves DEF Window, Dist
    <3> QED
      BY <1>0, <3>1, <3>3 DEF Window
  <2> QED
    BY <1>5, <2>5, <2>6 DEF Advance
<1>6. CASE Destroy
  <2>1. \A u \in Threads : pc[u] # "advance" /\ pc'[u] # "advance"
    BY <1>6 DEF Destroy
  <2>2. {i \in Cells : data[i] \in Values} = Window
    BY <1>0, <2>1 DEF LiveCells, Window
  <2>3. {i \in Cells : data'[i] \in Values} = {}
    BY <1>6, <2>2 DEF Destroy, Swept
  <2>4. Window' = {}
    BY <1>0, <1>6 DEF TypeOK, Destroy, Window, Dist, Cells
  <2> QED
    BY <2>1, <2>3, <2>4 DEF LiveCells
<1>7. CASE Create
  <2>1. \A u \in Threads : pc'[u] # "advance"
    BY <1>0, <1>7 DEF Calls, Create
  <2>2. {i \in Cells : data'[i] \in Values} = {}
    BY <1>7 DEF Create
  <2>3. Window' = {}
    BY <1>7 DEF Create, Window, Dist, Cells
  <2> QED
    BY <2>1, <2>2, <2>3 DEF LiveCells
<1> QED
  BY <1>1, <1>2, <1>3, <1>4, <1>5, <1>6, <1>7 DEF Next, Step

(* The inductive invariant holds of every behaviour of either queue. *)
THEOREM Inductive == Spec => []IInv
<1>1. Init => IInv
  <2> SUFFICES ASSUME Init PROVE IInv
    OBVIOUS
  <2> USE QueueAssumption
  <2>1. TypeOK
    <3>1. head \in Cells /\ tail \in Cells
      BY DEF Init, Cells
    <3>2. data \in [Cells -> Values \cup {"raw", "moved"}]
      BY DEF Init
    <3>3. /\ using \in BOOLEAN /\ alive \in BOOLEAN /\ class \in Classes
          /\ pc \in [Threads -> Locations]
      BY DEF Init, Locations
    <3>4. op \in [Threads -> [kind : {"none", "push", "pop"},
                             val : Values \cup {"none"},
                             res : {"none", "true", "false", "thrown"}]]
      BY DEF Init, NoOp, OpRec
    <3> QED
      BY <3>1, <3>2, <3>3, <3>4 DEF TypeOK
  <2>2. Exclusion
    BY DEF Init, Exclusion, Holders, Inside
  <2>3. Calls
    BY DEF Init, Calls, NoOp, OpRec
  <2>4. LiveCells
    <3>1. {i \in Cells : data[i] \in Values} = {}
      BY DEF Init
    <3>2. Window = {}
      BY DEF Init, Window, Dist, Cells
    <3>3. \A t \in Threads : pc[t] # "advance"
      BY DEF Init
    <3> QED
      BY <3>1, <3>2, <3>3 DEF LiveCells
  <2> QED
    BY <2>1, <2>2, <2>3, <2>4 DEF IInv
<1>2. IInv /\ [Next]_vars => IInv'
  <2>1. CASE Next
    BY <2>1, TypeStep, ExclusionStep, CallsStep, LiveCellsStep DEF IInv
  <2>2. CASE UNCHANGED vars
    BY <2>2
    DEF vars, IInv, TypeOK, Exclusion, Calls, LiveCells, Window, Holders,
        Refused, IsFull, IsEmpty
  <2> QED
    BY <2>1, <2>2
<1> QED
  BY <1>1, <1>2, PTL DEF Spec

(* The indices stay inside the Cap + 1 allocated cells and a pop returns   *)
(* values only, for every capacity and any number of threads.              *)
THEOREM TypeCorrect == Spec => []TypeOK
<1>1. IInv => TypeOK
  BY DEF IInv
<1> QED
  BY <1>1, Inductive, PTL

(* The mutex and the hand-written spin lock both exclude, and either is    *)
(* held by a thread inside or was left behind by an exception.             *)
THEOREM ExclusionCorrect == Spec => []Exclusion
<1>1. IInv => Exclusion
  BY DEF IInv
<1> QED
  BY <1>1, Inductive, PTL

(* No element is overwritten, read dead or left behind by the destructor.  *)
THEOREM LiveCellsCorrect == Spec => []LiveCells
<1>1. IInv => LiveCells
  BY DEF IInv
<1> QED
  BY <1>1, Inductive, PTL
-----------------------------------------------------------------------------
(* What push has constructed is still there when m_tail moves.             *)
Constructed ==
    \A t \in Threads :
        pc[t] = "advance" /\ op[t].kind = "push" => data[tail] = op[t].val

LEMMA ConstructedStep == ASSUME IInv, Constructed, Next PROVE Constructed'
<1>0. TypeOK /\ Exclusion /\ Calls
  BY DEF IInv
<1>1. ASSUME NEW t \in Threads,
             Call(t) \/ Lock(t) \/ Refuse(t) \/ Enter(t) \/ Throw(t) \/ Unlock(t)
               \/ Return(t)
      PROVE  Constructed'
  BY <1>0, <1>1
  DEF TypeOK, Constructed, Call, Lock, Refuse, Enter, Throw, Unwind, Unlock, Return,
      NoOp, OpRec
<1>2. ASSUME NEW t \in Threads, Construct(t) \/ Move(t) PROVE Constructed'
  <2>1. \A u \in Threads : pc[u] = "advance" => u = t
    BY <1>0, <1>2, Alone DEF Construct, Move, Inside
  <2>2. \A u \in Threads : pc'[u] = "advance" => u = t
    BY <1>0, <1>2, <2>1 DEF TypeOK, Construct, Move
  <2> QED
    BY <1>0, <1>2, <2>2 DEF TypeOK, Constructed, Construct, Move
<1>3. ASSUME NEW t \in Threads, Advance(t) PROVE Constructed'
  <2>1. \A u \in Threads : pc[u] = "advance" => u = t
    BY <1>0, <1>3, Alone DEF Advance, Inside
  <2> QED
    BY <1>0, <1>3, <2>1 DEF TypeOK, Constructed, Advance
<1>4. CASE Destroy
  BY <1>4 DEF Constructed, Destroy
<1>5. CASE Create
  BY <1>0, <1>5 DEF Calls, Constructed, Create
<1> QED
  BY <1>1, <1>2, <1>3, <1>4, <1>5 DEF Next, Step

LEMMA ConstructedAlways == Spec => []Constructed
<1>1. Init => Constructed
  BY DEF Init, Constructed
<1>2. IInv /\ Constructed /\ [Next]_vars => Constructed'
  <2>1. CASE UNCHANGED vars
    BY <2>1 DEF vars, Constructed
  <2> QED
    BY <2>1, ConstructedStep
<1> QED
  BY <1>1, <1>2, Inductive, PTL DEF Spec
-----------------------------------------------------------------------------
(* The cell k places behind i. *)
Cell(i, k) == IF i + k <= Cap THEN i + k ELSE i + k - Cap - 1

LEMMA CellIsRemainder ==
  ASSUME NEW i \in Cells, NEW k \in 0..Cap
  PROVE  (i + k) % (Cap + 1) = Cell(i, k) /\ Cell(i, k) \in Cells
  BY QueueAssumption DEF Cells, Cell

(* The elements from cell i to cell j. *)
Stretch(d, i, j) == [k \in 1..Dist(i, j) |-> d[Cell(i, k - 1)]]

LEMMA DistBounds ==
  ASSUME NEW i \in Cells, NEW j \in Cells
  PROVE  Dist(i, j) \in 0..Cap /\ (Dist(i, j) = 0 <=> i = j)
         /\ (Dist(i, j) = Cap <=> Succ(j) = i)
  BY QueueAssumption DEF Cells, Dist, Succ

LEMMA StretchIsSeq ==
  ASSUME NEW d \in [Cells -> Values \cup {"raw", "moved"}], NEW i \in Cells, NEW j \in Cells
  PROVE  /\ Stretch(d, i, j) \in Seq(Values \cup {"raw", "moved"})
         /\ Len(Stretch(d, i, j)) = Dist(i, j)
         /\ \A k \in 1..Dist(i, j) : Stretch(d, i, j)[k] = d[Cell(i, k - 1)]
<1>1. Dist(i, j) \in Nat /\ \A k \in 1..Dist(i, j) : k - 1 \in 0..Cap
  BY QueueAssumption, DistBounds
<1>2. Stretch(d, i, j) \in [1..Dist(i, j) -> Values \cup {"raw", "moved"}]
  BY <1>1, CellIsRemainder DEF Stretch
<1> QED
  BY <1>1, <1>2, IsASeq, LenProperties DEF Stretch

(* An element constructed behind the last one is appended.                 *)
LEMMA StretchGrows ==
  ASSUME NEW d \in [Cells -> Values \cup {"raw", "moved"}], NEW i \in Cells, NEW j \in Cells,
         Succ(j) # i
  PROVE  Stretch(d, i, Succ(j)) = Append(Stretch(d, i, j), d[j])
<1>1. Succ(j) \in Cells /\ Dist(i, Succ(j)) = Dist(i, j) + 1 /\ Dist(i, j) \in Nat
  BY QueueAssumption DEF Cells, Succ, Dist
<1>2. Cell(i, Dist(i, j)) = j
  BY QueueAssumption DEF Cells, Cell, Dist
<1> DEFINE s == Stretch(d, i, j)
           w == Stretch(d, i, Succ(j))
<1>3. s \in Seq(Values \cup {"raw", "moved"}) /\ Len(s) = Dist(i, j)
      /\ \A k \in 1..Dist(i, j) : s[k] = d[Cell(i, k - 1)]
  BY StretchIsSeq
<1>4. w \in Seq(Values \cup {"raw", "moved"}) /\ Len(w) = Dist(i, j) + 1
      /\ \A k \in 1..(Dist(i, j) + 1) : w[k] = d[Cell(i, k - 1)]
  BY <1>1, StretchIsSeq
<1>5. d[j] \in Values \cup {"raw", "moved"}
  OBVIOUS
<1> HIDE DEF s, w
<1>6. Append(s, d[j]) \in Seq(Values \cup {"raw", "moved"}) /\ Len(Append(s, d[j])) = Len(s) + 1
      /\ (\A k \in 1..Len(s) : Append(s, d[j])[k] = s[k]) /\ Append(s, d[j])[Len(s) + 1] = d[j]
  BY <1>3, <1>5, AppendProperties
<1>7. w = Append(s, d[j])
  <2>1. Len(w) = Len(Append(s, d[j]))
    BY <1>3, <1>4, <1>6
  <2>2. ASSUME NEW k \in 1..Len(w) PROVE w[k] = Append(s, d[j])[k]
    <3>1. CASE k = Len(s) + 1
      BY <3>1, <1>1, <1>2, <1>3, <1>4, <1>6
    <3>2. CASE k # Len(s) + 1
      <4>1. k \in 1..Len(s)
        BY <3>2, <1>1, <1>3, <1>4
      <4> QED
        BY <4>1, <1>1, <1>3, <1>4, <1>6
    <3> QED
      BY <3>1, <3>2
  <2> QED
    BY <1>4, <1>6, <2>1, <2>2, SeqEqual
<1> QED
  BY <1>7 DEF s, w

(* Without the first element the tail is left.                             *)
LEMMA StretchShrinks ==
  ASSUME NEW d \in [Cells -> Values \cup {"raw", "moved"}], NEW i \in Cells, NEW j \in Cells,
         i # j
  PROVE  /\ Stretch(d, i, j) # <<>>
         /\ Head(Stretch(d, i, j)) = d[i]
         /\ Stretch(d, Succ(i), j) = Tail(Stretch(d, i, j))
<1>1. Succ(i) \in Cells /\ Dist(i, j) = Dist(Succ(i), j) + 1 /\ Dist(Succ(i), j) \in Nat
  BY QueueAssumption DEF Cells, Succ, Dist
<1>2. Cell(i, 0) = i /\ \A k \in 1..Dist(Succ(i), j) : Cell(Succ(i), k - 1) = Cell(i, k)
  BY QueueAssumption DEF Cells, Cell, Dist, Succ
<1> DEFINE s == Stretch(d, i, j)
           w == Stretch(d, Succ(i), j)
<1>3. s \in Seq(Values \cup {"raw", "moved"}) /\ Len(s) = Dist(i, j)
      /\ \A k \in 1..Dist(i, j) : s[k] = d[Cell(i, k - 1)]
  BY StretchIsSeq
<1>4. w \in Seq(Values \cup {"raw", "moved"}) /\ Len(w) = Dist(Succ(i), j)
      /\ \A k \in 1..Dist(Succ(i), j) : w[k] = d[Cell(Succ(i), k - 1)]
  BY <1>1, StretchIsSeq
<1> HIDE DEF s, w
<1>5. s # <<>>
  BY <1>1, <1>3
<1>6. Head(s) = s[1] /\ Tail(s) \in Seq(Values \cup {"raw", "moved"}) /\ Len(Tail(s)) = Len(s) - 1
      /\ \A k \in 1..Len(Tail(s)) : Tail(s)[k] = s[k + 1]
  BY <1>3, <1>5, HeadTailProperties
<1>7. Head(s) = d[i]
  BY <1>1, <1>2, <1>3, <1>6
<1>8. w = Tail(s)
  <2>1. Len(w) = Len(Tail(s))
    BY <1>1, <1>3, <1>4, <1>6
  <2>2. ASSUME NEW k \in 1..Len(w) PROVE w[k] = Tail(s)[k]
    BY <1>1, <1>2, <1>3, <1>4, <1>6, <2>1, <2>2
  <2> QED
    BY <1>4, <1>6, <2>1, <2>2, SeqEqual
<1> QED
  BY <1>5, <1>7, <1>8 DEF s, w

(* Cells outside do not matter.                                            *)
LEMMA StretchSame ==
  ASSUME NEW d, NEW e, NEW i \in Cells, NEW j \in Cells,
         \A c \in Cells : Dist(i, c) < Dist(i, j) => d[c] = e[c]
  PROVE  Stretch(d, i, j) = Stretch(e, i, j)
<1>1. \A k \in 1..Dist(i, j) :
        Cell(i, k - 1) \in Cells /\ Dist(i, Cell(i, k - 1)) < Dist(i, j)
  BY QueueAssumption DEF Cells, Cell, Dist
<1> QED
  BY <1>1 DEF Stretch

(* qBar is the stretch from the first element that is still to be popped.  *)
First == IF \E t \in Threads : pc[t] = "advance" /\ op[t].kind = "pop"
         THEN Succ(head) ELSE head

Shown == First \in Cells /\ qBar = Stretch(data, First, tail)

LEMMA QueueIsStretch == TypeOK => Shown
<1> SUFFICES ASSUME TypeOK PROVE Shown
  OBVIOUS
<1>1. First \in Cells /\ tail \in Cells
  BY SuccInCells DEF TypeOK, First
<1>2. \A k \in 1..Dist(First, tail) :
        k - 1 \in 0..Cap /\ First + k - 1 = First + (k - 1)
  BY <1>1, QueueAssumption, DistBounds DEF Cells
<1>3. \A k \in 1..Dist(First, tail) : (First + k - 1) % (Cap + 1) = Cell(First, k - 1)
  BY <1>1, <1>2, CellIsRemainder
<1> QED
  BY <1>1, <1>3 DEF Shown, qBar, First, Stretch

LEMMA QueueIsStretchNext == TypeOK' => Shown'
  BY QueueIsStretch, PTL
-----------------------------------------------------------------------------
(* A step of one thread shows in that thread's call only.                  *)
LEMMA OthersCalls ==
  ASSUME NEW t \in Threads, \A u \in Threads \ {t} : pc'[u] = pc[u] /\ op'[u] = op[u]
  PROVE  \A u \in Threads : u # t => callBar'[u] = callBar[u]
  BY DEF callBar, Effected

LEMMA SameCall ==
  ASSUME NEW t \in Threads, \A u \in Threads : u # t => callBar'[u] = callBar[u]
  PROVE  callBar' = [callBar EXCEPT ![t] = callBar'[t]]
<1> DEFINE shown == callBar
<1>1. /\ shown = [u \in Threads |-> shown[u]]
      /\ shown' = [u \in Threads |-> shown'[u]]
  BY DEF callBar
<1>2. \A u \in Threads : u # t => shown'[u] = shown[u]
  OBVIOUS
<1> HIDE DEF shown
<1>3. shown' = [shown EXCEPT ![t] = shown'[t]]
  BY <1>1, <1>2
<1> QED
  BY <1>3 DEF shown

(* Away from "advance" the queue shown is the one from head to tail.       *)
LEMMA NoneAdvances ==
  ASSUME TypeOK, \A u \in Threads : pc[u] # "advance"
  PROVE  qBar = Stretch(data, head, tail)
  BY QueueIsStretch DEF First, Shown

(* Steps that leave the queue and the calls as they are.                   *)
LEMMA InnerStep ==
  ASSUME IInv, IInv', NEW t \in Threads, Lock(t) \/ Enter(t) \/ Unlock(t)
  PROVE  UNCHANGED <<qBar, callBar>>
<1>1. /\ UNCHANGED <<head, tail, data>>
      /\ \A u \in Threads : pc'[u] = "advance" <=> pc[u] = "advance"
      /\ \A u \in Threads : op'[u] = op[u]
  BY DEF IInv, TypeOK, Lock, Enter, Unlock
<1>2. First' = First
  BY <1>1 DEF First, Succ
<1>3. qBar' = qBar
  BY <1>1, <1>2, QueueIsStretch, QueueIsStretchNext DEF IInv, Shown, Stretch, Dist, Cell
<1>4. \A u \in Threads : callBar'[u] = callBar[u]
  BY <1>1 DEF IInv, TypeOK, Lock, Enter, Unlock, callBar, Effected
<1>5. callBar' = callBar
  BY <1>4 DEF callBar
<1> QED
  BY <1>3, <1>5

(* The element is constructed where nothing is shown.                      *)
LEMMA ConstructStep ==
  ASSUME IInv, IInv', NEW t \in Threads, Construct(t)
  PROVE  UNCHANGED <<qBar, callBar>>
<1>1. \A u \in Threads : pc[u] # "advance"
  BY Alone DEF IInv, Construct, Inside
<1>2. First = head /\ First' = head /\ tail' = tail
  BY <1>1 DEF IInv, TypeOK, Construct, First
<1>3. \A c \in Cells : c # tail => data'[c] = data[c]
  BY DEF IInv, TypeOK, Construct
<1>4. ~(Dist(head, tail) < Dist(head, tail))
  BY DistBounds DEF IInv, TypeOK
<1>5. Stretch(data, head, tail) = Stretch(data', head, tail)
  BY <1>3, <1>4, StretchSame DEF IInv, TypeOK
<1>6. qBar' = qBar
  <2>1. qBar = Stretch(data, head, tail)
    BY <1>2, QueueIsStretch DEF IInv, Shown
  <2>2. qBar' = Stretch(data', head, tail)
    BY <1>2, QueueIsStretchNext DEF IInv, Shown, Stretch, Cell, Dist
  <2> QED
    BY <1>5, <2>1, <2>2
<1>7. \A u \in Threads : callBar'[u] = callBar[u]
  BY DEF IInv, TypeOK, Construct, callBar, Effected
<1>8. callBar' = callBar
  BY <1>7 DEF callBar
<1> QED
  BY <1>6, <1>8

(* A thread whose call is shown as done has answered it.                   *)
LEMMA AnswerShown ==
  ASSUME NEW t \in Threads, \A u \in Threads \ {t} : pc'[u] = pc[u] /\ op'[u] = op[u],
         NEW kind, NEW val, NEW v, NEW res, callBar[t] = Fifo!Pending(kind, val),
         callBar'[t] = [phase |-> "done", kind |-> kind, val |-> v, res |-> res]
  PROVE  Fifo!Answer(t, v, res)
<1> DEFINE r == callBar[t]
           s == [r EXCEPT !.phase = "done", !.val = v, !.res = res]
<1>1. s = [phase |-> "done", kind |-> kind, val |-> v, res |-> res]
  <2>1. /\ DOMAIN r = {"phase", "kind", "val", "res"}
        /\ r = [x \in DOMAIN r |-> r[x]]
        /\ r.kind = kind
    BY DEF Fifo!Pending
  <2> HIDE DEF r
  <2>2. DOMAIN s = DOMAIN r /\ s = [x \in DOMAIN s |-> s[x]]
    BY <2>1
  <2>3. s.phase = "done" /\ s.kind = kind /\ s.val = v /\ s.res = res
    BY <2>1
  <2> HIDE DEF s
  <2> QED
    BY <2>1, <2>2, <2>3
<1>2. callBar' = [callBar EXCEPT ![t] = callBar'[t]]
  BY OthersCalls, SameCall
<1>3. callBar' = [callBar EXCEPT ![t] = s]
  BY <1>1, <1>2
<1>4. callBar[t].phase = "called"
  BY DEF Fifo!Pending
<1> QED
  BY <1>3, <1>4 DEF Fifo!Answer

(* A push takes effect when m_tail moves, a pop has had its effect by then.*)
LEMMA AdvanceStep ==
  ASSUME IInv, IInv', Constructed, NEW t \in Threads, Advance(t)
  PROVE  Fifo!Push(t) \/ UNCHANGED <<qBar, callBar>>
<1>0. TypeOK /\ TypeOK' /\ Exclusion /\ Calls
  BY DEF IInv
<1>1. \A u \in Threads : pc[u] = "advance" <=> u = t
  BY <1>0, Alone DEF Advance, Inside
<1>2. \A u \in Threads : pc'[u] # "advance"
  BY <1>0, <1>1 DEF TypeOK, Advance
<1>3. \A u \in Threads \ {t} : pc'[u] = pc[u] /\ op'[u] = op[u]
  BY <1>0 DEF TypeOK, Advance
<1>4. qBar' = Stretch(data, head', tail')
  <2>1. First' = head' /\ data' = data
    BY <1>2 DEF Advance, First
  <2> QED
    BY <1>0, <2>1, QueueIsStretchNext DEF Shown, Stretch, Cell, Dist
<1>5. qBar = Stretch(data, First, tail)
  BY <1>0, QueueIsStretch DEF Shown
<1>6. pc'[t] = "unlock" /\ op'[t] = [op[t] EXCEPT !.res = "true"] /\ ~Refused(t)
  BY <1>0 DEF TypeOK, Calls, Advance
<1>7. callBar'[t] = [phase |-> "done", kind |-> op[t].kind, val |-> op[t].val, res |-> "true"]
  BY <1>0, <1>6 DEF TypeOK, callBar, Effected
<1>8. CASE op[t].kind = "push"
  <2>1. First = head /\ head' = head /\ tail' = Succ(tail) /\ Succ(tail) # head
    BY <1>1, <1>6, <1>8 DEF First, Advance, Refused, IsFull
  <2>2. qBar' = Append(qBar, op[t].val)
    BY <1>0, <1>1, <1>4, <1>5, <1>8, <2>1, StretchGrows DEF TypeOK, Constructed
  <2>3. Len(qBar) < Cap
    BY <1>0, <1>5, <2>1, StretchIsSeq, DistBounds, QueueAssumption DEF TypeOK
  <2>4. callBar[t] = Fifo!Pending("push", op[t].val)
    BY <1>0, <1>1, <1>8 DEF TypeOK, callBar, Effected, Fifo!Pending
  <2>5. Fifo!Answer(t, op[t].val, "true")
    BY <1>3, <1>7, <1>8, <2>4, AnswerShown
  <2>6. callBar[t].kind = "push" /\ callBar[t].val = op[t].val
    BY <2>4 DEF Fifo!Pending
  <2> QED
    BY <2>2, <2>3, <2>5, <2>6 DEF Fifo!Push
<1>9. CASE op[t].kind = "pop"
  <2>1. First = Succ(head) /\ head' = Succ(head) /\ tail' = tail
    BY <1>1, <1>9 DEF First, Advance
  <2>2. qBar' = qBar
    BY <1>4, <1>5, <2>1
  <2>3. callBar[t] = callBar'[t]
    BY <1>0, <1>1, <1>7, <1>9 DEF TypeOK, callBar, Effected
  <2>4. callBar' = callBar
    BY <1>3, <2>3, OthersCalls DEF callBar
  <2> QED
    BY <2>2, <2>4
<1> QED
  BY <1>8, <1>9 DEF Advance

(* The element is handed out as it is moved from the first cell.           *)
LEMMA MoveStep ==
  ASSUME IInv, IInv', NEW t \in Threads, Move(t)
  PROVE  Fifo!Pop(t)
<1>0. TypeOK /\ TypeOK' /\ Exclusion /\ Calls
  BY DEF IInv
<1>1. \A u \in Threads : pc[u] # "advance"
  BY <1>0, Alone DEF Move, Inside
<1>2. head # tail /\ head \in Cells /\ tail \in Cells /\ Succ(head) \in Cells
  BY <1>0, SuccInCells DEF TypeOK, Calls, Move, Refused, IsEmpty
<1>3. qBar = Stretch(data, head, tail)
  BY <1>0, <1>1, NoneAdvances
<1>4. pc'[t] = "advance" /\ op'[t] = [op[t] EXCEPT !.val = data[head]]
  BY <1>0 DEF TypeOK, Move
<1>5. op'[t].kind = "pop" /\ op'[t].val = data[head]
  BY <1>0 DEF TypeOK, Move
<1>6. qBar' = Stretch(data', Succ(head), tail)
  <2>1. First' = Succ(head) /\ tail' = tail /\ head' = head
    BY <1>4, <1>5 DEF First, Move, Succ
  <2> QED
    BY <1>0, <2>1, QueueIsStretchNext DEF Shown, Stretch, Cell, Dist
<1>7. Stretch(data, Succ(head), tail) = Stretch(data', Succ(head), tail)
  <2>1. \A c \in Cells : c # head => data'[c] = data[c]
    BY <1>0 DEF TypeOK, Move
  <2>2. \A c \in Cells : Dist(Succ(head), c) < Dist(Succ(head), tail) => c # head
    BY <1>0, <1>2, WindowMoves
  <2> QED
    BY <1>2, <2>1, <2>2, StretchSame
<1>8. qBar # <<>> /\ data[head] = Head(qBar) /\ qBar' = Tail(qBar)
  BY <1>0, <1>2, <1>3, <1>6, <1>7, StretchShrinks DEF TypeOK
<1>9. callBar[t] = Fifo!Pending("pop", op[t].val)
  BY <1>0 DEF TypeOK, Move, callBar, Effected, Fifo!Pending
<1>10. callBar'[t] = [phase |-> "done", kind |-> "pop", val |-> data[head], res |-> "true"]
  BY <1>0, <1>4, <1>5 DEF TypeOK, callBar, Effected
<1>11. Fifo!Answer(t, data[head], "true")
  <2>1. \A u \in Threads \ {t} : pc'[u] = pc[u] /\ op'[u] = op[u]
    BY <1>0 DEF TypeOK, Move
  <2> QED
    BY <1>9, <1>10, <2>1, AnswerShown
<1>12. callBar[t].kind = "pop"
  BY <1>9 DEF Fifo!Pending
<1> QED
  BY <1>8, <1>11, <1>12 DEF Fifo!Pop

(* A refusal is right: full is full, empty is empty; and what an exception *)
(* leaves has no effect.                                                   *)
LEMMA RefuseStep ==
  ASSUME IInv, IInv', NEW t \in Threads, Refuse(t) \/ Throw(t)
  PROVE  Fifo!Refuse(t) \/ Fifo!Throw(t)
<1>0. TypeOK /\ TypeOK' /\ Exclusion /\ Calls
  BY DEF IInv
<1>1. \A u \in Threads : pc[u] # "advance"
  BY <1>0, Alone DEF Refuse, Throw, Inside
<1>2. qBar = Stretch(data, head, tail) /\ Len(qBar) = Dist(head, tail)
  <2>1. qBar = Stretch(data, head, tail)
    BY <1>0, <1>1, NoneAdvances
  <2>2. /\ head \in Cells /\ tail \in Cells
        /\ data \in [Cells -> Values \cup {"raw", "moved"}]
    BY <1>0 DEF TypeOK
  <2>3. Len(Stretch(data, head, tail)) = Dist(head, tail)
    BY <2>2, StretchIsSeq
  <2> QED
    BY <2>1, <2>3
<1>3. \A u \in Threads : pc'[u] # "advance"
  BY <1>0, <1>1 DEF TypeOK, Refuse, Throw, Unwind
<1>4. qBar' = qBar
  <2>1. First' = head' /\ UNCHANGED <<head, tail, data>>
    BY <1>3 DEF First, Refuse, Throw
  <2> QED
    BY <1>0, <1>2, <2>1, QueueIsStretchNext DEF Shown, Stretch, Cell, Dist
<1>5. \A u \in Threads \ {t} : pc'[u] = pc[u] /\ op'[u] = op[u]
  BY <1>0 DEF TypeOK, Refuse, Throw
<1>6. callBar[t] = Fifo!Pending(op[t].kind, op[t].val)
  BY <1>0 DEF TypeOK, Refuse, Throw, callBar, Effected, Fifo!Pending
<1>7. callBar[t].kind = op[t].kind /\ callBar[t].val = op[t].val
  BY <1>6 DEF Fifo!Pending
<1>8. CASE Refuse(t)
  <2>1. callBar'[t] = [phase |-> "done", kind |-> op[t].kind, val |-> op[t].val, res |-> "false"]
    BY <1>0, <1>8 DEF TypeOK, Refuse, callBar, Effected
  <2>2. Fifo!Answer(t, op[t].val, "false")
    BY <1>5, <1>6, <2>1, AnswerShown
  <2>3. \/ op[t].kind = "push" /\ Len(qBar) = Cap
        \/ op[t].kind = "pop" /\ qBar = <<>>
    <3>1. CASE op[t].kind = "push" /\ IsFull
      BY <1>0, <1>2, <3>1, DistBounds DEF TypeOK, IsFull
    <3>2. CASE op[t].kind = "pop" /\ IsEmpty
      <4>1. Len(qBar) = 0
        BY <1>0, <1>2, <3>2, DistBounds DEF TypeOK, IsEmpty
      <4>2. qBar \in Seq(Values \cup {"raw", "moved"})
        BY <1>0, <1>2, StretchIsSeq DEF TypeOK
      <4> QED
        BY <3>2, <4>1, <4>2, EmptySeq
    <3> QED
      BY <1>8, <3>1, <3>2 DEF Refuse, Refused
  <2> QED
    BY <1>4, <1>7, <2>2, <2>3 DEF Fifo!Refuse
<1>9. CASE Throw(t)
  <2>1. callBar'[t] = [phase |-> "done", kind |-> op[t].kind, val |-> op[t].val, res |-> "thrown"]
    BY <1>0, <1>9 DEF TypeOK, Throw, Unwind, callBar, Effected
  <2>2. Fifo!Answer(t, op[t].val, "thrown")
    BY <1>5, <1>6, <2>1, AnswerShown
  <2> QED
    BY <1>4, <1>7, <2>2 DEF Fifo!Throw
<1> QED
  BY <1>8, <1>9

(* Entering a call and leaving one.                                        *)
LEMMA CallStep ==
  ASSUME IInv, IInv', NEW t \in Threads, Call(t)
  PROVE  Fifo!Invoke(t)
<1>0. TypeOK /\ TypeOK'
  BY DEF IInv
<1>1. \A u \in Threads : pc'[u] = "advance" <=> pc[u] = "advance"
  BY <1>0 DEF TypeOK, Call
<1>2. \A u \in Threads : pc[u] = "advance" => op'[u] = op[u]
  BY <1>0 DEF TypeOK, Call
<1>3. qBar' = qBar
  <2>1. First' = First /\ UNCHANGED <<head, tail, data>>
    BY <1>1, <1>2 DEF First, Call, Succ
  <2> QED
    BY <1>0, <2>1, QueueIsStretch, QueueIsStretchNext DEF Shown, Stretch, Dist, Cell
<1>4. \A u \in Threads \ {t} : pc'[u] = pc[u] /\ op'[u] = op[u]
  BY <1>0 DEF TypeOK, Call
<1>5. callBar' = [callBar EXCEPT ![t] = callBar'[t]]
  BY <1>4, OthersCalls, SameCall
<1>6. callBar[t] = Fifo!Idle
  BY DEF Call, callBar, Fifo!Idle
<1>7. CASE \E v \in Values : op' = [op EXCEPT ![t] = OpRec("push", v)]
  <2>1. PICK v \in Values : op' = [op EXCEPT ![t] = OpRec("push", v)]
    BY <1>7
  <2>2. callBar'[t] = Fifo!Pending("push", v)
    BY <1>0, <2>1 DEF TypeOK, Call, OpRec, callBar, Effected, Fifo!Pending
  <2> QED
    BY <1>3, <1>5, <1>6, <2>2 DEF Fifo!Invoke
<1>8. CASE op' = [op EXCEPT ![t] = OpRec("pop", "none")]
  <2>1. callBar'[t] = Fifo!Pending("pop", "none")
    BY <1>0, <1>8 DEF TypeOK, Call, OpRec, callBar, Effected, Fifo!Pending
  <2> QED
    BY <1>3, <1>5, <1>6, <2>1 DEF Fifo!Invoke
<1> QED
  BY <1>7, <1>8 DEF Call

LEMMA ReturnStep ==
  ASSUME IInv, IInv', NEW t \in Threads, Return(t)
  PROVE  Fifo!Return(t)
<1>0. TypeOK /\ TypeOK'
  BY DEF IInv
<1>1. \A u \in Threads : pc'[u] = "advance" <=> pc[u] = "advance"
  BY <1>0 DEF TypeOK, Return
<1>2. \A u \in Threads : pc[u] = "advance" => op'[u] = op[u]
  BY <1>0 DEF TypeOK, Return
<1>3. qBar' = qBar
  <2>1. First' = First /\ UNCHANGED <<head, tail, data>>
    BY <1>1, <1>2 DEF First, Return, Succ
  <2> QED
    BY <1>0, <2>1, QueueIsStretch, QueueIsStretchNext DEF Shown, Stretch, Dist, Cell
<1>4. \A u \in Threads \ {t} : pc'[u] = pc[u] /\ op'[u] = op[u]
  BY <1>0 DEF TypeOK, Return
<1>5. callBar' = [callBar EXCEPT ![t] = callBar'[t]]
  BY <1>4, OthersCalls, SameCall
<1>6. callBar[t].phase = "done"
  BY <1>0 DEF TypeOK, Return, callBar, Effected
<1>7. callBar'[t] = Fifo!Idle
  BY <1>0 DEF TypeOK, Return, callBar, Fifo!Idle
<1> QED
  BY <1>3, <1>5, <1>6, <1>7 DEF Fifo!Return

(* A queue that is destroyed, and the next one: nothing is queued, and no  *)
(* call runs.                                                              *)
LEMMA ClearStep ==
  ASSUME IInv, IInv', Destroy \/ Create
  PROVE  Fifo!Clear
<1>0. TypeOK /\ TypeOK' /\ Calls
  BY DEF IInv
<1>1. \A u \in Threads : pc[u] = "idle" /\ pc'[u] = "idle"
  BY <1>0 DEF Calls, Destroy, Create
<1>2. head' = tail' /\ head' \in Cells
  BY <1>0 DEF TypeOK, Destroy, Create
<1>3. qBar' = <<>>
  <2>1. qBar' = Stretch(data', head', tail')
    BY <1>0, <1>1, QueueIsStretchNext DEF Shown, First, Stretch, Dist, Cell
  <2>2. Dist(head', tail') = 0
    BY <1>2, DistBounds
  <2> QED
    BY <2>1, <2>2 DEF Stretch
<1>4. \A u \in Threads : callBar[u] = Fifo!Idle
  BY <1>1 DEF callBar, Fifo!Idle
<1>5. callBar' = callBar
  BY <1>1 DEF callBar
<1> QED
  BY <1>3, <1>4, <1>5 DEF Fifo!Clear

LEMMA FifoStep ==
  ASSUME IInv, IInv', Constructed, [Next]_vars
  PROVE  [Fifo!Next]_(Fifo!vars)
<1>1. ASSUME NEW t \in Threads, Call(t) \/ Step(t)
      PROVE  Fifo!Next \/ UNCHANGED <<qBar, callBar>>
  <2>1. CASE Call(t)
    BY <2>1, CallStep DEF Fifo!Next
  <2>2. CASE Lock(t) \/ Enter(t) \/ Unlock(t)
    BY <2>2, InnerStep
  <2>3. CASE Refuse(t) \/ Throw(t)
    BY <2>3, RefuseStep DEF Fifo!Next
  <2>4. CASE Construct(t)
    BY <2>4, ConstructStep
  <2>5. CASE Move(t)
    BY <2>5, MoveStep DEF Fifo!Next
  <2>6. CASE Advance(t)
    BY <2>6, AdvanceStep DEF Fifo!Next
  <2>7. CASE Return(t)
    BY <2>7, ReturnStep DEF Fifo!Next
  <2> QED
    BY <1>1, <2>1, <2>2, <2>3, <2>4, <2>5, <2>6, <2>7 DEF Step
<1>2. CASE Destroy \/ Create
  BY <1>2, ClearStep DEF Fifo!Next
<1>3. CASE UNCHANGED vars
  BY <1>3 DEF vars, Fifo!vars, qBar, callBar, Dist, Succ, Effected
<1> QED
  BY <1>1, <1>2, <1>3 DEF Next, Fifo!vars

(* Either ring is a bounded first-in first-out queue, for every capacity,  *)
(* any number of threads and whatever the element operations throw.        *)
THEOREM Implementation == Spec => ImplementsFifo
<1>1. Init => Fifo!Init
  <2> SUFFICES ASSUME Init PROVE Fifo!Init
    OBVIOUS
  <2>1. qBar = <<>>
    BY DEF Init, qBar, Dist
  <2>2. callBar = [t \in Threads |-> Fifo!Idle]
    BY DEF Init, callBar, Fifo!Idle
  <2> QED
    BY <2>1, <2>2 DEF Fifo!Init
<1>2. IInv /\ IInv' /\ Constructed /\ [Next]_vars => [Fifo!Next]_(Fifo!vars)
  BY FifoStep
<1> QED
  BY <1>1, <1>2, Inductive, ConstructedAlways, PTL DEF Spec, ImplementsFifo, Fifo!Spec
=============================================================================
