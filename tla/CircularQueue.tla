--------------------------- MODULE CircularQueue ---------------------------
(***************************************************************************)
(* CircularQueueLK and CircularQueueSeq (unlockthread/queueLK.h): a ring   *)
(* of Cap + 1 cells shared by threads.  The two bodies are the same; they  *)
(* differ in the lock.  CircularQueueLK holds a std::lock_guard, which is  *)
(* released on every way out, CircularQueueSeq spins on an atomic flag and *)
(* releases it by hand before each return.                                 *)
(***************************************************************************)
EXTENDS Naturals, FiniteSets

Classes == {"LK", "Seq"}     \* CircularQueueLK and CircularQueueSeq

CONSTANTS
    Cap,        \* the template parameter: elements the queue can hold
    Threads,
    Values,     \* element values
    Throwing    \* the queues whose elements may throw when they are
                \* constructed or assigned

ASSUME QueueAssumption ==
    /\ Cap \in Nat
    /\ Throwing \subseteq Classes
    /\ {"raw", "moved", "none"} \cap Values = {}

VARIABLES
    head, tail,  \* m_head, m_tail
    data,        \* m_data: "raw" storage, a value, or a moved-from object
    using,       \* m_atomic_using, or m_mutex being held
    alive,       \* between the constructor and the destructor
    class,       \* the class of the queue at hand
    pc,          \* where each thread is in its call
    op           \* op[t]: kind of call, element argument, result

vars == <<head, tail, data, using, alive, class, pc, op>>

Cells == 0..Cap
Locations == {"idle", "lock", "check", "body", "advance", "unlock", "done"}
Inside == {"check", "body", "advance", "unlock"}
Holders == {t \in Threads : pc[t] \in Inside}

SuccNoWrap(i) == i + 1                                       \* mutant of Succ
Succ(i) == IF i = Cap THEN 0 ELSE i + 1
Dist(i, j) == IF i <= j THEN j - i ELSE j + Cap + 1 - i
Window == {i \in Cells : Dist(head, i) < Dist(head, tail)}
-----------------------------------------------------------------------------
OpRec(kind, val) == [kind |-> kind, val |-> val, res |-> "none"]
NoOp == OpRec("none", "none")

Init ==
    /\ head = 0 /\ tail = 0
    /\ data = [i \in Cells |-> "raw"]
    /\ using = FALSE /\ alive = TRUE /\ class \in Classes
    /\ pc = [t \in Threads |-> "idle"]
    /\ op = [t \in Threads |-> NoOp]

Call(t) ==
    /\ alive /\ pc[t] = "idle"
    /\ pc' = [pc EXCEPT ![t] = "lock"]
    /\ \/ \E v \in Values :
            op' = [op EXCEPT ![t] = OpRec("push", v)]
       \/ op' = [op EXCEPT ![t] = OpRec("pop", "none")]
    /\ UNCHANGED <<head, tail, data, using, alive, class>>

(* mutant of Lock: the flag is set without being tested *)
LockUntested(t) ==
    /\ pc[t] = "lock"
    /\ using' = TRUE
    /\ pc' = [pc EXCEPT ![t] = "check"]
    /\ UNCHANGED <<head, tail, data, alive, class, op>>

(* The mutex, or the compare_exchange_strong that succeeds. *)
Lock(t) ==
    /\ pc[t] = "lock" /\ ~using
    /\ using' = TRUE
    /\ pc' = [pc EXCEPT ![t] = "check"]
    /\ UNCHANGED <<head, tail, data, alive, class, op>>

IsFullLate == Dist(head, tail) > Cap              \* mutant of IsFull: off by one
IsFull == Succ(tail) = head

IsEmpty == head = tail

Refused(t) ==
    \/ op[t].kind = "push" /\ IsFull
    \/ op[t].kind = "pop" /\ IsEmpty

Refuse(t) ==
    /\ pc[t] = "check" /\ Refused(t)
    /\ op' = [op EXCEPT ![t].res = "false"]
    /\ pc' = [pc EXCEPT ![t] = "unlock"]
    /\ UNCHANGED <<head, tail, data, using, alive, class>>

Enter(t) ==
    /\ pc[t] = "check" /\ ~Refused(t)
    /\ pc' = [pc EXCEPT ![t] = "body"]
    /\ UNCHANGED <<head, tail, data, using, alive, class, op>>

(* emplace: construct the element in the cell at m_tail. *)
Construct(t) ==
    /\ pc[t] = "body" /\ op[t].kind = "push"
    /\ data' = [data EXCEPT ![tail] = op[t].val]
    /\ pc' = [pc EXCEPT ![t] = "advance"]
    /\ UNCHANGED <<head, tail, using, alive, class, op>>

(* mutant of Move: the newest element is handed out *)
MoveNewest(t) ==
    /\ pc[t] = "body" /\ op[t].kind = "pop"
    /\ LET last == IF tail = 0 THEN Cap ELSE tail - 1
       IN  /\ op' = [op EXCEPT ![t].val = data[last]]
           /\ data' = [data EXCEPT ![last] = data[head], ![head] = "moved"]
    /\ pc' = [pc EXCEPT ![t] = "advance"]
    /\ UNCHANGED <<head, tail, using, alive, class>>

(* pop: move-assign the element at m_head to the caller's variable. *)
Move(t) ==
    /\ pc[t] = "body" /\ op[t].kind = "pop"
    /\ op' = [op EXCEPT ![t].val = data[head]]
    /\ data' = [data EXCEPT ![head] = "moved"]
    /\ pc' = [pc EXCEPT ![t] = "advance"]
    /\ UNCHANGED <<head, tail, using, alive, class>>

(* mutant of Unwind: no lock_guard in either class *)
UnwindUnguarded == "done"
(* An exception of the element operation unwinds the call: lock_guard's    *)
(* destructor unlocks, the spin flag stays set.                            *)
Unwind == IF class = "LK" THEN "unlock" ELSE "done"

Throw(t) ==
    /\ class \in Throwing /\ pc[t] = "body"
    /\ op' = [op EXCEPT ![t].res = "thrown"]
    /\ pc' = [pc EXCEPT ![t] = Unwind]
    /\ UNCHANGED <<head, tail, data, using, alive, class>>

Advance(t) ==
    /\ pc[t] = "advance"
    /\ \/ op[t].kind = "push" /\ tail' = Succ(tail) /\ UNCHANGED head
       \/ op[t].kind = "pop" /\ head' = Succ(head) /\ UNCHANGED tail
    /\ op' = [op EXCEPT ![t].res = "true"]
    /\ pc' = [pc EXCEPT ![t] = "unlock"]
    /\ UNCHANGED <<data, using, alive, class>>

Unlock(t) ==
    /\ pc[t] = "unlock" /\ using
    /\ using' = FALSE
    /\ pc' = [pc EXCEPT ![t] = "done"]
    /\ UNCHANGED <<head, tail, data, alive, class, op>>

Return(t) ==
    /\ pc[t] = "done"
    /\ pc' = [pc EXCEPT ![t] = "idle"]
    /\ op' = [op EXCEPT ![t] = NoOp]
    /\ UNCHANGED <<head, tail, data, using, alive, class>>

(* What the loop of the destructor visits. *)
Swept == Window

(* The destructor; C++ has no call run across it.  Elements still queued   *)
(* are destroyed; what pop moved from is not, and stays in its cell.       *)
Destroy ==
    /\ alive /\ \A t \in Threads : pc[t] = "idle"
    /\ class = "LK" => ~using
    /\ alive' = FALSE
    /\ data' = [i \in Cells |-> IF i \in Swept THEN "raw" ELSE data[i]]
    /\ head' = tail
    /\ UNCHANGED <<tail, using, class, pc, op>>

(* The program goes on to its next queue. *)
Create ==
    /\ ~alive
    /\ head' = 0 /\ tail' = 0
    /\ data' = [i \in Cells |-> "raw"]
    /\ using' = FALSE /\ alive' = TRUE /\ class' \in Classes
    /\ UNCHANGED <<pc, op>>
-----------------------------------------------------------------------------
Step(t) ==
    \/ Lock(t) \/ Refuse(t) \/ Enter(t) \/ Construct(t) \/ Move(t)
    \/ Throw(t) \/ Advance(t) \/ Unlock(t) \/ Return(t)

Next == (\E t \in Threads : Call(t) \/ Step(t)) \/ Destroy \/ Create

Spec == Init /\ [][Next]_vars

(* The scheduler runs every thread that can take a step.  Nothing hands    *)
(* the lock to a particular waiter, so there is no strong fairness.        *)
FairSpec == Spec /\ \A t \in Threads : WF_vars(Step(t))
-----------------------------------------------------------------------------
(* Every variable stays in its domain: the indices never leave the Cap + 1 *)
(* cells that were allocated, and a pop hands out values only.             *)
TypeOK ==
    /\ head \in Cells /\ tail \in Cells
    /\ data \in [Cells -> Values \cup {"raw", "moved"}]
    /\ using \in BOOLEAN /\ alive \in BOOLEAN /\ class \in Classes
    /\ pc \in [Threads -> Locations]
    /\ op \in [Threads -> [kind : {"none", "push", "pop"},
                           val : Values \cup {"none"},
                           res : {"none", "true", "false", "thrown"}]]

(* At most one thread is between taking and releasing the lock, it holds   *)
(* the lock, and the lock is held by nobody else unless an exception       *)
(* escaped past the hand-written release.                                  *)
Exclusion ==
    /\ \A t, u \in Holders : t = u
    /\ Holders # {} => using
    /\ using /\ (class = "LK" \/ class \notin Throwing) => Holders # {}

(* The cells that hold a value are exactly the ones from head to tail,     *)
(* give or take the one the thread inside is working on: construct never   *)
(* overwrites a live element, pop never reads a dead one, and the          *)
(* destructor leaves no element undestroyed.                               *)
LiveCells ==
    LET At(kind) == \E t \in Threads : pc[t] = "advance" /\ op[t].kind = kind
        Live == {i \in Cells : data[i] \in Values}
    IN  Live = (Window \ {i \in {head} : At("pop")})
                 \cup {i \in {tail} : At("push")}

(* A call that waits for the lock is followed by the return of some call:  *)
(* no early return, full or empty queue or exception leaves the lock taken *)
(* for good.  (Which waiter gets it is up to the scheduler.)               *)
SomeCallReturns ==
    \A t \in Threads : pc[t] = "lock" ~> \E u \in Threads : pc[u] = "done"

(* The ring implements the bounded first-in first-out queue: a push takes  *)
(* effect when m_tail moves, a pop when the element is moved out.          *)
Effected(t) ==
    \/ pc[t] \in {"unlock", "done"}
    \/ pc[t] = "advance" /\ op[t].kind = "pop"

callBar == [t \in Threads |->
    CASE pc[t] = "idle" ->
           [phase |-> "idle", kind |-> "none", val |-> "none", res |-> "none"]
      [] pc[t] # "idle" /\ ~Effected(t) ->
           [phase |-> "called", kind |-> op[t].kind, val |-> op[t].val,
            res |-> "none"]
      [] OTHER ->
           [phase |-> "done", kind |-> op[t].kind, val |-> op[t].val,
            res |-> IF pc[t] = "advance" THEN "true" ELSE op[t].res]]

qBar ==
    LET popping == \E t \in Threads : pc[t] = "advance" /\ op[t].kind = "pop"
        first == IF popping THEN Succ(head) ELSE head
    IN  [i \in 1..Dist(first, tail) |-> data[(first + i - 1) % (Cap + 1)]]

Fifo == INSTANCE BoundedFifo WITH q <- qBar, call <- callBar

ImplementsFifo == Fifo!Spec
=============================================================================
