---------------------------- MODULE ReaderWriter ----------------------------
(***************************************************************************)
(* One writer and some readers of a number, under a lock of three kinds:   *)
(* the std::mutex and the std::shared_mutex of shared_mutex.cpp, which     *)
(* runs its threads under the one and then under the other, and the lock   *)
(* written by hand in diy_shared_mutex.cpp.  The std locks are external.   *)
(*                                                                         *)
(* The lock made by hand never owns its mutex, so its counter is an        *)
(* unprotected read and write, and to wait with it is undefined: here the  *)
(* program dies.                                                           *)
(***************************************************************************)
EXTENDS Naturals, FiniteSets

CONSTANTS
    Readers, writer,
    Rounds,      \* how often each thread takes the lock; 10
    Width        \* the counter is unsigned: modulo Width

VARIABLES
    kind,        \* "mutex", "shared", "diy"
    pc,          \* of each thread
    left,        \* rounds it still has to do
    count, reg,  \* _reader_count, and what a thread has loaded of it
    raced,       \* two threads have been at the counter at once
    g_num, seen  \* the number, and what the writer wrote when it was last alone

vars == <<kind, pc, left, count, reg, raced, g_num, seen>>

Members == Readers \cup {writer}
Inside == {t \in Members : pc[t] = "in"}
AtCounter == {t \in Readers : pc[t] \in {"loaded up", "loaded down"}}

InitKind(k) ==
    /\ kind = k
    /\ pc = [t \in Members |-> "out"]
    /\ left = [t \in Members |-> IF k = "diy" /\ t = writer THEN 1 ELSE Rounds]
    /\ count = 0 /\ reg = [t \in Readers |-> 0] /\ raced = FALSE
    /\ g_num = 0 /\ seen = 0

Init == InitKind("mutex") \/ InitKind("diy")

Move(t, to) == pc' = [pc EXCEPT ![t] = to]
-----------------------------------------------------------------------------
(* mutant of MayEnter: the writer takes a shared_lock *)
MayShare(t) == Inside = {} \/ (kind = "shared" /\ writer \notin Inside)

(* pfn(), wfn() and wfns() lock alone, pfns() with other readers.          *)
MayEnter(t) == Inside = {} \/ (kind = "shared" /\ t # writer /\ writer \notin Inside)

Enter(t) ==
    /\ kind # "diy" /\ pc[t] = "out" /\ left[t] > 0 /\ MayEnter(t)
    /\ Move(t, "in")
    /\ g_num' = IF t = writer THEN left[t] ELSE g_num
    /\ seen' = g_num'
    /\ UNCHANGED <<kind, left, count, reg, raced>>

Leave(t) ==
    /\ kind # "diy" /\ pc[t] = "in"
    /\ Move(t, "out") /\ left' = [left EXCEPT ![t] = @ - 1]
    /\ UNCHANGED <<kind, count, reg, raced, g_num, seen>>

(* text(mtx, ...) has joined its threads: text(smtx, ...) *)
NextKind ==
    /\ kind = "mutex" /\ \A t \in Members : left[t] = 0
    /\ kind' = "shared" /\ left' = [t \in Members |-> Rounds]
    /\ UNCHANGED <<pc, count, reg, raced, g_num, seen>>
-----------------------------------------------------------------------------
Alive == kind = "diy" /\ \A t \in Members : pc[t] # "dead"

(* lock_shared() waits for is_writer_entered, which nobody sets, and       *)
(* increments; unlock_shared() decrements and notifies nobody.             *)
Load(t) ==
    /\ Alive /\ left[t] > 0 /\ pc[t] \in {"out", "in"}
    /\ Move(t, IF pc[t] = "out" THEN "loaded up" ELSE "loaded down")
    /\ reg' = [reg EXCEPT ![t] = count]
    /\ raced' = (raced \/ AtCounter # {})
    /\ UNCHANGED <<kind, left, count, g_num, seen>>

Increment(t) ==
    /\ Alive /\ pc[t] = "loaded up"
    /\ count' = (reg[t] + 1) % Width
    /\ Move(t, "in")
    /\ UNCHANGED <<kind, left, reg, raced, g_num, seen>>

Decrement(t) ==
    /\ Alive /\ pc[t] = "loaded down"
    /\ count' = (reg[t] + Width - 1) % Width
    /\ Move(t, "out") /\ left' = [left EXCEPT ![t] = @ - 1]
    /\ UNCHANGED <<kind, reg, raced, g_num, seen>>

(* lock() tests the counter twice and goes in, or waits: it marks nothing. *)
Try ==
    /\ Alive /\ left[writer] > 0 /\ pc[writer] \in {"out", "tested"}
    /\ Move(writer, IF count # 0 THEN "dead" ELSE IF pc[writer] = "out" THEN "tested" ELSE "in")
    /\ UNCHANGED <<kind, left, count, reg, raced, g_num, seen>>

Unlock ==
    /\ Alive /\ pc[writer] = "in"
    /\ Move(writer, "out") /\ left' = [left EXCEPT ![writer] = 0]
    /\ UNCHANGED <<kind, count, reg, raced, g_num, seen>>
-----------------------------------------------------------------------------
Reads(t) == Enter(t) \/ Leave(t) \/ Load(t) \/ Increment(t) \/ Decrement(t)
Writes == Enter(writer) \/ Leave(writer) \/ Try \/ Unlock

TypeOK ==
    /\ kind \in {"mutex", "shared", "diy"}
    /\ pc \in [Members -> {"out", "loaded up", "in", "loaded down", "tested", "dead"}]
    /\ left \in [Members -> 0..Rounds]
    /\ count \in 0..(Width - 1) /\ reg \in [Readers -> 0..(Width - 1)]

(* Under a std lock whoever is inside sees the number as the writer left   *)
(* it, and the writer is alone.  Under the one made by hand it is not; but *)
(* while no two readers have met at the counter, it counts those inside.   *)
Excluded ==
    /\ kind # "diy" =>
           /\ writer \in Inside => Inside = {writer}
           /\ kind = "mutex" => Cardinality(Inside) <= 1
    /\ kind = "diy" /\ ~raced =>
           count = Cardinality({t \in Readers : pc[t] \in {"in", "loaded down"}})

(* Both joins of main() return, or the program has died of waiting. *)
Waiting == \E t \in Members : left[t] > 0
Settled == (\A t \in Members : left[t] = 0) \/ pc[writer] = "dead"
=============================================================================
