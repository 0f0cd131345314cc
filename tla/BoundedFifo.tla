---------------------------- MODULE BoundedFifo ----------------------------
(***************************************************************************)
(* What CircularQueueLK and CircularQueueSeq promise their callers: a      *)
(* linearizable first-in first-out queue of at most Cap elements whose     *)
(* push and pop answer false instead of waiting, and whose calls may also  *)
(* leave with the exception of an element operation and no effect.         *)
(***************************************************************************)
EXTENDS Naturals, Sequences

CONSTANTS Cap, Threads, Values

VARIABLES
    q,      \* the elements, oldest first
    call    \* call[t]: the operation thread t is in

vars == <<q, call>>

Idle == [phase |-> "idle", kind |-> "none", val |-> "none", res |-> "none"]
Pending(kind, val) ==
    [phase |-> "called", kind |-> kind, val |-> val, res |-> "none"]
-----------------------------------------------------------------------------
Init == q = <<>> /\ call = [t \in Threads |-> Idle]

Invoke(t) ==
    /\ call[t] = Idle
    /\ \/ \E v \in Values : call' = [call EXCEPT ![t] = Pending("push", v)]
       \/ call' = [call EXCEPT ![t] = Pending("pop", "none")]
    /\ UNCHANGED q

Answer(t, val, res) ==
    /\ call[t].phase = "called"
    /\ call' = [call EXCEPT ![t].phase = "done", ![t].val = val, ![t].res = res]

Push(t) ==
    /\ call[t].kind = "push" /\ Len(q) < Cap
    /\ Answer(t, call[t].val, "true")
    /\ q' = Append(q, call[t].val)

Pop(t) ==
    /\ call[t].kind = "pop" /\ q # <<>>
    /\ Answer(t, Head(q), "true")
    /\ q' = Tail(q)

Refuse(t) ==
    /\ \/ call[t].kind = "push" /\ Len(q) = Cap
       \/ call[t].kind = "pop" /\ q = <<>>
    /\ Answer(t, call[t].val, "false")
    /\ UNCHANGED q

Throw(t) == Answer(t, call[t].val, "thrown") /\ UNCHANGED q

Return(t) ==
    /\ call[t].phase = "done"
    /\ call' = [call EXCEPT ![t] = Idle]
    /\ UNCHANGED q

Clear ==
    /\ \A t \in Threads : call[t] = Idle
    /\ q' = <<>>
    /\ UNCHANGED call

Next ==
    \/ \E t \in Threads :
         Invoke(t) \/ Push(t) \/ Pop(t) \/ Refuse(t) \/ Throw(t) \/ Return(t)
    \/ Clear

Spec == Init /\ [][Next]_vars
=============================================================================
