------------------------------- MODULE HandOff -------------------------------
(***************************************************************************)
(* conditional_variable.cpp: a thread waits until another has left it a    *)
(* message.  Mutex and condition variable are external: a wait may end     *)
(* without a notification, and a notification nobody waits for is lost.    *)
(***************************************************************************)
VARIABLES
    pc,      \* of rthread and sthread
    mtx,     \* who holds the mutex
    data     \* whether there is a message

vars == <<pc, mtx, data>>

Ends == {"r", "s"}

Init == pc = [t \in Ends |-> "start"] /\ mtx = "free" /\ data = FALSE

Move(t, to) == pc' = [pc EXCEPT ![t] = to]

Lock(t) ==
    /\ mtx = "free" /\ pc[t] \in {"start", "woken"}
    /\ mtx' = t /\ Move(t, "locked")
    /\ UNCHANGED data

TestOnce ==                     \* mutant of Test: the wait has no predicate
    /\ pc["r"] = "locked" /\ mtx' = "free" /\ Move("r", "waiting")
    /\ UNCHANGED data

(* wait() tests, gives up the mutex and sleeps, or has the message. *)
Test ==
    /\ pc["r"] = "locked" /\ mtx' = "free"
    /\ Move("r", IF data THEN "done" ELSE "waiting")
    /\ UNCHANGED data

Spurious == pc["r"] = "waiting" /\ Move("r", "woken") /\ UNCHANGED <<mtx, data>>

Put ==
    /\ pc["s"] = "locked"
    /\ data' = TRUE /\ mtx' = "free" /\ Move("s", "sent")

Notify ==
    /\ pc["s"] = "sent"
    /\ pc' = [r |-> IF pc["r"] = "waiting" THEN "woken" ELSE pc["r"], s |-> "done"]
    /\ UNCHANGED <<mtx, data>>

Receive == Lock("r") \/ Test
Deliver == Lock("s") \/ Put \/ Notify
-----------------------------------------------------------------------------
TypeOK ==
    /\ pc \in [Ends -> {"start", "locked", "waiting", "woken", "sent", "done"}]
    /\ mtx \in {"free"} \cup Ends /\ data \in BOOLEAN

(* Whoever is between locking and unlocking is alone, and what was         *)
(* received had been sent.                                                 *)
Excluded ==
    /\ \A t \in Ends : pc[t] = "locked" <=> mtx = t
    /\ pc["r"] = "done" => data

Settled == pc["r"] = "done" /\ pc["s"] = "done"
=============================================================================
