---------------------------- MODULE HandleStore ----------------------------
(***************************************************************************)
(* What a pool of resources addressed by handles promises its clients,     *)
(* with no slots, generations or free list: every object is acquired once  *)
(* and gets a handle of its own, a live object can be fetched through its  *)
(* handle, a released one never again, and releasing what is not live      *)
(* changes nothing but the error code.  ResourceManager implements it.     *)
(***************************************************************************)
EXTENDS Naturals

CONSTANTS
    MaxObj,    \* bound on the number of objects ever acquired
    Clients    \* holders of strong references (std::shared_ptr)

VARIABLES
    made,      \* objects 1..made have been acquired so far
    live,      \* those whose handle is still good
    strong,    \* strong[c]: the object client c holds, 0 for none
    ec         \* the caller's error flag, set by a refused release

vars == <<made, live, strong, ec>>

Init ==
    /\ made = 0
    /\ live = {}
    /\ strong = [c \in Clients |-> 0]
    /\ ec = FALSE

Acquire ==
    /\ made < MaxObj
    /\ made' = made + 1
    /\ live' = live \cup {made + 1}
    /\ UNCHANGED <<strong, ec>>

Release(o) ==
    /\ o \in live
    /\ live' = live \ {o}
    /\ UNCHANGED <<made, strong, ec>>

(* Any handle that is not, or no longer, the handle of a live object. *)
Refuse ==
    /\ ec' = TRUE
    /\ UNCHANGED <<made, live, strong>>

ClearError ==
    /\ ec' = FALSE
    /\ UNCHANGED <<made, live, strong>>

Get(c, o) ==
    /\ strong' = [strong EXCEPT ![c] = IF o \in live THEN o ELSE 0]
    /\ UNCHANGED <<made, live, ec>>

Drop(c) ==
    /\ strong' = [strong EXCEPT ![c] = 0]
    /\ UNCHANGED <<made, live, ec>>

Next ==
    \/ Acquire
    \/ \E o \in 1..made : Release(o)
    \/ Refuse \/ ClearError
    \/ \E c \in Clients, o \in 1..made : Get(c, o)
    \/ \E c \in Clients : Drop(c)

Spec == Init /\ [][Next]_vars
=============================================================================
