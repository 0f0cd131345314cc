-------------------------- MODULE ResourceManager --------------------------
(***************************************************************************)
(* skl::memory::ResourceManager<T> (learn_gl/include/skl/memory): a pool   *)
(* of slots handed out as (index, generation) handles.  Slot 0 is the null *)
(* handle and is left out, so slot s of the code is s here.  Objects are   *)
(* numbered in the order of their make_shared; 0 is no object.             *)
(* `issued' and `stamp' are history variables: the handles clients may     *)
(* still present, and how often the slot had been bumped by then.          *)
(***************************************************************************)
EXTENDS Naturals, Sequences, FiniteSets

CONSTANTS
    MaxSlots,   \* bound on the growth of _pool
    GenMod,     \* 2^w for a generation counter of w bits (uint32_t: 2^32)
    MaxObj,     \* bound on the number of acquisitions
    Clients     \* holders of the shared_ptr that get() returns

ASSUME ConstantsAssumption ==
    /\ MaxSlots \in Nat /\ MaxObj \in Nat
    /\ GenMod \in Nat /\ \E k \in 1..GenMod : GenMod = 2 * k

VARIABLES
    size,        \* _pool.size() - 1
    generation,  \* _pool[s].generation
    pres,        \* the object _pool[s].pres owns, 0 when empty
    free,        \* _free, used as a stack
    strong,      \* strong[c]: the object client c holds a shared_ptr to
    ec,          \* the caller's std::error_code, set by a refused release
    made,        \* objects made so far
    issued,      \* issued[o]: the handle acquire() returned for object o
    bumps,       \* bumps[s]: how often generation of s was incremented
    stamp        \* stamp[o]: bumps of the slot when issued[o] was returned

pool == <<size, generation, pres, free>>
history == <<made, issued, bumps, stamp>>
vars == <<pool, strong, ec, history>>

Slots == 1..MaxSlots
Errors == {"none", "not_enough_memory", "invalid_argument"}
Handles == [index : 0..MaxSlots, generation : 0..(GenMod - 1)]
NullHandle == [index |-> 0, generation |-> 0]
-----------------------------------------------------------------------------
(* One increment of a w-bit counter; 0 is skipped, it means "never used".  *)
IncUnbounded(g) == g + 1                                      \* mutant of Inc
Inc(g) == IF g = GenMod - 1 THEN 0 ELSE g + 1
BumpNoSkip(g) == Inc(g)                                       \* mutant of Bump
BumpForgotten(g) == g                                         \* mutant of Bump
Bump(g) == IF Inc(g) = 0 THEN Inc(Inc(g)) ELSE Inc(g)

(* mutant of IsValid: the check that the slot is occupied is dropped *)
IsValidUnowned(h) ==
    h.index # 0 /\ h.index <= size /\ generation[h.index] = h.generation

IsValid(h) ==
    /\ h.index # 0
    /\ h.index <= size
    /\ generation[h.index] = h.generation
    /\ pres[h.index] # 0

Lookup(h) == IF IsValid(h) THEN pres[h.index] ELSE 0

(* shared_ptr::use_count of the object a handle leads to *)
UseCount(h) ==
    IF IsValid(h)
    THEN 1 + Cardinality({c \in Clients : strong[c] = pres[h.index]})
    ELSE 0

Active == size - Len(free)
-----------------------------------------------------------------------------
Init ==
    /\ size = 0
    /\ generation = [s \in Slots |-> 0]
    /\ pres = [s \in Slots |-> 0]
    /\ free = <<>>
    /\ strong = [c \in Clients |-> 0]
    /\ ec = "none"
    /\ made = 0
    /\ issued = [o \in 1..MaxObj |-> NullHandle]
    /\ bumps = [s \in Slots |-> 0]
    /\ stamp = [o \in 1..MaxObj |-> 0]

(* The part of acquire() that is the same for a fresh and a reused slot.   *)
Occupy(s) ==
    LET g == Bump(generation[s]) IN
    /\ generation' = [generation EXCEPT ![s] = g]
    /\ pres' = [pres EXCEPT ![s] = made + 1]
    /\ made' = made + 1
    /\ issued' = [issued EXCEPT ![made + 1] = [index |-> s, generation |-> g]]
    /\ bumps' = [bumps EXCEPT ![s] = @ + 1]
    /\ stamp' = [stamp EXCEPT ![made + 1] = bumps[s] + 1]

AcquireReused ==
    /\ free # <<>>
    /\ free' = SubSeq(free, 1, Len(free) - 1)
    /\ Occupy(free[Len(free)])
    /\ UNCHANGED size

AcquireFresh ==
    /\ free = <<>>
    /\ size < MaxSlots
    /\ size' = size + 1
    /\ Occupy(size + 1)
    /\ UNCHANGED free

Acquire ==
    /\ made < MaxObj
    /\ AcquireReused \/ AcquireFresh
    /\ UNCHANGED <<strong, ec>>

(* A handle that is null, out of range, stale or already released: error.  *)
ReleaseRefused(h) ==
    /\ ~IsValid(h)
    /\ ec' = IF h.index = 0 \/ h.index > size
             THEN "not_enough_memory" ELSE "invalid_argument"
    /\ UNCHANGED <<pool, strong, history>>

(* Success leaves the caller's error code alone, it does not clear it.     *)
ReleaseGranted(h) ==
    /\ IsValid(h)
    /\ pres' = [pres EXCEPT ![h.index] = 0]
    /\ generation' = [generation EXCEPT ![h.index] = Bump(@)]
    /\ bumps' = [bumps EXCEPT ![h.index] = @ + 1]
    /\ free' = Append(free, h.index)
    /\ UNCHANGED <<size, strong, ec, made, issued, stamp>>

Release(h) == ReleaseRefused(h) \/ ReleaseGranted(h)

Get(c, h) ==
    /\ strong' = [strong EXCEPT ![c] = Lookup(h)]
    /\ UNCHANGED <<pool, ec, history>>

Drop(c) ==
    /\ strong' = [strong EXCEPT ![c] = 0]
    /\ UNCHANGED <<pool, ec, history>>

(* The caller's own std::error_code::clear() *)
ClearError ==
    /\ ec' = "none"
    /\ UNCHANGED <<pool, strong, history>>

Next ==
    \/ Acquire
    \/ ReleaseRefused(NullHandle)
    \/ \E o \in 1..made : Release(issued[o])
    \/ \E c \in Clients, o \in 1..made : Get(c, issued[o])
    \/ \E c \in Clients : Drop(c)
    \/ ClearError

Spec == Init /\ [][Next]_vars
-----------------------------------------------------------------------------
TypeOK ==
    /\ size \in 0..MaxSlots
    /\ generation \in [Slots -> 0..(GenMod - 1)]
    /\ pres \in [Slots -> 0..MaxObj]
    /\ free \in Seq(Slots)
    /\ strong \in [Clients -> 0..MaxObj]
    /\ ec \in Errors
    /\ made \in 0..MaxObj
    /\ issued \in [1..MaxObj -> Handles]
    /\ bumps \in [Slots -> Nat]
    /\ stamp \in [1..MaxObj -> Nat]

(* The free stack lists every empty slot of the pool exactly once, and no  *)
(* other: no slot is lost, and none can be handed out twice, whatever      *)
(* mixture of good, stale and repeated releases the clients make.          *)
FreeListExact ==
    /\ \A i, j \in 1..Len(free) : free[i] = free[j] => i = j
    /\ \A i \in 1..Len(free) : free[i] <= size
    /\ \A s \in 1..size : (pres[s] = 0) <=> (\E i \in 1..Len(free) : free[i] = s)

(* How often the slot was bumped since o's handle was returned; it counts  *)
(* two for every reuse of the slot.                                        *)
Age(o) == bumps[issued[o].index] - stamp[o]

(* The generations of a slot repeat after GenMod - 1 bumps, an odd number, *)
(* so a handle is safe for GenMod - 1 reuses of its slot, not for half of  *)
(* them: until then, if get() finds anything, it is the object acquired.   *)
HandleSafe ==
    \A o \in 1..made :
        (IsValid(issued[o]) /\ Age(o) < 2 * (GenMod - 1))
            => Lookup(issued[o]) = o

(* An object in the pool can be reached by its handle: it is not stranded  *)
(* by a generation that moved on without a release.                        *)
LiveReachable ==
    \A s \in 1..size :
        pres[s] # 0 =>
            /\ pres[s] \in 1..made
            /\ issued[pres[s]] = [index |-> s, generation |-> generation[s]]

(* active() counts the occupied slots. *)
ActiveExact == Active = Cardinality({s \in Slots : pres[s] # 0})
-----------------------------------------------------------------------------
(* As long as no handle is that old the slots, generations and free stack  *)
(* are invisible: the pool takes the steps of a HandleStore.               *)
Unrepeated == \A o \in 1..made : Age(o) < 2 * (GenMod - 1)

Store == INSTANCE HandleStore WITH
    live <- {o \in 1..made : IsValid(issued[o])},
    ec <- (ec # "none")

ImplementsStore ==
    Store!Init /\ [][Unrepeated /\ Unrepeated' => Store!Next]_(Store!vars)
=============================================================================
