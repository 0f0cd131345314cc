----------------------------- MODULE SignalSlot -----------------------------
(***************************************************************************)
(* SignalSlot/SignalSlot.h: a signal is a fixed table of functions.  The   *)
(* loop of signal_emit reads the table afresh at each step, and the        *)
(* functions it calls may connect, disconnect and emit on the same signal. *)
(***************************************************************************)
EXTENDS Naturals, Sequences, FiniteSets

CONSTANTS
    Fns,         \* slot functions
    NULL,
    MAX_SLOTS,
    MaxDepth,    \* bound on emits nested in slot functions
    MaxDrops     \* bound on disconnects during one emit

ASSUME SignalAssumption == NULL \notin Fns /\ MAX_SLOTS \in Nat \ {0} 
                           /\ MaxDepth \in Nat /\ MaxDrops \in Nat

VARIABLES
    slots, slot_count,
    emits,   \* the emits under way, innermost last
    ret      \* EXIT_SUCCESS or EXIT_FAILURE of the last call

vars == <<slots, slot_count, emits, ret>>

Index == 0..(MAX_SLOTS - 1)
Top == emits[Len(emits)]
(* A slot function, or code outside any emit, is running. *)
Running == IF emits = <<>> THEN TRUE ELSE Top.calling
Connected == {slots[i] : i \in 0..(slot_count - 1)}

(* `start', `called', `drops' and `left' are history: what was connected   *)
(* when the emit began, how often each function was called by it, how many *)
(* disconnects happened since and of which functions.                      *)
NewEmit ==
    [i |-> 0, calling |-> FALSE, start |-> Connected,
     called |-> [f \in Fns |-> 0], drops |-> 0, left |-> {}]
-----------------------------------------------------------------------------
Init ==
    /\ slots = [i \in Index |-> NULL]
    /\ slot_count = 0
    /\ emits = <<>>
    /\ ret = "EXIT_SUCCESS"

ConnectNull ==
    /\ Running
    /\ ret' = "EXIT_FAILURE"
    /\ UNCHANGED <<slots, slot_count, emits>>

ConnectKnown(f) ==
    /\ Running /\ f \in Connected
    /\ ret' = "EXIT_SUCCESS"
    /\ UNCHANGED <<slots, slot_count, emits>>

Unchecked(f) == TRUE                                    \* mutant of Unknown
Unknown(f) == f \notin Connected

Room == slot_count < MAX_SLOTS

ConnectNew(f) ==
    /\ Running /\ Unknown(f) /\ Room
    /\ slots' = [slots EXCEPT ![slot_count] = f]
    /\ slot_count' = slot_count + 1
    /\ ret' = "EXIT_SUCCESS"
    /\ UNCHANGED emits

ConnectFull(f) ==
    /\ Running /\ Unknown(f) /\ ~Room
    /\ ret' = "EXIT_FAILURE"
    /\ UNCHANGED <<slots, slot_count, emits>>

(* The last entry takes the place of the one removed.                      *)
Removed(i) == [slots EXCEPT ![i] = slots[slot_count - 1], ![slot_count - 1] = NULL]

Disconnect(f) ==
    /\ Running /\ \A k \in DOMAIN emits : emits[k].drops < MaxDrops
    /\ \E i \in 0..(slot_count - 1) :
         /\ slots[i] = f /\ \A j \in 0..(i - 1) : slots[j] # f
         /\ slots' = Removed(i)
    /\ slot_count' = slot_count - 1
    /\ emits' = [k \in DOMAIN emits |->
                   [emits[k] EXCEPT !.drops = @ + 1, !.left = @ \cup {f}]]
    /\ ret' = "EXIT_SUCCESS"

DisconnectUnknown(f) ==
    /\ Running /\ f \notin Connected
    /\ ret' = "EXIT_FAILURE"
    /\ UNCHANGED <<slots, slot_count, emits>>

Emit ==
    /\ Running /\ Len(emits) < MaxDepth
    /\ emits' = Append(emits, NewEmit)
    /\ UNCHANGED <<slots, slot_count, ret>>

CallSlot ==
    /\ ~Running /\ Top.i < slot_count /\ slots[Top.i] # NULL
    /\ emits' = [emits EXCEPT ![Len(emits)].calling = TRUE,
                              ![Len(emits)].called[slots[Top.i]] = @ + 1]
    /\ UNCHANGED <<slots, slot_count, ret>>

(* mutant of Advance: the entry that took the freed place is looked at too *)
AdvanceAgain(e) == IF e.drops > 0 THEN e.i ELSE e.i + 1
Advance(e) == e.i + 1

SlotReturns ==
    /\ emits # <<>> /\ Top.calling
    /\ emits' = [emits EXCEPT ![Len(emits)].calling = FALSE,
                              ![Len(emits)].i = Advance(Top)]
    /\ UNCHANGED <<slots, slot_count, ret>>

FinishedEarly == Top.i >= slot_count - 1               \* mutant of Finished
Finished == Top.i >= slot_count

EmitReturns ==
    /\ ~Running /\ Finished
    /\ emits' = SubSeq(emits, 1, Len(emits) - 1)
    /\ UNCHANGED <<slots, slot_count, ret>>

Next ==
    \/ ConnectNull
    \/ \E f \in Fns :
         \/ ConnectKnown(f) \/ ConnectNew(f) \/ ConnectFull(f)
         \/ Disconnect(f) \/ DisconnectUnknown(f)
    \/ Emit \/ CallSlot \/ SlotReturns \/ EmitReturns

Spec == Init /\ [][Next]_vars
-----------------------------------------------------------------------------
TypeOK ==
    /\ slots \in [Index -> Fns \cup {NULL}]
    /\ slot_count \in 0..MAX_SLOTS
    /\ ret \in {"EXIT_SUCCESS", "EXIT_FAILURE"}
    /\ emits \in Seq([i : 0..MAX_SLOTS, calling : BOOLEAN,
                     start : SUBSET Fns, called : [Fns -> Nat],
                     drops : Nat, left : SUBSET Fns])

(* The table is packed and free of duplicates, also while slot functions   *)
(* change it under a running emit.                                         *)
TableExact ==
    /\ \A i \in Index : slots[i] # NULL <=> i < slot_count
    /\ \A i, j \in 0..(slot_count - 1) : slots[i] = slots[j] => i = j

(* An emit calls no function twice, unless it was disconnected and         *)
(* connected again while the emit ran.                                     *)
CalledOnce ==
    \A k \in DOMAIN emits : \A f \in Fns \ emits[k].left : emits[k].called[f] <= 1

(* An emit that has reached the end of the table has called every function *)
(* that was connected all along, but for at most one per disconnect that   *)
(* happened meanwhile: the entry moved behind the loop index is skipped.   *)
SkipsBounded ==
    \A k \in DOMAIN emits :
        LET e == emits[k]
            skipped == {f \in e.start \ e.left : e.called[f] = 0}
        IN  (k = Len(emits) /\ ~e.calling /\ Finished) =>
                Cardinality(skipped) <= e.drops
=============================================================================
