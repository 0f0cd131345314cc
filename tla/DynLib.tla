------------------------------- MODULE DynLib -------------------------------
(***************************************************************************)
(* utils/dl.cpp, and the table of functions utils/lang.hpp fills from a    *)
(* library.  The loader of the system is external: it counts how often a   *)
(* library is open and unloads it at zero.                                 *)
(***************************************************************************)
EXTENDS Naturals, FiniteSets

CONSTANTS
    Objects,   \* of class DynLib
    Paths,     \* of libraries that open; any other path does not
    Exports    \* the symbols of the table each of them has

ASSUME DynLibAssumption ==
    /\ "null" \notin Paths /\ IsFiniteSet(Objects)
    /\ Exports \in [Paths -> SUBSET {"find_ex", "last_error"}]

VARIABLES
    handle,    \* _handle of each object: the library, or "null"
    refs,      \* how often each library is open
    api        \* SKL_I18N_C_API: the library each function is in, or "null"

dynVars == <<handle, refs, api>>

DynInit ==
    /\ handle = [o \in Objects |-> "null"]
    /\ refs = [p \in Paths |-> 0]
    /\ api = [find_ex |-> "null", last_error |-> "null"]

(* dlclose() of what an object holds, if it holds anything. *)
Dropped(o) ==
    [p \in Paths |-> IF handle[o] = p THEN refs[p] - 1 ELSE refs[p]]

(* dlopen(): what it opens, if it opens. *)
Opened(path) == IF path \in Paths THEN path ELSE "null"

(* Closes what is open, also if nothing can be opened. *)
OpenLib(o, path) ==
    /\ handle' = [handle EXCEPT ![o] = Opened(path)]
    /\ refs' = [p \in Paths |-> Dropped(o)[p] + IF p = path THEN 1 ELSE 0]
    /\ UNCHANGED api

(* close(), and the destructor *)
CloseLib(o) ==
    /\ handle[o] # "null"
    /\ handle' = [handle EXCEPT ![o] = "null"]
    /\ refs' = Dropped(o)
    /\ UNCHANGED api

MoveLeavesBoth(o, q) ==         \* mutant of MoveLib: the other keeps its handle
    /\ o # q
    /\ handle' = [handle EXCEPT ![o] = handle[q]]
    /\ refs' = Dropped(o)
    /\ UNCHANGED api

(* o = std::move(q); moving into a new object is the case of one that      *)
(* holds nothing.                                                          *)
MoveLib(o, q) ==
    /\ o # q
    /\ handle' = [handle EXCEPT ![o] = handle[q], ![q] = "null"]
    /\ refs' = Dropped(o)
    /\ UNCHANGED api

(* dlsym() *)
Symbol(lib, name) == IF name \in Exports[lib] THEN lib ELSE "null"

(* SKL_I18N_loader(): without a library it leaves the table as it was, and *)
(* without the first symbol the second as it was; the first is not left    *)
(* behind if the second is missing.                                        *)
LoadApi(o) ==
    /\ handle[o] # "null"
    /\ LET find == Symbol(handle[o], "find_ex")
           last == Symbol(handle[o], "last_error")
       IN  api' = IF find = "null" THEN [api EXCEPT !.find_ex = "null"]
                  ELSE [find_ex |-> IF last = "null" THEN "null" ELSE find,
                        last_error |-> last]
    /\ UNCHANGED <<handle, refs>>
-----------------------------------------------------------------------------
DynTypeOK ==
    /\ handle \in [Objects -> Paths \cup {"null"}]
    /\ refs \in [Paths -> 0..Cardinality(Objects)]
    /\ api \in [{"find_ex", "last_error"} -> Paths \cup {"null"}]

(* Whatever is opened, moved, closed and opened again over what was open,  *)
(* a library is open as often as there are objects that hold it, so that   *)
(* it is closed once for each; and the table has both functions of one     *)
(* library or no find_ex().                                                *)
HandlesBalanced ==
    /\ DynTypeOK
    /\ \A p \in Paths : refs[p] = Cardinality({o \in Objects : handle[o] = p})
    /\ api.find_ex # "null" => api.last_error = api.find_ex
=============================================================================
