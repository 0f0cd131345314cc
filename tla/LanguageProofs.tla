-------------------------- MODULE LanguageProofs ---------------------------
(***************************************************************************)
(* Proofs about Language and the DynLib beneath it, for any number of      *)
(* objects, libraries and threads: a library is closed as often as it was  *)
(* opened, and what a thread is told fits the pack and its own call.       *)
(***************************************************************************)
EXTENDS Language, SequenceTheorems, FiniteSetTheorems, TLAPS

Holders(S, f, p) == {e \in S : f[e] = p}
Holds(f, o, p) == IF f[o] = p THEN 1 ELSE 0

LEMMA DynFacts == "null" \notin Paths /\ IsFiniteSet(Objects)
  BY DynLibAssumption DEF DynLibAssumption

(* How many of a set hold something: one of them, and the others.          *)
LEMMA OneAndOthers ==
  ASSUME NEW S, IsFiniteSet(S), NEW o \in S, NEW T, T = S \ {o}, NEW f, NEW p
  PROVE  /\ Cardinality(Holders(T, f, p)) \in Nat
         /\ Cardinality(Holders(S, f, p)) = Cardinality(Holders(T, f, p)) + Holds(f, o, p)
<1> DEFINE all == Holders(S, f, p)
           others == Holders(T, f, p)
<1>1. all \subseteq S /\ others \subseteq S
  BY DEF Holders
<1>2. IsFiniteSet(all) /\ IsFiniteSet(others)
  BY <1>1, FS_Subset
<1>3. Cardinality(others) \in Nat
  BY <1>2, FS_CardinalityType
<1>4. CASE f[o] = p
  <2>1. all = others \cup {o} /\ o \notin others
    BY <1>4 DEF Holders
  <2> HIDE DEF all, others
  <2>2. Cardinality(all) = Cardinality(others) + 1
    BY <1>2, <1>3, <2>1, FS_AddElement
  <2> QED
    BY <1>3, <1>4, <2>2 DEF all, others, Holds
<1>5. CASE f[o] # p
  <2>1. all = others
    BY <1>5 DEF Holders
  <2> HIDE DEF all, others
  <2>2. Cardinality(all) = Cardinality(others) + 0
    BY <1>3, <2>1
  <2> QED
    BY <1>3, <1>5, <2>2 DEF all, others, Holds
<1> QED
  BY <1>4, <1>5

DynTypes ==
    /\ handle \in [Objects -> Paths \cup {"null"}]
    /\ refs = [p \in Paths |-> refs[p]]
    /\ api \in [{"find_ex", "last_error"} -> Paths \cup {"null"}]

Counted == \A p \in Paths : refs[p] = Cardinality(Holders(Objects, handle, p))
OneLibrary == api.find_ex # "null" => api.last_error = api.find_ex

DynInv == DynTypes /\ Counted /\ OneLibrary

LEMMA DynStart == ASSUME DynInit PROVE DynInv
<1>1. ASSUME NEW p \in Paths PROVE Holders(Objects, handle, p) = {} /\ refs[p] = 0
  BY DynFacts DEF DynInit, Holders
<1>2. Counted
  BY <1>1, FS_EmptySet DEF Counted
<1> QED
  BY <1>2 DEF DynInit, DynInv, DynTypes, OneLibrary

(* One object drops what it holds and takes another library, or none.      *)
LEMMA Retaken ==
  ASSUME DynTypes, Counted, NEW o \in Objects, NEW new \in Paths \cup {"null"},
         handle' = [handle EXCEPT ![o] = new],
         refs' = [p \in Paths |-> Dropped(o)[p] + IF p = new THEN 1 ELSE 0]
  PROVE  Counted'
<1> SUFFICES ASSUME NEW p \in Paths PROVE refs'[p] = Cardinality(Holders(Objects, handle', p))
  BY DEF Counted
<1> DEFINE T == Objects \ {o}
           others == Cardinality(Holders(T, handle, p))
<1>1. handle'[o] = new /\ \A e \in T : handle'[e] = handle[e]
  BY DEF DynTypes
<1>2. Holders(T, handle', p) = Holders(T, handle, p)
  BY <1>1 DEF Holders
<1>3. T = Objects \ {o}
  OBVIOUS
<1> HIDE DEF T
<1>4. /\ others \in Nat
      /\ Cardinality(Holders(Objects, handle, p)) = others + Holds(handle, o, p)
      /\ Cardinality(Holders(Objects, handle', p)) =
            Cardinality(Holders(T, handle', p)) + Holds(handle', o, p)
  BY <1>3, DynFacts, OneAndOthers
<1>5. refs'[p] = (IF handle[o] = p THEN refs[p] - 1 ELSE refs[p]) + IF p = new THEN 1 ELSE 0
  BY DEF Dropped
<1>6. refs[p] = others + IF handle[o] = p THEN 1 ELSE 0
  BY <1>4 DEF Counted, Holds
<1>7. Cardinality(Holders(Objects, handle', p)) = others + IF p = new THEN 1 ELSE 0
  BY <1>1, <1>2, <1>4 DEF Holds
<1> HIDE DEF others
<1> QED
  BY <1>4, <1>5, <1>6, <1>7

LEMMA Handed ==
  ASSUME DynTypes, Counted, NEW o \in Objects, NEW q \in Objects, MoveLib(o, q)
  PROVE  Counted'
<1> SUFFICES ASSUME NEW p \in Paths PROVE refs'[p] = Cardinality(Holders(Objects, handle', p))
  BY DEF Counted
<1> DEFINE T == Objects \ {o}
           U == T \ {q}
           both == Cardinality(Holders(U, handle, p))
<1>1. /\ o # q /\ handle'[o] = handle[q] /\ handle'[q] = "null"
      /\ \A e \in U : handle'[e] = handle[e]
  BY DEF DynTypes, MoveLib
<1>2. IsFiniteSet(T) /\ q \in T
  BY <1>1, DynFacts, FS_Subset
<1>3. Holders(U, handle', p) = Holders(U, handle, p)
  BY <1>1 DEF Holders
<1>4. T = Objects \ {o} /\ U = T \ {q}
  OBVIOUS
<1> HIDE DEF T, U
<1>5. /\ Cardinality(Holders(Objects, handle, p)) =
            Cardinality(Holders(T, handle, p)) + Holds(handle, o, p)
      /\ Cardinality(Holders(Objects, handle', p)) =
            Cardinality(Holders(T, handle', p)) + Holds(handle', o, p)
  BY <1>4, DynFacts, OneAndOthers
<1>6. /\ both \in Nat
      /\ Cardinality(Holders(T, handle, p)) = both + Holds(handle, q, p)
      /\ Cardinality(Holders(T, handle', p)) =
            Cardinality(Holders(U, handle', p)) + Holds(handle', q, p)
  BY <1>2, <1>4, OneAndOthers
<1>7. Holds(handle', q, p) = 0 /\ Holds(handle', o, p) = Holds(handle, q, p)
  BY <1>1, DynFacts DEF Holds
<1>8. Cardinality(Holders(T, handle', p)) = both
  BY <1>3, <1>6, <1>7
<1>9. refs'[p] = IF handle[o] = p THEN refs[p] - 1 ELSE refs[p]
  BY DEF Dropped, MoveLib
<1>10. refs[p] = both + Holds(handle, q, p) + Holds(handle, o, p)
  BY <1>5, <1>6 DEF Counted
<1> HIDE DEF both
<1>11. refs'[p] = both + Holds(handle, q, p)
  BY <1>6, <1>9, <1>10 DEF Holds
<1> QED
  BY <1>5, <1>7, <1>8, <1>11

LEMMA TableOfOne ==
  ASSUME DynTypes, OneLibrary, NEW o \in Objects, LoadApi(o)
  PROVE  api' \in [{"find_ex", "last_error"} -> Paths \cup {"null"}] /\ OneLibrary'
<1> DEFINE first == Symbol(handle[o], "find_ex")
           last == Symbol(handle[o], "last_error")
<1>1. handle[o] \in Paths /\ first \in {handle[o], "null"} /\ last \in {handle[o], "null"}
  BY DEF DynTypes, LoadApi, Symbol
<1>2. api' = IF first = "null" THEN [api EXCEPT !.find_ex = "null"]
             ELSE [find_ex |-> IF last = "null" THEN "null" ELSE first, last_error |-> last]
  BY DEF LoadApi
<1> HIDE DEF first, last
<1>3. CASE first = "null"
  BY <1>1, <1>2, <1>3 DEF DynTypes, OneLibrary
<1>4. CASE first # "null"
  <2>1. /\ api'.find_ex = (IF last = "null" THEN "null" ELSE first) /\ api'.last_error = last
        /\ DOMAIN api' = {"find_ex", "last_error"}
        /\ api' = [k \in {"find_ex", "last_error"} |-> api'[k]]
    BY <1>2, <1>4
  <2>2. api'["find_ex"] \in Paths \cup {"null"} /\ api'["last_error"] \in Paths \cup {"null"}
    BY <1>1, <2>1
  <2> QED
    BY <1>1, <1>4, <2>1, <2>2 DEF OneLibrary
<1> QED
  BY <1>3, <1>4

LEMMA DynUnchanged == ASSUME DynInv, UNCHANGED dynVars PROVE DynInv'
<1>1. handle' = handle /\ refs' = refs /\ api' = api
  BY DEF dynVars
<1> QED
  BY <1>1 DEF DynInv, DynTypes, Counted, OneLibrary

LEMMA DynHandle == ASSUME DynInv, Handle PROVE DynInv'
<1> USE DEF DynInv
<1>1. ASSUME NEW o \in Objects, NEW p, OpenLib(o, p) PROVE DynInv'
  <2>1. handle' = [handle EXCEPT ![o] = Opened(p)] /\ Opened(p) \in Paths \cup {"null"}
    BY <1>1 DEF OpenLib, Opened
  <2>2. refs' = [e \in Paths |-> Dropped(o)[e] + IF e = Opened(p) THEN 1 ELSE 0]
    <3>1. \A e \in Paths : e = p <=> e = Opened(p)
      BY DynFacts DEF Opened
    <3> QED
      BY <1>1, <3>1 DEF OpenLib
  <2>3. Counted'
    BY <2>1, <2>2, Retaken
  <2> QED
    BY <1>1, <2>1, <2>2, <2>3 DEF OpenLib, DynTypes, OneLibrary
<1>2. ASSUME NEW o \in Objects, CloseLib(o) PROVE DynInv'
  <2>1. handle' = [handle EXCEPT ![o] = "null"] /\ refs' = Dropped(o) /\ api' = api
    BY <1>2 DEF CloseLib
  <2>2. refs' = [e \in Paths |-> Dropped(o)[e] + IF e = "null" THEN 1 ELSE 0]
    <3>1. ASSUME NEW e \in Paths PROVE Dropped(o)[e] \in Int /\ e # "null"
      <4>1. IsFiniteSet(Holders(Objects, handle, e))
        BY DynFacts, FS_Subset DEF Holders
      <4>2. refs[e] \in Nat
        BY <4>1, FS_CardinalityType DEF Counted
      <4> QED
        BY <4>2, DynFacts DEF Dropped
    <3>2. Dropped(o) = [e \in Paths |-> Dropped(o)[e]]
      BY DEF Dropped
    <3>3. \A e \in Paths : Dropped(o)[e] = Dropped(o)[e] + IF e = "null" THEN 1 ELSE 0
      BY <3>1
    <3> HIDE DEF Dropped
    <3> QED
      BY <2>1, <3>2, <3>3
  <2>3. Counted'
    BY <2>1, <2>2, Retaken
  <2> QED
    BY <2>1, <2>2, <2>3 DEF DynTypes, OneLibrary
<1>3. ASSUME NEW o \in Objects, NEW q \in Objects, MoveLib(o, q) PROVE DynInv'
  <2>1. Counted'
    BY <1>3, Handed
  <2> QED
    BY <1>3, <2>1 DEF MoveLib, Dropped, DynTypes, OneLibrary
<1>4. ASSUME NEW o \in Objects, LoadApi(o) PROVE DynInv'
  <2>1. handle' = handle /\ refs' = refs
    BY <1>4 DEF LoadApi
  <2> QED
    BY <1>4, <2>1, TableOfOne DEF DynTypes, Counted
<1> QED
  BY <1>1, <1>2, <1>3, <1>4 DEF Handle

LEMMA DynHolds == DynInv => HandlesBalanced
<1> SUFFICES ASSUME DynInv PROVE HandlesBalanced
  OBVIOUS
<1>1. ASSUME NEW p \in Paths PROVE refs[p] \in 0..Cardinality(Objects)
  <2>1. Holders(Objects, handle, p) \subseteq Objects
    BY DEF Holders
  <2>2. /\ Cardinality(Holders(Objects, handle, p)) \in Nat /\ Cardinality(Objects) \in Nat
        /\ Cardinality(Holders(Objects, handle, p)) <= Cardinality(Objects)
    BY <2>1, DynFacts, FS_Subset, FS_CardinalityType
  <2> QED
    BY <2>2 DEF DynInv, Counted
<1>2. DynTypeOK
  BY <1>1 DEF DynInv, DynTypes, DynTypeOK
<1> QED
  BY <1>2 DEF DynInv, Counted, OneLibrary, Holders, HandlesBalanced
-----------------------------------------------------------------------------
(* The packs: the candidates before the one the loader has come to do not  *)
(* load, and who was told of a pack was told by a loader that is ready.    *)
LangTypes ==
    /\ loader = [state |-> loader.state, by |-> loader.by, list |-> loader.list,
                 at |-> loader.at, pack |-> loader.pack]
    /\ loader.state \in {"none", "loading", "ready"} /\ loader.at \in Nat \ {0}
    /\ Len(loader.list) \in Nat /\ DOMAIN loader.list = 1..Len(loader.list)
    /\ \A k \in DOMAIN loader.list : loader.list[k] # <<>>
    /\ asked = [t \in Threads |-> asked[t]] /\ got = [t \in Threads |-> got[t]]
    /\ last_error = [t \in Threads |-> last_error[t]]

Sought ==
    /\ loader.state # "ready" => loader.pack = <<>>
    /\ loader.state = "loading" =>
          \A k \in DOMAIN loader.list : k < loader.at => ~Loads(loader.list[k])
    /\ loader.state = "ready" =>
          \/ loader.pack = <<>> /\ \A k \in DOMAIN loader.list : ~Loads(loader.list[k])
          \/ /\ loader.at \in DOMAIN loader.list /\ loader.pack = loader.list[loader.at]
             /\ Loads(loader.pack)
             /\ \A k \in DOMAIN loader.list : k < loader.at => ~Loads(loader.list[k])

(* What a thread has been told, by a loader that is ready or by nobody.    *)
ToldRight(a, e) ==
    a.to.via = "find_ex" =>
        \/ a.rc = -1 /\ a.text = <<>> /\ e = "invalid argument"
        \/ /\ loader.state = "ready"
           /\ \/ a.rc = -2 /\ a.text = <<>> /\ e = "not loaded" /\ loader.pack = <<>>
              \/ a.rc = 1 /\ a.text = <<>> /\ e = "not found"
              \/ a.rc = 0 /\ a.text = <<loader.pack, a.to.module, a.to.code>> /\ e = ""

AllToldRight == \A t \in Threads : ToldRight(got[t], last_error[t])

Died == dead => ~files.cwd \/ \E k \in 1..loader.at : Content(loader.list[k]) = "denied"

LangInv == LangTypes /\ Sought /\ AllToldRight /\ Died

LEMMA LangStart == ASSUME LangInit PROVE LangInv
<1>1. loader = NoLoader /\ dead = FALSE /\ \A t \in Threads : got[t] = NoAnswer
  BY DEF LangInit
<1>2. Sought /\ Died
  BY <1>1 DEF Sought, Died, NoLoader
<1>3. NoAnswer.to.via # "find_ex"
  BY DEF NoAnswer, NoRequest
<1>4. AllToldRight
  BY <1>1, <1>3 DEF AllToldRight, ToldRight
<1>5. /\ NoLoader.state = "none" /\ NoLoader.list = <<>> /\ NoLoader.at = 1
      /\ NoLoader = [state |-> NoLoader.state, by |-> NoLoader.by, list |-> NoLoader.list,
                     at |-> NoLoader.at, pack |-> NoLoader.pack]
  BY DEF NoLoader
<1>6. Len(<<>>) = 0 /\ DOMAIN <<>> = 1..0 /\ DOMAIN <<>> = {}
  OBVIOUS
<1>7. /\ asked = [t \in Threads |-> asked[t]] /\ got = [t \in Threads |-> got[t]]
      /\ last_error = [t \in Threads |-> last_error[t]]
  BY DEF LangInit
<1>8. LangTypes
  BY <1>1, <1>5, <1>6, <1>7 DEF LangTypes
<1> QED
  BY <1>2, <1>4, <1>8 DEF LangInv

(* Nothing is missing from the list of the candidates.                     *)
LEMMA Candidates ==
  /\ Len(candidate_language_files) \in Nat
  /\ DOMAIN candidate_language_files = 1..Len(candidate_language_files)
  /\ \A k \in DOMAIN candidate_language_files : candidate_language_files[k] # <<>>
<1> DEFINE n == 2 * Len(search_roots)
<1>1. n \in Nat
  BY DEF search_roots
<1>2. candidate_language_files = [k \in 1..n |->
        <<search_roots[(k + 1) \div 2], IF k % 2 = 1 THEN runtime_lang ELSE "general">>]
  BY DEF candidate_language_files
<1> HIDE DEF n
<1>3. DOMAIN candidate_language_files = 1..n /\ Len(candidate_language_files) = n
  BY <1>1, <1>2
<1>4. ASSUME NEW k \in 1..n PROVE candidate_language_files[k] # <<>>
  <2>1. \A x, y : <<x, y>> # <<>>
    OBVIOUS
  <2> QED
    BY <1>2, <2>1
<1> QED
  BY <1>1, <1>3, <1>4

(* What was told stays right while the loader is not touched, and while it *)
(* was not yet ready for anybody; one thread may be told something new.    *)
LEMMA OthersRight ==
  ASSUME AllToldRight, loader' = loader \/ loader.state # "ready", NEW u \in Threads,
         \A t \in Threads : t # u => got'[t] = got[t] /\ last_error'[t] = last_error[t],
         ToldRight(got[u], last_error[u])'
  PROVE  AllToldRight'
<1> SUFFICES ASSUME NEW t \in Threads PROVE ToldRight(got[t], last_error[t])'
  BY DEF AllToldRight
<1>1. CASE t # u
  BY <1>1 DEF AllToldRight, ToldRight
<1> QED
  BY <1>1

LEMMA AllRight ==
  ASSUME AllToldRight, loader' = loader \/ loader.state # "ready",
         got' = got, last_error' = last_error
  PROVE  AllToldRight'
BY DEF AllToldRight, ToldRight

LEMMA StartStep == ASSUME LangInv, NEW t \in Threads, StartLoading(t) PROVE LangInv'
<1> DEFINE new == [NoLoader EXCEPT !.state = "loading", !.by = t,
                                   !.list = candidate_language_files]
<1>1. /\ loader.state = "none" /\ loader' = new /\ dead' = ~files.cwd
      /\ files' = files /\ asked' = asked /\ got' = got /\ last_error' = last_error
  BY DEF StartLoading, placeVars, talkVars
<1>2. /\ new.state = "loading" /\ new.list = candidate_language_files /\ new.at = 1
      /\ new.pack = <<>>
      /\ new = [state |-> new.state, by |-> new.by, list |-> new.list, at |-> new.at,
                pack |-> new.pack]
  <2>1. ASSUME NEW l
        PROVE  [NoLoader EXCEPT !.state = "loading", !.by = t, !.list = l] =
                  [state |-> "loading", by |-> t, list |-> l, at |-> 1, pack |-> <<>>]
    <3>1. /\ DOMAIN NoLoader = {"state", "by", "list", "at", "pack"}
          /\ NoLoader.at = 1 /\ NoLoader.pack = <<>>
      BY DEF NoLoader
    <3> DEFINE r == [NoLoader EXCEPT !.state = "loading", !.by = t, !.list = l]
    <3>2. /\ r = [k \in {"state", "by", "list", "at", "pack"} |-> r[k]]
          /\ r.state = "loading" /\ r.by = t /\ r.list = l /\ r.at = 1 /\ r.pack = <<>>
      BY <3>1
    <3> HIDE DEF r
    <3>3. r = [state |-> "loading", by |-> t, list |-> l, at |-> 1, pack |-> <<>>]
      BY <3>2
    <3> QED
      BY <3>3 DEF r
  <2>2. new = [state |-> "loading", by |-> t, list |-> candidate_language_files, at |-> 1,
               pack |-> <<>>]
    BY <2>1
  <2> HIDE DEF new
  <2> QED
    BY <2>2
<1> HIDE DEF new
<1>3. LangTypes'
  BY <1>1, <1>2, Candidates DEF LangInv, LangTypes
<1>4. Sought'
  <2>1. \A k \in 1..Len(new.list) : ~(k < new.at)
    BY <1>2
  <2> QED
    BY <1>1, <1>2, <2>1, Candidates DEF Sought
<1>5. AllToldRight'
  BY <1>1, AllRight DEF LangInv
<1> QED
  BY <1>1, <1>3, <1>4, <1>5 DEF LangInv, Died

LEMMA TryStep == ASSUME LangInv, NEW t \in Threads, TryNext(t) PROVE LangInv'
<1>1. /\ loader.state = "loading" /\ dead = FALSE
      /\ files' = files /\ asked' = asked /\ got' = got /\ last_error' = last_error
  BY DEF TryNext, Pending, placeVars, talkVars
<1>2. AllToldRight'
  BY <1>1, AllRight DEF LangInv
<1>3. /\ loader = [state |-> loader.state, by |-> loader.by, list |-> loader.list,
                   at |-> loader.at, pack |-> loader.pack]
      /\ loader.at \in Nat \ {0} /\ Len(loader.list) \in Nat /\ loader.pack = <<>>
      /\ DOMAIN loader.list = 1..Len(loader.list)
      /\ \A k \in 1..Len(loader.list) : k < loader.at => ~Loads(loader.list[k])
  BY <1>1 DEF LangInv, LangTypes, Sought
<1>4. CASE loader.at > Len(loader.list)
  <2>1. loader' = [loader EXCEPT !.state = "ready"] /\ dead' = dead
    BY <1>4 DEF TryNext
  <2>2. /\ loader'.state = "ready" /\ loader'.list = loader.list /\ loader'.at = loader.at
        /\ loader'.pack = <<>>
        /\ loader' = [state |-> loader'.state, by |-> loader'.by, list |-> loader'.list,
                      at |-> loader'.at, pack |-> loader'.pack]
    BY <1>3, <2>1
  <2>3. \A k \in 1..Len(loader.list) : k < loader.at
    BY <1>3, <1>4
  <2>4. Sought'
    BY <1>1, <1>3, <2>2, <2>3 DEF Sought, Loads, Content
  <2>5. LangTypes'
    BY <1>1, <2>2 DEF LangInv, LangTypes
  <2> QED
    BY <1>1, <1>2, <2>1, <2>4, <2>5 DEF LangInv, Died
<1>5. CASE ~(loader.at > Len(loader.list))
  <2> DEFINE c == loader.list[loader.at]
  <2>1. loader' = Tried(c) /\ dead' = (Content(c) = "denied") /\ loader.at \in 1..Len(loader.list)
    BY <1>3, <1>5 DEF TryNext
  <2>2. CASE Loads(c)
    <3>1. loader' = [loader EXCEPT !.state = "ready", !.pack = c]
      BY <2>1, <2>2 DEF Tried
    <3>2. /\ loader'.state = "ready" /\ loader'.list = loader.list /\ loader'.at = loader.at
          /\ loader'.pack = c
          /\ loader' = [state |-> loader'.state, by |-> loader'.by, list |-> loader'.list,
                        at |-> loader'.at, pack |-> loader'.pack]
      BY <1>3, <3>1
    <3>3. Sought'
      BY <1>1, <1>3, <2>1, <2>2, <3>2 DEF Sought, Loads, Content
    <3>4. LangTypes'
      BY <1>1, <3>2 DEF LangInv, LangTypes
    <3>5. dead' = FALSE
      <4>1. "denied" \notin DOMAIN Packs
        BY DEF Packs
      <4> QED
        BY <2>1, <2>2, <4>1 DEF Loads
    <3> QED
      BY <1>2, <3>3, <3>4, <3>5 DEF LangInv, Died
  <2>3. CASE ~Loads(c)
    <3>1. loader' = [loader EXCEPT !.at = @ + 1]
      BY <2>1, <2>3 DEF Tried
    <3>2. /\ loader'.state = "loading" /\ loader'.list = loader.list
          /\ loader'.at = loader.at + 1 /\ loader'.pack = <<>>
          /\ loader' = [state |-> loader'.state, by |-> loader'.by, list |-> loader'.list,
                        at |-> loader'.at, pack |-> loader'.pack]
      BY <1>1, <1>3, <3>1
    <3>3. \A k \in 1..Len(loader.list) : k < loader.at + 1 => k < loader.at \/ k = loader.at
      BY <1>3
    <3>4. \A k \in 1..Len(loader.list) : k < loader.at + 1 => ~Loads(loader.list[k])
      BY <1>3, <2>3, <3>3
    <3>5. Sought'
      BY <1>1, <1>3, <3>2, <3>4 DEF Sought, Loads, Content
    <3>6. LangTypes'
      BY <1>1, <1>3, <3>2 DEF LangInv, LangTypes
    <3>7. Died'
      <4>1. loader.at \in 1..(loader.at + 1)
        BY <1>3
      <4> QED
        BY <1>1, <2>1, <3>2, <4>1 DEF Died, Content
    <3> QED
      BY <1>2, <3>5, <3>6, <3>7 DEF LangInv
  <2> QED
    BY <2>2, <2>3
<1> QED
  BY <1>4, <1>5

(* What was told to a thread that waited, and to no other.                 *)
LEMMA ToldOne ==
  ASSUME LangInv, NEW t \in Threads, Pending(t), NEW rc, NEW text, NEW note,
         Told(t, rc, text), last_error' = SetLastError(t, note)
  PROVE  /\ LangTypes' /\ Sought' /\ Died'
         /\ loader' = loader
         /\ got'[t] = [to |-> asked[t], rc |-> rc, text |-> text]
         /\ last_error'[t] = note
         /\ \A u \in Threads : u # t => got'[u] = got[u] /\ last_error'[u] = last_error[u]
<1>1. /\ got' = [got EXCEPT ![t] = [to |-> asked[t], rc |-> rc, text |-> text]]
      /\ asked' = [asked EXCEPT ![t] = NoRequest]
      /\ last_error' = [last_error EXCEPT ![t] = note]
      /\ loader' = loader /\ dead' = dead /\ files' = files /\ dead = FALSE
  BY DEF Told, SetLastError, placeVars, Pending
<1>2. /\ got = [u \in Threads |-> got[u]] /\ asked = [u \in Threads |-> asked[u]]
      /\ last_error = [u \in Threads |-> last_error[u]]
  BY DEF LangInv, LangTypes
<1>3. LangTypes'
  BY <1>1, <1>2 DEF LangInv, LangTypes
<1>4. Sought'
  BY <1>1 DEF LangInv, Sought, Loads, Content
<1>5. Died'
  BY <1>1 DEF Died
<1> QED
  BY <1>1, <1>2, <1>3, <1>4, <1>5

LEMMA BadStep == ASSUME LangInv, NEW t \in Threads, BadArgument(t) PROVE LangInv'
<1>1. /\ LangTypes' /\ Sought' /\ Died'
      /\ loader' = loader
      /\ got'[t] = [to |-> asked[t], rc |-> -1, text |-> <<>>]
      /\ last_error'[t] = "invalid argument"
      /\ \A u \in Threads : u # t => got'[u] = got[u] /\ last_error'[u] = last_error[u]
  BY ToldOne DEF BadArgument
<1>2. got'[t].rc = -1 /\ got'[t].text = <<>>
  <2>1. ASSUME NEW a, NEW z, a = [to |-> z, rc |-> -1, text |-> <<>>]
        PROVE  a.rc = -1 /\ a.text = <<>>
    BY <2>1
  <2> QED
    BY <1>1, <2>1
<1>3. ToldRight(got[t], last_error[t])'
  BY <1>1, <1>2 DEF ToldRight
<1>4. AllToldRight'
  BY <1>1, <1>3, OthersRight DEF LangInv
<1> QED
  BY <1>1, <1>4 DEF LangInv

LEMMA LocaliseStep == ASSUME LangInv, NEW t \in Threads, Localise(t) PROVE LangInv'
<1> DEFINE text == IF asked[t].module = "utils" THEN utilsMessage(asked[t])
                                                ELSE graphicsMessage(asked[t])
<1>1. Pending(t) /\ asked[t].via = "message" /\ Told(t, 0, text) /\ last_error' = last_error
  BY DEF Localise
<1> HIDE DEF text
<1>2. last_error' = SetLastError(t, last_error[t])
  BY <1>1 DEF SetLastError, LangInv, LangTypes
<1>3. /\ LangTypes' /\ Sought' /\ Died'
      /\ loader' = loader
      /\ got'[t] = [to |-> asked[t], rc |-> 0, text |-> text]
      /\ \A u \in Threads : u # t => got'[u] = got[u] /\ last_error'[u] = last_error[u]
  BY <1>1, <1>2, ToldOne
<1>4. got'[t].to = asked[t]
  BY <1>3
<1>5. got'[t].to.via # "find_ex"
  BY <1>1, <1>4
<1>6. ToldRight(got[t], last_error[t])'
  BY <1>5 DEF ToldRight
<1>7. AllToldRight'
  BY <1>3, <1>6, OthersRight DEF LangInv
<1> QED
  BY <1>3, <1>7 DEF LangInv

LEMMA FindStep == ASSUME LangInv, NEW t \in Threads, FindEx(t) PROVE LangInv'
<1> DEFINE found == find(asked[t].module, asked[t].code)
<1>1. /\ Pending(t) /\ loader.state = "ready"
      /\ \/ loader.pack = <<>> /\ Told(t, -2, <<>>) /\ last_error' = SetLastError(t, "not loaded")
         \/ /\ loader.pack # <<>> /\ found = <<>>
            /\ Told(t, 1, <<>>) /\ last_error' = SetLastError(t, "not found")
         \/ found # <<>> /\ Told(t, 0, found) /\ last_error' = SetLastError(t, "")
  BY DEF FindEx
<1>2. found # <<>> => found = <<loader.pack, asked[t].module, asked[t].code>>
  BY DEF find
<1> HIDE DEF found
<1>3. ASSUME NEW rc, NEW text, NEW note, Told(t, rc, text), last_error' = SetLastError(t, note),
             ToldRight([to |-> asked[t], rc |-> rc, text |-> text], note)
      PROVE  LangInv'
  <2>1. /\ LangTypes' /\ Sought' /\ Died'
        /\ loader' = loader
        /\ got'[t] = [to |-> asked[t], rc |-> rc, text |-> text]
        /\ last_error'[t] = note
        /\ \A u \in Threads : u # t => got'[u] = got[u] /\ last_error'[u] = last_error[u]
    BY <1>1, <1>3, ToldOne
  <2>2. ToldRight(got[t], last_error[t])'
    BY <1>3, <2>1 DEF ToldRight
  <2>3. AllToldRight'
    BY <2>1, <2>2, OthersRight DEF LangInv
  <2> QED
    BY <2>1, <2>3 DEF LangInv
<1>4. loader.pack = <<>> => ToldRight([to |-> asked[t], rc |-> -2, text |-> <<>>], "not loaded")
  BY <1>1 DEF ToldRight
<1>5. ToldRight([to |-> asked[t], rc |-> 1, text |-> <<>>], "not found")
  BY <1>1 DEF ToldRight
<1>6. found # <<>> => ToldRight([to |-> asked[t], rc |-> 0, text |-> found], "")
  BY <1>1, <1>2 DEF ToldRight
<1> QED
  BY <1>1, <1>3, <1>4, <1>5, <1>6

LEMMA AskStep == ASSUME LangInv, NEW t \in Threads, NEW r, Ask(t, r) PROVE LangInv'
<1>1. /\ asked' = [asked EXCEPT ![t] = r] /\ got' = [got EXCEPT ![t] = NoAnswer]
      /\ loader' = loader /\ last_error' = last_error /\ files' = files
      /\ dead = FALSE /\ dead' = FALSE
  BY DEF Ask, placeVars
<1>2. /\ got = [u \in Threads |-> got[u]] /\ asked = [u \in Threads |-> asked[u]]
  BY DEF LangInv, LangTypes
<1>3. LangTypes'
  BY <1>1, <1>2 DEF LangInv, LangTypes
<1>4. Sought'
  BY <1>1 DEF LangInv, Sought, Loads, Content
<1>5. NoAnswer.to.via # "find_ex"
  BY DEF NoAnswer, NoRequest
<1>6. ToldRight(got[t], last_error[t])'
  BY <1>1, <1>2, <1>5 DEF ToldRight
<1>7. AllToldRight'
  BY <1>1, <1>2, <1>6, OthersRight DEF LangInv
<1> QED
  BY <1>1, <1>3, <1>4, <1>7 DEF LangInv, Died

LEMMA HandleStep == ASSUME LangInv, Handle PROVE LangInv'
<1>1. files' = files /\ dead' = dead /\ ~dead
  BY DEF Handle, Quiet, placeVars
<1>2. CASE UNCHANGED <<loader, talkVars>>
  <2>1. loader' = loader /\ asked' = asked /\ got' = got /\ last_error' = last_error
    BY <1>2 DEF talkVars
  <2>2. AllToldRight'
    BY <2>1, AllRight DEF LangInv
  <2> QED
    BY <1>1, <2>1, <2>2 DEF LangInv, LangTypes, Sought, Loads, Content, Died
<1>3. CASE ~UNCHANGED <<loader, talkVars>>
  <2>1. /\ loader' = NoLoader /\ last_error' = [t \in Threads |-> ""]
        /\ got' = [t \in Threads |-> NoAnswer] /\ asked' = asked
    BY <1>3 DEF Handle, MayUnload
  <2>2. /\ NoLoader.state = "none" /\ NoLoader.list = <<>> /\ NoLoader.at = 1
        /\ NoLoader.pack = <<>>
        /\ NoLoader = [state |-> NoLoader.state, by |-> NoLoader.by, list |-> NoLoader.list,
                       at |-> NoLoader.at, pack |-> NoLoader.pack]
    BY DEF NoLoader
  <2>3. Len(<<>>) = 0 /\ DOMAIN <<>> = 1..0 /\ DOMAIN <<>> = {}
    OBVIOUS
  <2>4. LangTypes'
    <3>1. \A k \in DOMAIN loader'.list : loader'.list[k] # <<>>
      BY <2>1, <2>2, <2>3
    <3>2. asked' = [t \in Threads |-> asked'[t]]
      BY <2>1 DEF LangInv, LangTypes
    <3>3. /\ got' = [t \in Threads |-> got'[t]]
          /\ last_error' = [t \in Threads |-> last_error'[t]]
      BY <2>1
    <3>4. /\ loader' = [state |-> loader'.state, by |-> loader'.by, list |-> loader'.list,
                        at |-> loader'.at, pack |-> loader'.pack]
          /\ loader'.state \in {"none", "loading", "ready"} /\ loader'.at \in Nat \ {0}
      <4>1. ASSUME NEW l, l = NoLoader
            PROVE  /\ l = [state |-> l.state, by |-> l.by, list |-> l.list, at |-> l.at,
                           pack |-> l.pack]
                   /\ l.state \in {"none", "loading", "ready"} /\ l.at \in Nat \ {0}
        BY <2>2, <4>1
      <4> QED
        BY <2>1, <4>1
    <3>5. loader'.list = <<>>
      BY <2>1, <2>2
    <3>6. Len(loader'.list) \in Nat /\ DOMAIN loader'.list = 1..Len(loader'.list)
      BY <2>3, <3>5
    <3> QED
      BY <3>1, <3>2, <3>3, <3>4, <3>6 DEF LangTypes
  <2>5. Sought'
    BY <2>1, <2>2 DEF Sought
  <2>6. NoAnswer.to.via # "find_ex"
    BY DEF NoAnswer, NoRequest
  <2>7. AllToldRight'
    BY <2>1, <2>6 DEF AllToldRight, ToldRight
  <2> QED
    BY <1>1, <2>4, <2>5, <2>7 DEF LangInv, Died
<1> QED
  BY <1>2, <1>3

LEMMA StillStep ==
  ASSUME LangInv, UNCHANGED <<loader, talkVars, dead, files>> PROVE LangInv'
<1>1. /\ loader' = loader /\ asked' = asked /\ got' = got /\ last_error' = last_error
      /\ dead' = dead /\ files' = files
  BY DEF talkVars
<1>2. AllToldRight'
  BY <1>1, AllRight DEF LangInv
<1> QED
  BY <1>1, <1>2 DEF LangInv, LangTypes, Sought, Loads, Content, Died

LEMMA LangStep == ASSUME LangInv, [LangNext]_langVars PROVE LangInv'
<1>1. CASE LangNext
  <2>1. ASSUME NEW l, SetLang(l) PROVE LangInv'
    <3>1. UNCHANGED <<loader, talkVars, dead, files>>
      BY <2>1 DEF SetLang
    <3> QED
      BY <3>1, StillStep
  <2> QED
    BY <1>1, <2>1, HandleStep, StartStep, TryStep, LocaliseStep, BadStep, FindStep, AskStep
       DEF LangNext
<1>2. CASE UNCHANGED langVars
  <2>1. UNCHANGED <<loader, talkVars, dead, files>>
    BY <1>2 DEF langVars, placeVars
  <2> QED
    BY <2>1, StillStep
<1> QED
  BY <1>1, <1>2

(* The reason last_error() gives for each code of find_ex().               *)
Note(rc) == CASE rc = -1 -> "invalid argument"
              [] rc = -2 -> "not loaded"
              [] rc = 1 -> "not found"
              [] rc = 0 -> ""

LEMMA NoteOf ==
  /\ Note(-1) = "invalid argument" /\ Note(-2) = "not loaded"
  /\ Note(1) = "not found" /\ Note(0) = ""
<1>1. Note(-1) = "invalid argument"
  BY DEF Note
<1>2. Note(-2) = "not loaded"
  BY DEF Note
<1>3. Note(1) = "not found"
  BY DEF Note
<1>4. Note(0) = ""
  BY DEF Note
<1> QED
  BY <1>1, <1>2, <1>3, <1>4

LEMMA LangHolds == LangInv => AnswersFit
<1> SUFFICES ASSUME LangInv PROVE AnswersFit
  OBVIOUS
<1>1. ASSUME loader.state = "ready", NEW k \in DOMAIN loader.list, Loads(loader.list[k])
      PROVE  loader.pack \in {loader.list[j] : j \in 1..k} \ {<<>>}
  <2>1. /\ DOMAIN loader.list = 1..Len(loader.list) /\ Len(loader.list) \in Nat
        /\ loader.list[k] # <<>> /\ k \in 1..Len(loader.list)
    BY <1>1 DEF LangInv, LangTypes
  <2>2. /\ loader.at \in DOMAIN loader.list /\ loader.pack = loader.list[loader.at]
        /\ ~(k < loader.at)
    BY <1>1 DEF LangInv, Sought
  <2>3. loader.at \in 1..k /\ loader.list[loader.at] # <<>>
    BY <2>1, <2>2 DEF LangInv, LangTypes
  <2> QED
    BY <2>2, <2>3
<1>2. ASSUME NEW a, NEW e, ToldRight(a, e), a.to.via = "find_ex"
      PROVE  LET r == a.to IN
             /\ (a.rc = 0) = (a.text # <<>>)
             /\ a.rc = 0 => a.text = <<loader.pack, r.module, r.code>>
             /\ e = CASE a.rc = -1 -> "invalid argument"
                      [] a.rc = -2 -> "not loaded"
                      [] a.rc = 1 -> "not found"
                      [] a.rc = 0 -> ""
             /\ a.rc = -2 => \A k \in DOMAIN loader.list : ~Loads(loader.list[k])
  <2>1. loader.state = "ready" /\ loader.pack = <<>> =>
            \A k \in DOMAIN loader.list : ~Loads(loader.list[k])
    BY DEF LangInv, LangTypes, Sought
  <2>2. \/ a.rc = -1 /\ a.text = <<>> /\ e = "invalid argument"
        \/ a.rc = -2 /\ a.text = <<>> /\ e = "not loaded" /\ loader.state = "ready"
           /\ loader.pack = <<>>
        \/ a.rc = 1 /\ a.text = <<>> /\ e = "not found"
        \/ a.rc = 0 /\ a.text = <<loader.pack, a.to.module, a.to.code>> /\ e = ""
    BY <1>2 DEF ToldRight
  <2>3. <<loader.pack, a.to.module, a.to.code>> # <<>>
    OBVIOUS
  <2> DEFINE text == <<loader.pack, a.to.module, a.to.code>>
             unloaded == loader.state = "ready" /\ loader.pack = <<>>
  <2>4. \/ a.rc = -1 /\ a.text = <<>> /\ e = "invalid argument"
        \/ a.rc = -2 /\ a.text = <<>> /\ e = "not loaded" /\ unloaded
        \/ a.rc = 1 /\ a.text = <<>> /\ e = "not found"
        \/ a.rc = 0 /\ a.text = text /\ e = ""
    BY <2>2
  <2>5. unloaded \in BOOLEAN /\ text # <<>>
    BY <2>3
  <2> HIDE DEF text, unloaded
  <2>6. /\ (a.rc = 0) = (a.text # <<>>) /\ e = Note(a.rc)
        /\ a.rc = 0 => a.text = text
        /\ a.rc = -2 => unloaded
    <3>1. CASE a.rc = -1 /\ a.text = <<>> /\ e = "invalid argument"
      BY <3>1, NoteOf
    <3>2. CASE a.rc = -2 /\ a.text = <<>> /\ e = "not loaded" /\ unloaded
      BY <3>2, NoteOf
    <3>3. CASE a.rc = 1 /\ a.text = <<>> /\ e = "not found"
      BY <3>3, NoteOf
    <3>4. CASE a.rc = 0 /\ a.text = text /\ e = ""
      BY <2>5, <3>4, NoteOf
    <3> QED
      BY <2>4, <3>1, <3>2, <3>3, <3>4
  <2> QED
    BY <2>1, <2>6 DEF Note, text, unloaded
<1>3. dead => ~files.cwd \/ \E k \in 1..loader.at : Content(loader.list[k]) = "denied"
  BY DEF LangInv, Died
<1> QED
  BY <1>1, <1>2, <1>3 DEF AnswersFit, LangInv, AllToldRight
-----------------------------------------------------------------------------
(* Only Handle() touches a library.                                        *)
LEMMA DynStep == ASSUME DynInv, [LangNext]_langVars PROVE DynInv'
<1>1. CASE Handle
  BY <1>1, DynHandle
<1>2. CASE UNCHANGED dynVars
  BY <1>2, DynUnchanged
<1>3. Handle \/ UNCHANGED dynVars
  BY DEF LangNext, langVars, SetLang, StartLoading, TryNext, Localise, BadArgument, FindEx,
         Ask, Told
<1> QED
  BY <1>1, <1>2, <1>3

(* However libraries are opened, moved, closed and opened over what was    *)
(* open (utils/dl.cpp), each is held by as many objects as it is open      *)
(* times, and the table never mixes two libraries (utils/lang.hpp).        *)
THEOREM HandlesCorrect == LangSpec => []HandlesBalanced
<1>1. LangInit => DynInv
  BY DynStart DEF LangInit
<1>2. DynInv /\ [LangNext]_langVars => DynInv'
  BY DynStep
<1> QED
  BY <1>1, <1>2, DynHolds, PTL DEF LangSpec

(* The packs are loaded once and from the first candidate that loads, and  *)
(* the code, the text and the last error a thread gets from find_ex() fit  *)
(* its own call, whatever the other threads ask meanwhile (utils/lang.cpp).*)
THEOREM AnswersCorrect == LangSpec => []AnswersFit
<1>1. LangInv /\ [LangNext]_langVars => LangInv'
  BY LangStep
<1> QED
  BY <1>1, LangStart, LangHolds, PTL DEF LangSpec
=============================================================================
