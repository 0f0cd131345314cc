------------------------ MODULE ModelTexturesProofs -------------------------
(***************************************************************************)
(* Proofs about ModelTextures, for any number of models, textures, units   *)
(* and scenes, copies and second loads included.  The pool beneath it is   *)
(* known by what ResourceManagerProofs shows of it: as long as fewer       *)
(* textures are made than the pool has generations, a handle leads to its  *)
(* own texture or nowhere.  The second half is about TextureConfig, for    *)
(* lists of parameters of any length.                                      *)
(***************************************************************************)
EXTENDS GraphicsLibrary, SequenceTheorems, FiniteSetTheorems, WellFoundedInduction, TLAPS

RP == INSTANCE ResourceManagerProofs WITH Clients <- {"loader"}

InPool == {o \in 1..made : Valid(o)}
Existing == {o \in 1..made : Alive(o)}

PoolInv == RP!FewInv
Few == MaxObj < GenMod

LEMMA PoolConstants ==
  /\ RP!ConstantsAssumption
  /\ MaxObj \in Nat /\ MaxSlots \in Nat
BY PoolAssumption DEF PoolAssumption, RP!ConstantsAssumption

LEMMA PoolSame == InPool = RP!Live
BY DEF InPool, RP!Live, Valid, RM!IsValid, RP!IsValid

LEMMA PoolStart == ASSUME RM!Init PROVE PoolInv
<1>1. RP!Init
  BY DEF RM!Init, RP!Init, RM!Slots, RP!Slots, RM!NullHandle, RP!NullHandle
<1> QED
  BY <1>1, PoolConstants, RP!SeldomStart DEF PoolInv

LEMMA PoolAcquire ==
  ASSUME Few, PoolInv, RM!Acquire
  PROVE  /\ PoolInv' /\ made < MaxObj /\ made' = made + 1 /\ strong' = strong
         /\ InPool' = InPool \cup {made + 1}
<1>1. RP!Acquire
  BY DEF RP!Acquire, RM!Acquire, RP!AcquireReused, RM!AcquireReused, RP!AcquireFresh,
         RM!AcquireFresh, RP!Occupy, RM!Occupy, RP!Bump, RM!Bump, RP!Inc, RM!Inc
<1>2. RP!FewInv' /\ RP!Store!Acquire
  BY <1>1, PoolConstants, RP!FewAcquire DEF PoolInv, Few
<1>3. /\ InPool' = {o \in 1..made : RP!IsValid(issued[o])}'
      /\ InPool = {o \in 1..made : RP!IsValid(issued[o])}
  BY PoolSame DEF InPool, Valid, RM!IsValid, RP!IsValid
<1> QED
  BY <1>2, <1>3 DEF RP!Store!Acquire, PoolInv

LEMMA PoolRelease ==
  ASSUME Few, PoolInv, NEW o \in 1..made, RM!Release(issued[o])
  PROVE  /\ PoolInv' /\ made' = made /\ strong' = strong
         /\ InPool' = InPool \ {o}
<1>1. RP!Release(issued[o])
  BY DEF RP!Release, RM!Release, RP!ReleaseGranted, RM!ReleaseGranted, RP!ReleaseRefused,
         RM!ReleaseRefused, RP!IsValid, RM!IsValid, RP!Bump, RM!Bump, RP!Inc, RM!Inc,
         RP!pool, RM!pool, RP!history, RM!history
<1>2. /\ RP!FewInv'
      /\ o \in RP!Live => RP!Store!Release(o)
      /\ o \notin RP!Live => RP!Live' = RP!Live /\ made' = made /\ strong' = strong
  BY <1>1, PoolConstants, RP!FewRelease DEF PoolInv, Few
<1>3. /\ InPool' = {p \in 1..made : RP!IsValid(issued[p])}' /\ InPool' = RP!Live'
      /\ InPool = {p \in 1..made : RP!IsValid(issued[p])} /\ InPool = RP!Live
  BY DEF InPool, Valid, RM!IsValid, RP!IsValid, RP!Live
<1>4. CASE o \in RP!Live
  BY <1>2, <1>3, <1>4 DEF RP!Store!Release, PoolInv
<1>5. CASE o \notin RP!Live
  BY <1>2, <1>3, <1>5 DEF PoolInv
<1> QED
  BY <1>4, <1>5

LEMMA PoolGet ==
  ASSUME Few, PoolInv, NEW o \in 1..made, RM!Get("loader", issued[o])
  PROVE  /\ PoolInv' /\ made' = made /\ InPool' = InPool
         /\ strong' = [strong EXCEPT !["loader"] = IF o \in InPool THEN o ELSE 0]
<1>1. RP!Get("loader", issued[o])
  BY DEF RP!Get, RM!Get, RP!Lookup, RM!Lookup, RP!IsValid, RM!IsValid,
         RP!pool, RM!pool, RP!history, RM!history
<1>2. RP!FewInv' /\ RP!Store!Get("loader", o)
  BY <1>1, PoolConstants, RP!FewGet DEF PoolInv, Few
<1>3. /\ InPool' = {p \in 1..made : RP!IsValid(issued[p])}'
      /\ InPool = {p \in 1..made : RP!IsValid(issued[p])}
  BY DEF InPool, Valid, RM!IsValid, RP!IsValid
<1> QED
  BY <1>2, <1>3 DEF RP!Store!Get, PoolInv

LEMMA PoolDrop ==
  ASSUME PoolInv, RM!Drop("loader")
  PROVE  /\ PoolInv' /\ made' = made /\ InPool' = InPool
         /\ strong' = [strong EXCEPT !["loader"] = 0]
<1>1. RP!Drop("loader")
  BY DEF RP!Drop, RM!Drop, RP!pool, RM!pool, RP!history, RM!history
<1>2. RP!FewInv' /\ RP!Store!Drop("loader")
  BY <1>1, PoolConstants, RP!FewDrop DEF PoolInv
<1>3. /\ InPool' = {p \in 1..made : RP!IsValid(issued[p])}'
      /\ InPool = {p \in 1..made : RP!IsValid(issued[p])}
  BY DEF InPool, Valid, RM!IsValid, RP!IsValid
<1> QED
  BY <1>2, <1>3 DEF RP!Store!Drop, PoolInv

LEMMA PoolStay ==
  ASSUME PoolInv, UNCHANGED poolVars
  PROVE  /\ PoolInv' /\ made' = made /\ strong' = strong /\ InPool' = InPool
<1>1. UNCHANGED RP!vars
  BY DEF poolVars, RP!vars, RP!pool, RP!history
<1>2. RP!FewInv'
  BY <1>1, PoolConstants, RP!FewStay DEF PoolInv
<1>3. made' = made /\ strong' = strong /\ InPool' = InPool
  BY DEF poolVars, InPool, Valid, RM!IsValid
<1> QED
  BY <1>2, <1>3 DEF PoolInv

LEMMA PoolTypes ==
  ASSUME PoolInv
  PROVE  /\ made \in Nat /\ made <= MaxObj /\ MaxObj \in Nat
         /\ strong \in [{"loader"} -> 0..MaxObj]
<1>1. RP!TypeOK
  BY DEF PoolInv, RP!FewInv, RP!IInv
<1> QED
  BY <1>1, PoolConstants DEF RP!TypeOK
-----------------------------------------------------------------------------
Holding == {"fetched", "loaded", "failing", "unwind"}
Taking == Holding \cup {"acquired"}
Loading == Taking \cup {"next"}
Ops == Loading \cup {"idle", "draw", "release"}

(* The running call, its locals, and what the loader holds.                *)
CallInv ==
    /\ op \in Ops
    /\ op # "idle" => cur \in Models /\ state[cur] = "ready"
    /\ strong = [c \in {"loader"} |-> IF op \in Holding THEN h ELSE 0]
    /\ op \in Loading => rest \in Seq(Seq(Keys)) /\ hs \in Seq(Objects)
    /\ op \in Taking =>
          /\ h \in 1..made /\ (h \in InPool <=> op # "unwind") /\ keyOf[h] \in Keys
          /\ rest # <<>> /\ Head(rest) # <<>> /\ cache[cur][keyOf[h]] = 0
    /\ op = "draw" => rest \in Seq(Seq(Objects)) /\ hs \in Seq(Objects)
    /\ todo \subseteq Keys

GlTypes ==
    /\ id \in [Objects -> 0..MaxObj] /\ unit \in [Objects -> 0..NUnits]
    /\ keyOf \in [Objects -> Keys \cup {NoImage}]
    /\ table \in [Units -> 0..MaxObj] /\ activePos \in 0..NUnits
    /\ image \in [Objects -> Keys \cup {NoImage}]
    /\ active \in Units /\ bound \in [Units -> 0..MaxObj]

ModelTypes ==
    /\ state \in [Models -> {"none", "ready", "dead"}]
    /\ cache \in [Models -> [Keys -> 0..made]]
    /\ meshes \in [Models -> Seq(Seq(Objects))]
    /\ copied \subseteq Models
    /\ \A m \in Models : state[m] # "ready" => cache[m] = Empty /\ meshes[m] = <<>>

(* A name that exists is in use, for one texture.                          *)
NamesInv ==
    /\ names \subseteq Objects /\ Cardinality(names) <= made
    /\ \A o \in Existing : id[o] \in names
    /\ \A o, p \in Existing : id[o] = id[p] => o = p
    /\ bindId \in names \cup {0}
    /\ op \in {"acquired", "fetched"} => bindId # id[h]

(* The two sides of the table of units agree.                              *)
UnitsInv ==
    /\ \A o \in Objects : o > made => unit[o] = NoUnit
    /\ op \in Taking => unit[h] = NoUnit
    /\ \A o \in Existing : unit[o] # NoUnit => table[unit[o]] = id[o]
    /\ \A u \in Units : table[u] # 0 => \E o \in Existing : unit[o] = u

ImagesInv ==
    \A o \in Existing :
        unit[o] # NoUnit \/ (op = "loaded" /\ o = h) => image[id[o]] = keyOf[o]

Releasing(m) == op = "release" /\ cur = m

(* What a model caches has a unit, and what its meshes use it caches.      *)
CacheInv ==
    /\ \A m \in Models : \A o \in Cached(m) : unit[o] # NoUnit
    /\ \A m \in Models : Releasing(m) \/ Handles(m) \subseteq Cached(m)
    /\ op \in Loading => \A i \in DOMAIN hs : hs[i] \in Cached(cur)

(* Two models have a cache in common or no texture.                        *)
Apart(m, n) == Cached(m) \cap Cached(n) = {}

SharingInv ==
    /\ \A m, n \in Models :
          Releasing(m) \/ Releasing(n) \/ Apart(m, n) \/ cache[m] = cache[n]
    /\ \A m, n \in Models : m # n /\ m \notin copied => Apart(m, n)
    /\ op \in Loading => \A n \in Models : n # cur => Apart(cur, n)

(* The textures of a model are all in the pool or none is; while a model   *)
(* releases its own, those who share them still have what it has left.     *)
Whole(m) == Cached(m) \subseteq InPool
Gone(m) == Cached(m) \cap InPool = {}
Doomed(n) == \A k \in Keys : cache[n][k] \in InPool => k \in todo /\ cache[cur][k] = cache[n][k]

WholeInv ==
    /\ op # "release" => \A m \in Models : Whole(m) \/ Gone(m)
    /\ op \in Loading => Whole(cur)
    /\ op = "release" =>
          /\ \A n \in Models \ {cur} : Doomed(n) \/ (Whole(n) /\ Apart(n, cur))
          /\ \A k \in Keys : k \in todo => cache[cur][k] # 0
          /\ \A k \in Keys \ todo : cache[cur][k] \notin InPool
    /\ \A m \in Models \ copied : Releasing(m) \/ Whole(m)

(* The unit the library takes for active is the active one, or unit 0 is   *)
(* and what was bound to the other is bound to it still.                   *)
DrawInv ==
    /\ op = "draw" =>
          /\ \A i \in DOMAIN rest : \A j \in DOMAIN rest[i] : rest[i][j] \in Cached(cur)
          /\ \A i \in DOMAIN hs :
                hs[i] \in Cached(cur) \cap InPool /\ bound[unit[hs[i]]] = id[hs[i]]
    /\ activePos # NoUnit =>
          table[activePos] # 0 /\ (activePos = 0 \/ bound[activePos] = table[activePos])
    /\ active = 0 \/ (op = "draw" /\ hs # <<>>)
    /\ op = "draw" /\ hs # <<>> =>
          /\ rest # <<>>
          /\ active = activePos \/ (active = 0 /\ \A i \in DOMAIN hs : unit[hs[i]] = activePos)

TexInv ==
    /\ PoolInv /\ CallInv /\ GlTypes /\ ModelTypes /\ NamesInv /\ UnitsInv /\ ImagesInv
    /\ CacheInv /\ SharingInv /\ WholeInv /\ DrawInv
-----------------------------------------------------------------------------
(* The first of a sequence of sequences loses its first, or goes itself.   *)
LEMMA PopInner ==
  ASSUME NEW S, NEW r \in Seq(Seq(S)), r # <<>>, Head(r) # <<>>,
         NEW q, q = <<Tail(Head(r))>> \o Tail(r)
  PROVE  /\ q \in Seq(Seq(S)) /\ q # <<>> /\ Len(q) = Len(r)
         /\ Head(Head(r)) \in S
         /\ 1 \in DOMAIN r /\ 1 \in DOMAIN r[1] /\ Head(Head(r)) = r[1][1]
<1> DEFINE a == Head(r)
           b == Tail(a)
           c == Tail(r)
<1>1. a \in Seq(S) /\ a # <<>> /\ a = r[1] /\ 1 \in DOMAIN r /\ Len(r) \in Nat \ {0}
  OBVIOUS
<1>2. b \in Seq(S)
  BY <1>1
<1>3. c \in Seq(Seq(S)) /\ Len(c) = Len(r) - 1
  OBVIOUS
<1>4. Head(a) \in S /\ 1 \in DOMAIN a /\ Head(a) = a[1]
  BY <1>1
<1> HIDE DEF a, b, c
<1>5. /\ <<b>> \in Seq(Seq(S)) /\ q = <<b>> \o c /\ q \in Seq(Seq(S)) /\ Len(q) = 1 + Len(c)
  BY <1>2, <1>3 DEF a, b, c
<1>6. q # <<>> /\ Len(q) = Len(r)
  BY <1>1, <1>3, <1>5
<1> QED
  BY <1>1, <1>4, <1>5, <1>6 DEF a

LEMMA PopWithin ==
  ASSUME NEW S, NEW P, NEW r \in Seq(Seq(S)), r # <<>>, Head(r) # <<>>,
         \A k \in DOMAIN r : \A l \in DOMAIN r[k] : r[k][l] \in P
  PROVE  /\ <<Tail(Head(r))>> \o Tail(r) # <<>>
         /\ \A i \in DOMAIN (<<Tail(Head(r))>> \o Tail(r)) :
                \A j \in DOMAIN (<<Tail(Head(r))>> \o Tail(r))[i] :
                    (<<Tail(Head(r))>> \o Tail(r))[i][j] \in P
<1> DEFINE a == Head(r)
           b == Tail(a)
           c == Tail(r)
           q == <<b>> \o c
<1>1. a \in Seq(S) /\ a # <<>> /\ a = r[1] /\ 1 \in DOMAIN r
  OBVIOUS
<1>2. b \in Seq(S) /\ \A j \in DOMAIN b : j + 1 \in DOMAIN a /\ b[j] = a[j + 1]
  BY <1>1
<1>3. c \in Seq(Seq(S)) /\ \A i \in DOMAIN c : i + 1 \in DOMAIN r /\ c[i] = r[i + 1]
  OBVIOUS
<1> HIDE DEF a, b, c
<1>4. /\ q[1] = b /\ \A i \in DOMAIN q : i # 1 => i - 1 \in DOMAIN c /\ q[i] = c[i - 1]
      /\ q # <<>>
  BY <1>2, <1>3
<1> HIDE DEF q
<1>5. ASSUME NEW i \in DOMAIN q, NEW j \in DOMAIN q[i] PROVE q[i][j] \in P
  <2>1. CASE i = 1
    BY <1>1, <1>2, <1>4, <2>1
  <2>2. CASE i # 1
    <3>1. PICK k \in DOMAIN r : q[i] = r[k]
      BY <1>3, <1>4, <2>2
    <3> QED
      BY <3>1
  <2> QED
    BY <2>1, <2>2
<1>6. q # <<>> /\ \A i \in DOMAIN q : \A j \in DOMAIN q[i] : q[i][j] \in P
  BY <1>4, <1>5
<1> QED
  BY <1>6, Zenon DEF q, a, b, c

LEMMA PopOuter ==
  ASSUME NEW S, NEW r \in Seq(S), r # <<>>
  PROVE  /\ Tail(r) \in Seq(S) /\ Len(Tail(r)) = Len(r) - 1 /\ Head(r) \in S
         /\ \A i \in DOMAIN Tail(r) : i + 1 \in DOMAIN r /\ Tail(r)[i] = r[i + 1]
OBVIOUS

LEMMA OneMore ==
  ASSUME NEW S, NEW s \in Seq(S), NEW e \in S
  PROVE  /\ Append(s, e) \in Seq(S) /\ Append(s, e) # <<>> /\ Len(Append(s, e)) = Len(s) + 1
         /\ Append(s, e)[Len(s) + 1] = e
         /\ \A i \in DOMAIN Append(s, e) :
                i = Len(s) + 1 \/ (i \in DOMAIN s /\ Append(s, e)[i] = s[i])
OBVIOUS
-----------------------------------------------------------------------------
(* The steps that make, release or drop a texture or give it an image or a *)
(* unit, and all the others.                                               *)
OtherStep ==
    /\ UNCHANGED <<poolVars, texVars, bindId, table, names, image>>
    /\ op # "unwind" /\ op' \notin {"acquired", "fetched", "loaded"}
    /\ op' \in Taking => op' = "failing" /\ op \in {"fetched", "loaded"} /\ h' = h
    /\ UNCHANGED <<activePos, active, bound>> \/ ActivateTexture \/ DrawElements

LEMMA Kinds ==
  ASSUME Next
  PROVE  \/ OtherStep
         \/ AcquireTexture \/ FetchTexture \/ LoadImage \/ AcquireUnit
         \/ ReleaseFailed \/ Unwind \/ \E k \in Keys : ReleaseOwned(k)
<1> USE DEF OtherStep, Taking, Holding, Goto, unitVars, texVars, glVars, callVars
<1>1. ASSUME NEW m \in Models, NEW sc \in Scenes, StartLoad(m, sc) PROVE OtherStep
  BY <1>1 DEF StartLoad
<1>2. ASSUME CachedTexture PROVE OtherStep
  BY <1>2 DEF CachedTexture
<1>3. ASSUME LoadFails PROVE OtherStep
  BY <1>3 DEF LoadFails
<1>4. ASSUME UnitsExhausted PROVE OtherStep
  BY <1>4 DEF UnitsExhausted
<1>5. ASSUME FinishMesh PROVE OtherStep
  BY <1>5 DEF FinishMesh
<1>6. ASSUME FinishLoad PROVE OtherStep
  BY <1>6 DEF FinishLoad
<1>7. ASSUME NEW m \in Models, StartDraw(m) PROVE OtherStep
  BY <1>7 DEF StartDraw
<1>8. ASSUME ActivateTexture PROVE OtherStep
  BY <1>8 DEF ActivateTexture, Drawing
<1>9. ASSUME DrawFails PROVE OtherStep
  BY <1>9 DEF DrawFails, Drawing
<1>10. ASSUME DrawElements PROVE OtherStep
  BY <1>10 DEF DrawElements, Drawing
<1>11. ASSUME FinishDraw PROVE OtherStep
  BY <1>11 DEF FinishDraw
<1>12. ASSUME NEW m \in Models, StartDestroy(m) PROVE OtherStep
  BY <1>12 DEF StartDestroy
<1>13. ASSUME FinishDestroy PROVE OtherStep
  BY <1>13 DEF FinishDestroy
<1>14. ASSUME NEW m \in Models, NEW n \in Models, CopyModel(m, n) PROVE OtherStep
  BY <1>14 DEF CopyModel
<1> QED
  BY <1>1, <1>2, <1>3, <1>4, <1>5, <1>6, <1>7, <1>8, <1>9, <1>10, <1>11, <1>12, <1>13, <1>14
     DEF Next, Load, Draw, Destroy

LEMMA ExistingIs ==
  CallInv /\ made \in Nat =>
      Existing = InPool \cup {o \in 1..made : op \in Holding /\ o = h}
<1> SUFFICES ASSUME CallInv, made \in Nat
             PROVE  Existing = InPool \cup {o \in 1..made : op \in Holding /\ o = h}
  OBVIOUS
<1>1. strong["loader"] = IF op \in Holding THEN h ELSE 0
  BY DEF CallInv
<1>2. \A o \in 1..made : o # 0
  OBVIOUS
<1> QED
  BY <1>1, <1>2 DEF Existing, InPool, Alive

(* What each of those steps does to the pool.                              *)
LEMMA Numbers ==
  ASSUME TexInv
  PROVE  /\ made \in Nat /\ made <= MaxObj /\ MaxObj \in Nat /\ Objects = 1..MaxObj
         /\ 1..made \subseteq Objects
         /\ Existing = InPool \cup {o \in 1..made : op \in Holding /\ o = h}
         /\ InPool \subseteq 1..made /\ 0 \in 0..made /\ 0 \notin Objects
         /\ \A o \in 0..made : o # 0 => o \in 1..made
         /\ made < MaxObj => made + 1 \in Objects
         /\ \A o : o \in 1..(made + 1) <=> (o \in 1..made \/ o = made + 1)
<1>1. made \in Nat /\ made <= MaxObj /\ MaxObj \in Nat
  BY PoolTypes DEF TexInv
<1>2. /\ Objects = 1..MaxObj /\ 1..made \subseteq Objects /\ 0 \in 0..made /\ 0 \notin Objects
      /\ \A o \in 0..made : o # 0 => o \in 1..made
      /\ made < MaxObj => made + 1 \in Objects
      /\ \A o : o \in 1..(made + 1) <=> (o \in 1..made \/ o = made + 1)
  BY <1>1 DEF Objects
<1> QED
  BY <1>1, <1>2, ExistingIs DEF TexInv, InPool

LEMMA NextNumbers ==
  ASSUME PoolInv', CallInv'
  PROVE  /\ made' \in Nat /\ made' <= MaxObj /\ MaxObj \in Nat
         /\ Existing' = InPool' \cup {o \in 1..made' : op' \in Holding /\ o = h'}
<1>1. (PoolInv => made \in Nat /\ made <= MaxObj /\ MaxObj \in Nat)'
  BY PoolTypes, PTL
<1>2. (CallInv /\ made \in Nat =>
          Existing = InPool \cup {o \in 1..made : op \in Holding /\ o = h})'
  BY ExistingIs, PTL
<1> QED
  BY <1>1, <1>2

LEMMA PoolOfAcquire ==
  ASSUME Few, TexInv, AcquireTexture
  PROVE  /\ PoolInv' /\ made < MaxObj /\ made' = made + 1 /\ strong' = strong
         /\ InPool' = InPool \cup {made + 1}
BY PoolAcquire DEF AcquireTexture, TexInv

LEMMA PoolOfFetch ==
  ASSUME Few, TexInv, FetchTexture
  PROVE  /\ PoolInv' /\ made' = made /\ InPool' = InPool /\ h \in InPool
         /\ strong' = [strong EXCEPT !["loader"] = h]
<1>1. op = "acquired" /\ RM!Get("loader", issued[h]) /\ h \in 1..made /\ h \in InPool
  BY DEF FetchTexture, TexInv, CallInv, Taking
<1> QED
  BY <1>1, PoolGet DEF TexInv

LEMMA PoolOfStay ==
  ASSUME TexInv, OtherStep \/ LoadImage
  PROVE  PoolInv' /\ made' = made /\ InPool' = InPool /\ strong' = strong
<1>1. UNCHANGED poolVars
  BY DEF OtherStep, LoadImage
<1> QED
  BY <1>1, PoolStay DEF TexInv

LEMMA PoolOfDrop ==
  ASSUME TexInv, AcquireUnit \/ Unwind
  PROVE  /\ PoolInv' /\ made' = made /\ InPool' = InPool
         /\ strong' = [strong EXCEPT !["loader"] = 0]
<1>1. RM!Drop("loader")
  BY DEF AcquireUnit, Unwind
<1> QED
  BY <1>1, PoolDrop DEF TexInv

LEMMA PoolOfFailed ==
  ASSUME Few, TexInv, ReleaseFailed
  PROVE  PoolInv' /\ made' = made /\ strong' = strong /\ InPool' = InPool \ {h}
<1>1. op = "failing" /\ RM!Release(issued[h]) /\ h \in 1..made
  BY DEF ReleaseFailed, TexInv, CallInv, Taking, Holding
<1> QED
  BY <1>1, PoolRelease DEF TexInv

LEMMA PoolOfOwned ==
  ASSUME Few, TexInv, NEW k \in Keys, ReleaseOwned(k)
  PROVE  /\ PoolInv' /\ made' = made /\ strong' = strong
         /\ InPool' = InPool \ {cache[cur][k]}
         /\ cache[cur][k] \in 1..made /\ op = "release" /\ cur \in Models /\ k \in todo
<1>1. op = "release" /\ k \in todo /\ cur \in Models /\ RM!Release(issued[cache[cur][k]])
  BY DEF ReleaseOwned, TexInv, CallInv
<1>2. cache[cur][k] # 0 /\ cache[cur][k] \in 0..made
  BY <1>1 DEF TexInv, WholeInv, ModelTypes
<1>3. cache[cur][k] \in 1..made
  BY <1>2, Numbers
<1> QED
  BY <1>1, <1>3, PoolRelease DEF TexInv
-----------------------------------------------------------------------------
LEMMA CallStep1 ==
  ASSUME Few, TexInv,
         \/ \E m \in Models, sc \in Scenes : StartLoad(m, sc)
         \/ CachedTexture \/ LoadFails \/ UnitsExhausted \/ FinishMesh \/ FinishLoad
  PROVE  CallInv'
<1>0. /\ CallInv /\ made \in Nat /\ made <= MaxObj /\ Objects = 1..MaxObj
      /\ Empty \in [Keys -> 0..made]
  BY Numbers DEF TexInv, Empty
<1>a. OtherStep => InPool' = InPool /\ made' = made /\ strong' = strong
  BY PoolOfStay
<1>b. \A m \in Models : cache[m] \in [Keys -> 0..made]
  BY DEF TexInv, ModelTypes
<1> USE DEF Goto, unitVars, texVars, glVars, callVars, modelVars, meshVars
<1>1. ASSUME NEW m \in Models, NEW sc \in Scenes, StartLoad(m, sc) PROVE CallInv'
  <2>1. /\ op = "idle" /\ op' = "next" /\ cur' = m /\ rest' = sc /\ hs' = <<>> /\ todo' = todo
        /\ state' = [state EXCEPT ![m] = "ready"] /\ strong' = strong
    BY <1>1 DEF StartLoad, poolVars
  <2>2. state'[m] = "ready"
    BY <2>1 DEF TexInv, ModelTypes
  <2>3. sc \in Seq(Seq(Keys)) /\ <<>> \in Seq(Objects)
    BY TexturesAssumption DEF TexturesAssumption
  <2> QED
    BY <1>0, <2>1, <2>2, <2>3 DEF CallInv, Ops, Loading, Taking, Holding
<1>2. ASSUME CachedTexture PROVE CallInv'
  <2>1. /\ op = "next" /\ op' = "next" /\ cur' = cur /\ state' = state /\ todo' = todo
        /\ strong' = strong /\ rest # <<>> /\ Head(rest) # <<>>
        /\ rest' = <<Tail(Head(rest))>> \o Tail(rest)
        /\ hs' = Append(hs, cache[cur][Head(Head(rest))]) /\ cache[cur][Head(Head(rest))] # 0
    BY <1>2 DEF CachedTexture, poolVars
  <2>2. rest \in Seq(Seq(Keys)) /\ hs \in Seq(Objects) /\ cur \in Models
    BY <1>0, <2>1 DEF CallInv, Loading
  <2>3. rest' \in Seq(Seq(Keys)) /\ Head(Head(rest)) \in Keys
    BY <2>1, <2>2, PopInner
  <2>4. cache[cur][Head(Head(rest))] \in Objects
    <3> DEFINE o == cache[cur][Head(Head(rest))]
    <3>1. o \in 0..made /\ o # 0
      BY <1>b, <2>1, <2>2, <2>3
    <3> HIDE DEF o
    <3>2. o \in Objects
      BY <3>1, Numbers
    <3> QED
      BY <3>2 DEF o
  <2>5. hs' \in Seq(Objects)
    BY <2>1, <2>2, <2>4
  <2> QED
    BY <1>0, <2>1, <2>3, <2>5 DEF CallInv, Ops, Loading, Taking, Holding
<1>3. ASSUME LoadFails \/ UnitsExhausted PROVE CallInv'
  <2>1. /\ op \in {"fetched", "loaded"} /\ op' = "failing" /\ cur' = cur /\ state' = state
        /\ todo' = todo /\ rest' = rest /\ hs' = hs /\ h' = h /\ keyOf' = keyOf
        /\ cache' = cache /\ UNCHANGED poolVars
    BY <1>3 DEF LoadFails, UnitsExhausted
  <2>2. InPool' = InPool /\ made' = made /\ strong' = strong
    BY <2>1 DEF poolVars, InPool, Valid, RM!IsValid
  <2> QED
    BY <1>0, <2>1, <2>2 DEF CallInv, Ops, Loading, Taking, Holding
<1>4. ASSUME FinishMesh PROVE CallInv'
  <2>1. /\ op = "next" /\ op' = "next" /\ cur' = cur /\ state' = state /\ todo' = todo
        /\ strong' = strong /\ rest # <<>> /\ rest' = Tail(rest) /\ hs' = <<>>
    BY <1>4 DEF FinishMesh, poolVars
  <2>2. rest' \in Seq(Seq(Keys)) /\ <<>> \in Seq(Objects)
    BY <1>0, <2>1 DEF CallInv, Loading
  <2> QED
    BY <1>0, <2>1, <2>2 DEF CallInv, Ops, Loading, Taking, Holding
<1>5. ASSUME FinishLoad PROVE CallInv'
  <2>1. op = "next" /\ op' = "idle" /\ todo' = todo /\ strong' = strong
    BY <1>5 DEF FinishLoad, poolVars
  <2> QED
    BY <1>0, <2>1 DEF CallInv, Ops, Loading, Taking, Holding
<1> QED
  BY <1>1, <1>2, <1>3, <1>4, <1>5

LEMMA CallStep2 ==
  ASSUME Few, TexInv,
         \/ AcquireTexture \/ FetchTexture \/ LoadImage \/ AcquireUnit
         \/ ReleaseFailed \/ Unwind \/ \E k \in Keys : ReleaseOwned(k)
  PROVE  CallInv'
<1>0. /\ CallInv /\ made \in Nat /\ made <= MaxObj /\ Objects = 1..MaxObj
      /\ InPool \subseteq 1..made
  BY Numbers DEF TexInv
<1>b. cur \in Models => cache[cur] \in [Keys -> 0..made]
  BY DEF TexInv, ModelTypes
<1> USE DEF Goto, unitVars, texVars, glVars, callVars, modelVars, meshVars
<1>1. ASSUME AcquireTexture PROVE CallInv'
  <2> DEFINE k == Head(Head(rest))
  <2>1. /\ op = "next" /\ op' = "acquired" /\ cur' = cur /\ state' = state /\ todo' = todo
        /\ rest' = rest /\ hs' = hs /\ h' = made + 1 /\ cache' = cache
        /\ rest # <<>> /\ Head(rest) # <<>> /\ cache[cur][k] = 0
        /\ keyOf' = [keyOf EXCEPT ![made + 1] = k]
    BY <1>1 DEF AcquireTexture
  <2>2. rest \in Seq(Seq(Keys))
    BY <1>0, <2>1 DEF CallInv, Loading
  <2>3. k \in Keys
    BY <2>1, <2>2, PopInner
  <2>4. /\ made' = made + 1 /\ strong' = strong /\ InPool' = InPool \cup {made + 1}
        /\ made < MaxObj
    BY <1>1, PoolOfAcquire
  <2>5. made + 1 \in Objects /\ keyOf'[made + 1] = k /\ made + 1 \in 1..(made + 1)
    BY <1>0, <2>1, <2>4, Numbers DEF TexInv, GlTypes
  <2> HIDE DEF k
  <2> QED
    BY <1>0, <2>1, <2>3, <2>4, <2>5 DEF CallInv, Ops, Loading, Taking, Holding
<1>2. ASSUME FetchTexture PROVE CallInv'
  <2>1. /\ op = "acquired" /\ op' = "fetched" /\ cur' = cur /\ state' = state /\ todo' = todo
        /\ rest' = rest /\ hs' = hs /\ h' = h /\ cache' = cache /\ keyOf' = keyOf
    BY <1>2 DEF FetchTexture
  <2>2. /\ made' = made /\ InPool' = InPool /\ h \in InPool
        /\ strong' = [strong EXCEPT !["loader"] = h]
    BY <1>2, PoolOfFetch
  <2>3. strong' = [c \in {"loader"} |-> h]
    BY <1>0, <2>2 DEF CallInv
  <2> QED
    BY <1>0, <2>1, <2>2, <2>3 DEF CallInv, Ops, Loading, Taking, Holding
<1>3. ASSUME LoadImage PROVE CallInv'
  <2>1. /\ op = "fetched" /\ op' = "loaded" /\ cur' = cur /\ state' = state /\ todo' = todo
        /\ rest' = rest /\ hs' = hs /\ h' = h /\ cache' = cache /\ keyOf' = keyOf
    BY <1>3 DEF LoadImage
  <2>2. InPool' = InPool /\ made' = made /\ strong' = strong
    BY <1>3, PoolOfStay
  <2> QED
    BY <1>0, <2>1, <2>2 DEF CallInv, Ops, Loading, Taking, Holding
<1>4. ASSUME AcquireUnit PROVE CallInv'
  <2>1. /\ op = "loaded" /\ op' = "next" /\ cur' = cur /\ state' = state /\ todo' = todo
        /\ rest' = <<Tail(Head(rest))>> \o Tail(rest) /\ hs' = Append(hs, h)
    BY <1>4 DEF AcquireUnit
  <2>2. strong' = [strong EXCEPT !["loader"] = 0]
    BY <1>4, PoolOfDrop
  <2>3. strong' = [c \in {"loader"} |-> 0]
    BY <1>0, <2>2 DEF CallInv
  <2>4. /\ rest \in Seq(Seq(Keys)) /\ hs \in Seq(Objects) /\ h \in Objects
        /\ rest # <<>> /\ Head(rest) # <<>>
    <3>1. h \in 1..made
      BY <1>0, <2>1 DEF CallInv, Loading, Taking, Holding
    <3>2. h \in Objects
      BY <3>1, Numbers
    <3> QED
      BY <1>0, <2>1, <3>2 DEF CallInv, Loading, Taking, Holding
  <2>5. rest' \in Seq(Seq(Keys)) /\ hs' \in Seq(Objects)
    BY <2>1, <2>4, PopInner
  <2> QED
    BY <1>0, <2>1, <2>3, <2>5 DEF CallInv, Ops, Loading, Taking, Holding
<1>5. ASSUME ReleaseFailed PROVE CallInv'
  <2>1. /\ op = "failing" /\ op' = "unwind" /\ cur' = cur /\ state' = state /\ todo' = todo
        /\ rest' = rest /\ hs' = hs /\ h' = h /\ cache' = cache /\ keyOf' = keyOf
    BY <1>5 DEF ReleaseFailed
  <2>2. made' = made /\ strong' = strong /\ InPool' = InPool \ {h}
    BY <1>5, PoolOfFailed
  <2> QED
    BY <1>0, <2>1, <2>2 DEF CallInv, Ops, Loading, Taking, Holding
<1>6. ASSUME Unwind PROVE CallInv'
  <2>1. op = "unwind" /\ op' = "idle" /\ todo' = todo
    BY <1>6 DEF Unwind
  <2>2. strong' = [strong EXCEPT !["loader"] = 0]
    BY <1>6, PoolOfDrop
  <2>3. strong' = [c \in {"loader"} |-> 0]
    BY <1>0, <2>2 DEF CallInv
  <2> QED
    BY <1>0, <2>1, <2>3 DEF CallInv, Ops, Loading, Taking, Holding
<1>7. ASSUME NEW k \in Keys, ReleaseOwned(k) PROVE CallInv'
  <2>1. /\ op = "release" /\ op' = "release" /\ cur' = cur /\ state' = state
        /\ todo' = todo \ {k}
    BY <1>7 DEF ReleaseOwned
  <2>2. strong' = strong
    BY <1>7, PoolOfOwned
  <2> QED
    BY <1>0, <2>1, <2>2 DEF CallInv, Ops, Loading, Taking, Holding
<1> QED
  BY <1>1, <1>2, <1>3, <1>4, <1>5, <1>6, <1>7

LEMMA CallStep3 ==
  ASSUME TexInv,
         \/ \E m \in Models : StartDraw(m) \/ StartDestroy(m)
         \/ ActivateTexture \/ DrawFails \/ DrawElements \/ FinishDraw \/ FinishDestroy
         \/ \E m, n \in Models : CopyModel(m, n)
  PROVE  CallInv'
<1>0. CallInv
  BY DEF TexInv
<1> USE DEF Goto, unitVars, texVars, glVars, callVars, modelVars, meshVars, poolVars
<1>1. ASSUME NEW m \in Models, StartDraw(m) PROVE CallInv'
  <2>1. /\ op = "idle" /\ op' = "draw" /\ cur' = m /\ rest' = meshes[m] /\ hs' = <<>>
        /\ state' = state /\ todo' = todo /\ strong' = strong /\ state[m] = "ready"
    BY <1>1 DEF StartDraw
  <2>2. meshes[m] \in Seq(Seq(Objects)) /\ <<>> \in Seq(Objects)
    BY DEF TexInv, ModelTypes
  <2> QED
    BY <1>0, <2>1, <2>2 DEF CallInv, Ops, Loading, Taking, Holding
<1>2. ASSUME NEW m \in Models, StartDestroy(m) PROVE CallInv'
  <2>1. /\ op = "idle" /\ op' = "release" /\ cur' = m
        /\ state' = state /\ todo' \subseteq Keys /\ strong' = strong /\ state[m] = "ready"
    BY <1>2 DEF StartDestroy
  <2> QED
    BY <1>0, <2>1 DEF CallInv, Ops, Loading, Taking, Holding
<1>3. ASSUME ActivateTexture PROVE CallInv'
  <2>1. /\ op = "draw" /\ op' = "draw" /\ cur' = cur /\ state' = state /\ todo' = todo
        /\ strong' = strong /\ rest # <<>> /\ Head(rest) # <<>>
        /\ rest' = <<Tail(Head(rest))>> \o Tail(rest)
        /\ hs' = Append(hs, Head(Head(rest)))
    BY <1>3 DEF ActivateTexture, Drawing
  <2>2. rest \in Seq(Seq(Objects)) /\ hs \in Seq(Objects)
    BY <1>0, <2>1 DEF CallInv
  <2>3. rest' \in Seq(Seq(Objects)) /\ Head(Head(rest)) \in Objects
    BY <2>1, <2>2, PopInner
  <2>4. hs' \in Seq(Objects)
    BY <2>1, <2>2, <2>3
  <2> QED
    BY <1>0, <2>1, <2>3, <2>4 DEF CallInv, Ops, Loading, Taking, Holding
<1>4. ASSUME DrawElements PROVE CallInv'
  <2>1. /\ op = "draw" /\ op' = "draw" /\ cur' = cur /\ state' = state /\ todo' = todo
        /\ strong' = strong /\ rest # <<>> /\ rest' = Tail(rest) /\ hs' = <<>>
    BY <1>4 DEF DrawElements, Drawing
  <2>2. rest' \in Seq(Seq(Objects)) /\ <<>> \in Seq(Objects)
    BY <1>0, <2>1 DEF CallInv
  <2> QED
    BY <1>0, <2>1, <2>2 DEF CallInv, Ops, Loading, Taking, Holding
<1>5. ASSUME DrawFails \/ FinishDraw \/ FinishDestroy PROVE CallInv'
  <2>1. op \in {"draw", "release"} /\ op' = "idle" /\ todo' = todo /\ strong' = strong
    BY <1>5 DEF DrawFails, FinishDraw, FinishDestroy, Drawing
  <2> QED
    BY <1>0, <2>1 DEF CallInv, Ops, Loading, Taking, Holding
<1>6. ASSUME NEW m \in Models, NEW n \in Models, CopyModel(m, n) PROVE CallInv'
  <2>1. op = "idle" /\ op' = "idle" /\ todo' = todo /\ strong' = strong
    BY <1>6 DEF CopyModel
  <2> QED
    BY <1>0, <2>1 DEF CallInv, Ops, Loading, Taking, Holding
<1> QED
  BY <1>1, <1>2, <1>3, <1>4, <1>5, <1>6

LEMMA CallStep == ASSUME Few, TexInv, Next PROVE CallInv'
BY CallStep1, CallStep2, CallStep3 DEF Next, Load, Draw, Destroy
-----------------------------------------------------------------------------
(* The first of what is free, whatever is free.                            *)
LEMMA Least ==
  ASSUME NEW T \in SUBSET Nat, T # {}
  PROVE  (CHOOSE x \in T : \A y \in T : x <= y) \in T
<1>1. PICK x \in T : \A y \in T : ~(<<y, x>> \in OpToRel(<, Nat))
  BY NatLessThanWellFounded, WFMin, Zenon
<1>2. \A y \in T : ~(y < x)
  BY <1>1 DEF OpToRel
<1>3. \A y \in T : x <= y
  BY <1>2
<1> QED
  BY <1>3

LEMMA UnitNumbers ==
  /\ NUnits \in Nat /\ NoUnit \notin Units /\ Units \subseteq 0..NUnits /\ NoUnit \in 0..NUnits
  /\ \A u \in 0..NUnits : u # NoUnit => u \in Units
  /\ 0 \in Units /\ Units \subseteq Nat
BY TexturesAssumption DEF TexturesAssumption, Units, NoUnit

LEMMA ObjectsFinite ==
  ASSUME MaxObj \in Nat
  PROVE  IsFiniteSet(Objects) /\ Cardinality(Objects) = MaxObj
<1>1. 1 \in Int /\ MaxObj \in Int
  OBVIOUS
<1>2. /\ IsFiniteSet(1..MaxObj)
      /\ Cardinality(1..MaxObj) = IF 1 > MaxObj THEN 0 ELSE MaxObj - 1 + 1
  BY <1>1, FS_Interval
<1> QED
  BY <1>2 DEF Objects

(* GL has a name for another texture, and it is nobody's.                  *)
LEMMA FreshName ==
  ASSUME TexInv, made < MaxObj,
         NEW n, n = CHOOSE x \in Objects \ names : \A y \in Objects \ names : x <= y
  PROVE  /\ n \in Objects /\ n \notin names
         /\ Cardinality(names \cup {n}) <= made + 1
<1>1. /\ made \in Nat /\ MaxObj \in Nat /\ Objects = 1..MaxObj
      /\ names \subseteq Objects /\ Cardinality(names) <= made
  BY Numbers DEF TexInv, NamesInv
<1>2. IsFiniteSet(Objects) /\ Cardinality(Objects) = MaxObj
  BY <1>1, ObjectsFinite
<1>3. IsFiniteSet(names) /\ Cardinality(names) \in Nat
  BY <1>1, <1>2, FS_Subset, FS_CardinalityType
<1>4. names # Objects
  BY <1>1, <1>2, <1>3
<1>5. Objects \ names # {}
  BY <1>1, <1>4
<1>6. Objects \ names \in SUBSET Nat
  BY <1>1
<1>7. n \in Objects \ names
  BY <1>5, <1>6, Least
<1>8. Cardinality(names \cup {n}) = Cardinality(names) + 1
  BY <1>3, <1>7, FS_AddElement
<1> QED
  BY <1>1, <1>3, <1>7, <1>8

LEMMA FewerNames ==
  ASSUME TexInv, NEW n
  PROVE  Cardinality(names \ {n}) <= made
<1>1. /\ made \in Nat /\ MaxObj \in Nat /\ names \in SUBSET Objects
      /\ Cardinality(names) <= made
  BY Numbers DEF TexInv, NamesInv
<1>2. IsFiniteSet(names)
  BY <1>1, ObjectsFinite, FS_Subset
<1>3. /\ Cardinality(names \ {n}) \in Nat /\ Cardinality(names \ {n}) <= Cardinality(names)
      /\ Cardinality(names) \in Nat
  BY <1>2, FS_Subset, FS_CardinalityType
<1> QED
  BY <1>1, <1>3

LEMMA FreeUnit ==
  ASSUME FreeUnits # {},
         NEW u, u = CHOOSE x \in FreeUnits : \A y \in FreeUnits : x <= y
  PROVE  u \in Units /\ table[u] = 0 /\ u # NoUnit
<1>1. FreeUnits \in SUBSET Nat
  BY UnitNumbers DEF FreeUnits
<1>2. u \in FreeUnits
  BY <1>1, Least
<1>3. u \in Units /\ table[u] = 0
  BY <1>2 DEF FreeUnits
<1> QED
  BY <1>3, UnitNumbers

(* ~Texture2D, if it did something.                                        *)
LEMMA Destroyed ==
  ASSUME GlTypes, NEW o \in Objects, DestroyTexture(o), id[o] \in Objects \/ unit[o] = NoUnit
  PROVE  /\ active' = active
         /\ bindId' = IF bindId = id[o] THEN 0 ELSE bindId
         /\ unit[o] = NoUnit => UNCHANGED <<table, activePos, names, image, bound>>
         /\ unit[o] # NoUnit =>
               /\ unit[o] \in Units
               /\ table' = [table EXCEPT ![unit[o]] = 0]
               /\ activePos' = IF activePos = unit[o] THEN NoUnit ELSE activePos
               /\ names' = names \ {id[o]}
               /\ image' = [image EXCEPT ![id[o]] = NoImage]
               /\ bound' = [u \in Units |-> IF bound[u] = id[o] THEN 0 ELSE bound[u]]
BY UnitNumbers DEF DestroyTexture, ReleaseUnit, DeleteName, ForgetBind, unitVars, GlTypes

LEMMA GlDestroyed ==
  ASSUME GlTypes, NEW o \in Objects, DestroyTexture(o), id[o] \in Objects \/ unit[o] = NoUnit,
         MaxObj \in Nat, UNCHANGED texVars
  PROVE  GlTypes'
<1>1. id' = id /\ unit' = unit /\ keyOf' = keyOf /\ active' = active
  BY Destroyed DEF texVars
<1>2. CASE unit[o] = NoUnit
  BY <1>1, <1>2, Destroyed DEF GlTypes
<1>3. CASE unit[o] # NoUnit
  <2>1. /\ table' = [table EXCEPT ![unit[o]] = 0]
        /\ activePos' = IF activePos = unit[o] THEN NoUnit ELSE activePos
        /\ image' = [image EXCEPT ![id[o]] = NoImage]
        /\ bound' = [u \in Units |-> IF bound[u] = id[o] THEN 0 ELSE bound[u]]
    BY <1>3, Destroyed
  <2>2. 0 \in 0..MaxObj /\ NoUnit \in 0..NUnits
    BY UnitNumbers
  <2>3. /\ table' \in [Units -> 0..MaxObj] /\ activePos' \in 0..NUnits
        /\ image' \in [Objects -> Keys \cup {NoImage}]
    BY <2>1, <2>2 DEF GlTypes
  <2>4. bound' \in [Units -> 0..MaxObj]
    BY <2>1, <2>2 DEF GlTypes
  <2> QED
    BY <1>1, <2>3, <2>4 DEF GlTypes
<1> QED
  BY <1>2, <1>3
-----------------------------------------------------------------------------
(* What a step of a load or a release does to what exists.                 *)
LEMMA ExistingOther ==
  ASSUME Few, TexInv, OtherStep, CallInv'
  PROVE  made' = made /\ InPool' = InPool /\ Existing' = Existing
<1>1. PoolInv' /\ made' = made /\ InPool' = InPool
  BY PoolOfStay
<1>2. /\ Existing' = InPool' \cup {o \in 1..made' : op' \in Holding /\ o = h'}
      /\ Existing = InPool \cup {o \in 1..made : op \in Holding /\ o = h}
  BY <1>1, NextNumbers, Numbers
<1>3. op \in Holding => h \in InPool
  BY DEF OtherStep, TexInv, CallInv, Taking, Holding
<1>4. op' \in Holding => h' = h /\ op \in Holding
  BY DEF OtherStep, Taking, Holding
<1> QED
  BY <1>1, <1>2, <1>3, <1>4

LEMMA AcquireFacts ==
  ASSUME Few, TexInv, AcquireTexture, CallInv', NEW o, o = made + 1
  PROVE  /\ made' = o /\ o \in Objects /\ o \notin 1..made /\ made \in Nat
         /\ InPool = Existing /\ Existing' = Existing \cup {o} /\ InPool' = InPool \cup {o}
         /\ op = "next" /\ op' = "acquired" /\ h' = o /\ cur \in Models
         /\ \E n \in Objects \ names :
               /\ names' = names \cup {n} /\ Cardinality(names') <= made'
               /\ id' = [id EXCEPT ![o] = n]
         /\ \E k \in Keys : keyOf' = [keyOf EXCEPT ![o] = k] /\ cache[cur][k] = 0
         /\ UNCHANGED <<unit, bindId, table, activePos, image, active, bound>>
         /\ UNCHANGED <<modelVars, cur, rest, hs, todo>>
<1>1. /\ PoolInv' /\ made < MaxObj /\ made' = made + 1 /\ InPool' = InPool \cup {made + 1}
  BY PoolOfAcquire
<1>2. /\ op = "next" /\ op' = "acquired" /\ h' = made + 1
      /\ keyOf' = [keyOf EXCEPT ![made + 1] = Head(Head(rest))]
      /\ rest # <<>> /\ Head(rest) # <<>> /\ cache[cur][Head(Head(rest))] = 0
      /\ UNCHANGED <<unit, bindId, table, activePos, image, active, bound>>
      /\ UNCHANGED <<modelVars, cur, rest, hs, todo>>
  BY DEF AcquireTexture, Goto, unitVars
<1>3. PICK n : /\ n = CHOOSE x \in Objects \ names : \A y \in Objects \ names : x <= y
               /\ names' = names \cup {n} /\ id' = [id EXCEPT ![made + 1] = n]
  BY DEF AcquireTexture
<1>4. n \in Objects \ names /\ Cardinality(names') <= made'
  BY <1>1, <1>3, FreshName
<1>5. rest \in Seq(Seq(Keys)) /\ cur \in Models
  BY <1>2 DEF TexInv, CallInv, Loading
<1>6. Head(Head(rest)) \in Keys
  BY <1>2, <1>5, PopInner
<1>7. made \in Nat /\ o \in Objects /\ o \notin 1..made
  BY <1>1, Numbers
<1>8. InPool = Existing /\ Existing' = InPool'
  BY <1>1, <1>2, Numbers, NextNumbers DEF Holding
<1> QED
  BY <1>1, <1>2, <1>3, <1>4, <1>5, <1>6, <1>7, <1>8

LEMMA FetchFacts ==
  ASSUME Few, TexInv, FetchTexture, CallInv'
  PROVE  /\ made' = made /\ InPool' = InPool /\ Existing' = Existing
         /\ op = "acquired" /\ op' = "fetched" /\ h' = h
         /\ UNCHANGED <<texVars, bindId, unitVars, glVars, modelVars, cur, rest, hs, todo>>
<1>1. PoolInv' /\ made' = made /\ InPool' = InPool /\ h \in InPool
  BY PoolOfFetch
<1>2. /\ op = "acquired" /\ op' = "fetched" /\ h' = h
      /\ UNCHANGED <<texVars, bindId, unitVars, glVars, modelVars, cur, rest, hs, todo>>
  BY DEF FetchTexture, Goto
<1>3. Existing' = Existing
  BY <1>1, <1>2, Numbers, NextNumbers DEF Holding
<1> QED
  BY <1>1, <1>2, <1>3

(* An image goes to the name of the texture that is being loaded.          *)
LEMMA LoadFacts ==
  ASSUME Few, TexInv, LoadImage, CallInv'
  PROVE  /\ made' = made /\ InPool' = InPool /\ Existing' = Existing
         /\ op = "fetched" /\ op' = "loaded" /\ h' = h /\ h \in Existing /\ h \in Objects
         /\ id[h] \in names /\ bindId' = id[h]
         /\ bound' = [bound EXCEPT ![active] = id[h]]
         /\ image' = [image EXCEPT ![id[h]] = keyOf[h]]
         /\ UNCHANGED <<texVars, unitVars, names, active, modelVars, cur, rest, hs, todo>>
<1>1. PoolInv' /\ made' = made /\ InPool' = InPool
  BY PoolOfStay
<1>2. /\ op = "fetched" /\ op' = "loaded" /\ h' = h /\ bindId' = id[h]
      /\ bound' = IF bindId = id[h] THEN bound ELSE [bound EXCEPT ![active] = id[h]]
      /\ image' = IF bound'[active] = 0 THEN image
                  ELSE [image EXCEPT ![bound'[active]] = keyOf[h]]
      /\ UNCHANGED <<texVars, unitVars, names, active, modelVars, cur, rest, hs, todo>>
  BY DEF LoadImage, Goto
<1>3. h \in InPool /\ h \in 1..made
  BY <1>2 DEF TexInv, CallInv, Taking, Holding
<1>4. Existing' = Existing /\ h \in Existing /\ h \in Objects
  BY <1>1, <1>2, <1>3, Numbers, NextNumbers DEF Holding
<1>5. bindId # id[h] /\ id[h] \in names /\ names \subseteq Objects
  BY <1>2, <1>4 DEF TexInv, NamesInv
<1>6. bound' = [bound EXCEPT ![active] = id[h]] /\ bound'[active] = id[h] /\ id[h] # 0
  BY <1>2, <1>5, Numbers DEF TexInv, GlTypes
<1> QED
  BY <1>1, <1>2, <1>4, <1>5, <1>6

LEMMA UnitFacts ==
  ASSUME Few, TexInv, AcquireUnit, CallInv'
  PROVE  /\ made' = made /\ InPool' = InPool /\ Existing' = Existing /\ Existing = InPool
         /\ op = "loaded" /\ op' = "next" /\ h' = h /\ h \in Existing /\ h \in Objects
         /\ cur \in Models /\ keyOf[h] \in Keys /\ cache[cur][keyOf[h]] = 0
         /\ \E u \in Units : /\ table[u] = 0 /\ table' = [table EXCEPT ![u] = id[h]]
                             /\ unit' = [unit EXCEPT ![h] = u]
         /\ cache' = [cache EXCEPT ![cur][keyOf[h]] = h]
         /\ hs' = Append(hs, h) /\ rest' = <<Tail(Head(rest))>> \o Tail(rest)
         /\ UNCHANGED <<id, keyOf, bindId, activePos, names, image, active, bound>>
         /\ UNCHANGED <<state, meshVars, copied, cur, todo>>
<1>1. PoolInv' /\ made' = made /\ InPool' = InPool
  BY PoolOfDrop
<1>2. /\ op = "loaded" /\ op' = "next" /\ h' = h /\ FreeUnits # {}
      /\ cache' = [cache EXCEPT ![cur][keyOf[h]] = h]
      /\ hs' = Append(hs, h) /\ rest' = <<Tail(Head(rest))>> \o Tail(rest)
      /\ UNCHANGED <<id, keyOf, bindId, activePos, names, image, active, bound>>
      /\ UNCHANGED <<state, meshVars, copied, cur, todo>>
  BY DEF AcquireUnit, Goto, glVars
<1>3. /\ h \in InPool /\ h \in 1..made /\ cur \in Models /\ keyOf[h] \in Keys
      /\ cache[cur][keyOf[h]] = 0
  BY <1>2 DEF TexInv, CallInv, Taking, Holding
<1>4. Existing' = InPool /\ Existing = InPool /\ h \in Existing /\ h \in Objects
  <2>1. Existing' = InPool
    BY <1>1, <1>2, NextNumbers DEF Holding
  <2>2. Existing = InPool \cup {o \in 1..made : op \in Holding /\ o = h}
        /\ 1..made \subseteq Objects
    BY Numbers
  <2>3. Existing = InPool
    BY <1>3, <2>2
  <2> QED
    BY <1>3, <2>1, <2>2, <2>3
<1>5. PICK u : /\ u = CHOOSE x \in FreeUnits : \A y \in FreeUnits : x <= y
               /\ table' = [table EXCEPT ![u] = id[h]] /\ unit' = [unit EXCEPT ![h] = u]
  BY DEF AcquireUnit
<1>6. u \in Units /\ table[u] = 0
  BY <1>2, <1>5, FreeUnit
<1> QED
  BY <1>1, <1>2, <1>3, <1>4, <1>5, <1>6

LEMMA FailedFacts ==
  ASSUME Few, TexInv, ReleaseFailed, CallInv'
  PROVE  /\ made' = made /\ InPool' = InPool \ {h} /\ Existing' = Existing
         /\ op = "failing" /\ op' = "unwind" /\ h' = h /\ unit[h] = NoUnit /\ cur \in Models
         /\ UNCHANGED <<texVars, bindId, unitVars, glVars, modelVars, cur, rest, hs, todo>>
<1>1. PoolInv' /\ made' = made /\ InPool' = InPool \ {h}
  BY PoolOfFailed
<1>2. /\ op = "failing" /\ op' = "unwind" /\ h' = h
      /\ UNCHANGED <<texVars, bindId, unitVars, glVars, modelVars, cur, rest, hs, todo>>
  BY DEF ReleaseFailed, Goto
<1>3. h \in InPool /\ h \in 1..made /\ unit[h] = NoUnit /\ cur \in Models
  BY <1>2 DEF TexInv, CallInv, UnitsInv, Taking, Holding
<1>4. Existing' = Existing
  BY <1>1, <1>2, <1>3, Numbers, NextNumbers DEF Holding
<1> QED
  BY <1>1, <1>2, <1>3, <1>4

(* The texture of a load that failed never got a unit: only the cache of   *)
(* the bound name forgets it.                                              *)
LEMMA UnwindFacts ==
  ASSUME Few, TexInv, Unwind, CallInv'
  PROVE  /\ made' = made /\ InPool' = InPool /\ Existing' = InPool /\ Existing' = Existing \ {h}
         /\ op = "unwind" /\ op' = "idle" /\ h \in Objects /\ unit[h] = NoUnit
         /\ bindId' = IF bindId = id[h] THEN 0 ELSE bindId
         /\ UNCHANGED <<texVars, unitVars, glVars, modelVars, cur, todo>>
<1>1. PoolInv' /\ made' = made /\ InPool' = InPool
  BY PoolOfDrop
<1>2. /\ op = "unwind" /\ op' = "idle" /\ DestroyTexture(h)
      /\ UNCHANGED <<texVars, modelVars, cur, todo>>
  BY DEF Unwind, Goto
<1>3. h \notin InPool /\ h \in 1..made /\ unit[h] = NoUnit
  BY <1>2 DEF TexInv, CallInv, UnitsInv, Taking, Holding
<1>4. Existing' = InPool /\ Existing' = Existing \ {h} /\ h \in Objects
  BY <1>1, <1>2, <1>3, Numbers, NextNumbers DEF Holding
<1>5. /\ bindId' = IF bindId = id[h] THEN 0 ELSE bindId
      /\ UNCHANGED <<unitVars, glVars>>
  BY <1>2, <1>3 DEF DestroyTexture, ForgetBind, glVars
<1> QED
  BY <1>1, <1>2, <1>3, <1>4, <1>5

(* A model that is destroyed takes with it what is still in the pool.      *)
LEMMA OwnedFacts ==
  ASSUME Few, TexInv, NEW k \in Keys, ReleaseOwned(k), CallInv', NEW o, o = cache[cur][k]
  PROVE  /\ made' = made /\ InPool' = InPool \ {o}
         /\ Existing = InPool /\ Existing' = Existing \ {o}
         /\ o \in 1..made /\ o \in Objects /\ op = "release" /\ op' = "release"
         /\ cur \in Models /\ k \in todo /\ todo' = todo \ {k}
         /\ o \notin InPool => UNCHANGED <<bindId, unitVars, glVars, cache>>
         /\ o \in InPool => /\ DestroyTexture(o) /\ cache' = [cache EXCEPT ![cur][k] = 0]
                            /\ id[o] \in names /\ unit[o] # NoUnit /\ unit[o] \in Units
                            /\ table[unit[o]] = id[o]
         /\ UNCHANGED <<texVars, state, meshVars, copied, cur, rest, hs, h>>
<1>1. /\ PoolInv' /\ made' = made /\ InPool' = InPool \ {o} /\ o \in 1..made
      /\ cur \in Models /\ k \in todo
  BY PoolOfOwned
<1>2. /\ op = "release" /\ op' = "release" /\ todo' = todo \ {k}
      /\ UNCHANGED <<texVars, state, meshVars, copied, cur, rest, hs, h>>
      /\ Valid(o) => DestroyTexture(o) /\ cache' = [cache EXCEPT ![cur][k] = 0]
      /\ ~Valid(o) => UNCHANGED <<bindId, unitVars, glVars, cache>>
  BY DEF ReleaseOwned
<1>3. o \in InPool <=> Valid(o)
  BY <1>1 DEF InPool
<1>4. Existing = InPool /\ Existing' = Existing \ {o} /\ o \in Objects
  BY <1>1, <1>2, Numbers, NextNumbers DEF Holding
<1>5. o \in InPool => id[o] \in names /\ unit[o] # NoUnit /\ table[unit[o]] = id[o]
  <2>1. o \in Cached(cur)
    BY <1>1, Numbers DEF Cached
  <2> QED
    BY <1>1, <1>4, <2>1 DEF TexInv, CacheInv, NamesInv, UnitsInv
<1>6. unit[o] # NoUnit => unit[o] \in Units
  BY <1>4, UnitNumbers DEF TexInv, GlTypes
<1> QED
  BY <1>1, <1>2, <1>3, <1>4, <1>5, <1>6

LEMMA CachedMade ==
  ASSUME TexInv, NEW m \in Models, NEW o \in Cached(m)
  PROVE  o \in 1..made /\ o \in Objects /\ unit[o] # NoUnit /\ \E k \in Keys : o = cache[m][k]
<1>1. PICK k \in Keys : o = cache[m][k]
  BY DEF Cached
<1>2. o \in 0..made /\ o # 0
  BY <1>1 DEF TexInv, ModelTypes, Cached
<1> QED
  BY <1>1, <1>2, Numbers DEF TexInv, CacheInv

(* The texture that is activated has a unit, which is not free: what the   *)
(* unit is believed to be decides alone whether it is selected.            *)
LEMMA ActivateFacts ==
  ASSUME TexInv, ActivateTexture
  PROVE  \E o \in Cached(cur) \cap InPool :
            /\ o \in Objects /\ unit[o] \in Units /\ unit[o] # NoUnit /\ table[unit[o]] = id[o]
            /\ id[o] # 0 /\ id[o] \in names
            /\ activePos' = unit[o]
            /\ active' = IF activePos = unit[o] THEN active ELSE unit[o]
            /\ bound' = [bound EXCEPT ![active'] = id[o]]
            /\ hs' = Append(hs, o) /\ op = "draw" /\ op' = "draw" /\ cur \in Models
            /\ rest # <<>> /\ Head(rest) # <<>> /\ rest \in Seq(Seq(Objects))
            /\ hs \in Seq(Objects) /\ o = Head(Head(rest))
            /\ rest' = <<Tail(Head(rest))>> \o Tail(rest)
            /\ UNCHANGED <<poolVars, texVars, bindId, table, names, image, modelVars>>
            /\ UNCHANGED <<cur, h, todo>>
<1> DEFINE o == Head(Head(rest))
<1>1. /\ op = "draw" /\ rest # <<>> /\ Head(rest) # <<>>
      /\ Valid(o) /\ unit[o] # NoUnit
      /\ activePos' = IF activePos = unit[o] \/ table[unit[o]] = 0 THEN activePos ELSE unit[o]
      /\ active' = IF activePos = unit[o] \/ table[unit[o]] = 0 THEN active ELSE unit[o]
      /\ bound' = [bound EXCEPT ![active'] = id[o]] /\ hs' = Append(hs, o) /\ op' = op
      /\ rest' = <<Tail(Head(rest))>> \o Tail(rest)
      /\ UNCHANGED <<poolVars, texVars, bindId, table, names, image, modelVars, cur, h, todo>>
  BY DEF ActivateTexture, Drawing, BindTo
<1>2. cur \in Models /\ rest \in Seq(Seq(Objects)) /\ hs \in Seq(Objects)
  BY <1>1 DEF TexInv, CallInv
<1>3. 1 \in DOMAIN rest /\ 1 \in DOMAIN rest[1] /\ o = rest[1][1]
  BY <1>1, <1>2, PopInner
<1> HIDE DEF o
<1>4. o \in Cached(cur)
  BY <1>1, <1>3 DEF TexInv, DrawInv
<1>5. o \in InPool /\ o \in Objects /\ o \in Existing
  BY <1>1, <1>2, <1>4, CachedMade, Numbers DEF InPool
<1>6. unit[o] \in Units /\ table[unit[o]] = id[o] /\ id[o] \in names
  BY <1>1, <1>5, UnitNumbers DEF TexInv, GlTypes, UnitsInv, NamesInv
<1>7. id[o] # 0
  BY <1>6, Numbers DEF TexInv, NamesInv
<1> QED
  BY <1>1, <1>2, <1>4, <1>5, <1>6, <1>7 DEF o
-----------------------------------------------------------------------------
LEMMA GlStep == ASSUME Few, TexInv, Next, CallInv' PROVE GlTypes'
<1>0. /\ GlTypes /\ MaxObj \in Nat /\ NUnits \in Nat /\ NoUnit \in 0..NUnits
      /\ Units \subseteq 0..NUnits /\ 0 \in Units /\ 0 \in 0..MaxObj /\ Objects \subseteq 0..MaxObj
      /\ names \subseteq Objects
  BY Numbers, UnitNumbers DEF TexInv, NamesInv, Objects
<1>1. ASSUME OtherStep, UNCHANGED <<activePos, active, bound>> PROVE GlTypes'
  BY <1>0, <1>1 DEF OtherStep, GlTypes, texVars
<1>2. ASSUME OtherStep, ActivateTexture PROVE GlTypes'
  <2>1. /\ activePos' \in 0..NUnits /\ active' \in Units /\ bound' \in [Units -> 0..MaxObj]
    BY <1>0, <1>2, ActivateFacts DEF GlTypes
  <2> QED
    BY <1>0, <1>2, <2>1 DEF OtherStep, GlTypes, texVars
<1>3. ASSUME OtherStep, DrawElements PROVE GlTypes'
  <2>1. active' = 0 /\ activePos' = activePos /\ bound' = bound
    BY <1>3 DEF DrawElements, unitVars
  <2> QED
    BY <1>0, <1>3, <2>1 DEF OtherStep, GlTypes, texVars
<1>4. ASSUME AcquireTexture PROVE GlTypes'
  <2>1. PICK o, n, k : /\ o = made + 1 /\ n \in Objects /\ id' = [id EXCEPT ![o] = n]
                       /\ k \in Keys /\ keyOf' = [keyOf EXCEPT ![o] = k]
                       /\ UNCHANGED <<unit, table, activePos, image, active, bound>>
    BY <1>4, AcquireFacts
  <2> QED
    BY <1>0, <2>1 DEF GlTypes
<1>5. ASSUME FetchTexture \/ ReleaseFailed \/ Unwind PROVE GlTypes'
  BY <1>0, <1>5, FetchFacts, FailedFacts, UnwindFacts DEF GlTypes, texVars, unitVars, glVars
<1>6. ASSUME LoadImage PROVE GlTypes'
  <2>1. /\ h \in Objects /\ id[h] \in 0..MaxObj /\ bound' = [bound EXCEPT ![active] = id[h]]
        /\ image' = [image EXCEPT ![id[h]] = keyOf[h]]
        /\ UNCHANGED <<texVars, unitVars, active>>
    BY <1>0, <1>6, LoadFacts
  <2>2. bound' \in [Units -> 0..MaxObj] /\ image' \in [Objects -> Keys \cup {NoImage}]
    BY <1>0, <2>1 DEF GlTypes
  <2> QED
    BY <1>0, <2>1, <2>2 DEF GlTypes, texVars, unitVars
<1>7. ASSUME AcquireUnit PROVE GlTypes'
  <2>1. PICK u : /\ u \in Units /\ table' = [table EXCEPT ![u] = id[h]] /\ h \in Objects
                 /\ unit' = [unit EXCEPT ![h] = u]
                 /\ UNCHANGED <<id, keyOf, activePos, image, active, bound>>
    BY <1>7, UnitFacts
  <2>2. table' \in [Units -> 0..MaxObj] /\ unit' \in [Objects -> 0..NUnits]
    BY <1>0, <2>1 DEF GlTypes
  <2> QED
    BY <1>0, <2>1, <2>2 DEF GlTypes
<1>8. ASSUME NEW k \in Keys, ReleaseOwned(k) PROVE GlTypes'
  <2>1. PICK o \in Objects :
           /\ o = cache[cur][k] /\ UNCHANGED texVars
           /\ o \notin InPool => UNCHANGED <<bindId, unitVars, glVars, cache>>
           /\ o \in InPool => DestroyTexture(o) /\ id[o] \in names
    BY <1>8, OwnedFacts
  <2>2. CASE o \notin InPool
    BY <1>0, <2>1, <2>2 DEF GlTypes, texVars, unitVars, glVars
  <2>3. CASE o \in InPool
    BY <1>0, <2>1, <2>3, GlDestroyed
  <2> QED
    BY <2>2, <2>3
<1> QED
  BY <1>1, <1>2, <1>3, <1>4, <1>5, <1>6, <1>7, <1>8, Kinds DEF OtherStep
-----------------------------------------------------------------------------
LEMMA NamesStep == ASSUME Few, TexInv, Next, CallInv' PROVE NamesInv'
<1>0. /\ NamesInv /\ made \in Nat /\ names \subseteq Objects /\ 0 \notin Objects
      /\ id \in [Objects -> 0..MaxObj] /\ Existing \subseteq Objects
  BY Numbers DEF TexInv, NamesInv, GlTypes, Existing
<1>1. ASSUME OtherStep PROVE NamesInv'
  BY <1>0, <1>1, ExistingOther DEF OtherStep, NamesInv, texVars, Taking, Holding
<1>2. ASSUME AcquireTexture PROVE NamesInv'
  <2>1. PICK o, n : /\ o = made + 1 /\ n \in Objects \ names /\ id' = [id EXCEPT ![o] = n]
                    /\ names' = names \cup {n} /\ Cardinality(names') <= made'
                    /\ made' = o /\ o \in Objects /\ o \notin 1..made /\ h' = o
                    /\ Existing' = Existing \cup {o} /\ bindId' = bindId
    BY <1>2, AcquireFacts
  <2>2. id'[o] = n /\ o \notin Existing /\ \A p \in Existing : id'[p] = id[p]
    BY <1>0, <2>1 DEF Existing
  <2>3. /\ names' \subseteq Objects /\ bindId' \in names' \cup {0} /\ bindId' # id'[h']
    BY <1>0, <2>1, <2>2 DEF NamesInv
  <2>4. \A p \in Existing' : id'[p] \in names'
    BY <1>0, <2>1, <2>2 DEF NamesInv
  <2>5. \A p, q \in Existing' : id'[p] = id'[q] => p = q
    BY <1>0, <2>1, <2>2 DEF NamesInv
  <2> QED
    BY <2>1, <2>3, <2>4, <2>5 DEF NamesInv
<1>3. ASSUME FetchTexture \/ ReleaseFailed PROVE NamesInv'
  BY <1>0, <1>3, FetchFacts, FailedFacts DEF NamesInv, texVars, glVars
<1>4. ASSUME LoadImage PROVE NamesInv'
  BY <1>0, <1>4, LoadFacts DEF NamesInv, texVars
<1>5. ASSUME AcquireUnit PROVE NamesInv'
  BY <1>0, <1>5, UnitFacts DEF NamesInv
<1>6. ASSUME Unwind PROVE NamesInv'
  BY <1>0, <1>6, UnwindFacts DEF NamesInv, texVars, glVars
<1>7. ASSUME NEW k \in Keys, ReleaseOwned(k) PROVE NamesInv'
  <2>1. PICK o \in Objects :
           /\ o = cache[cur][k] /\ id' = id /\ made' = made /\ op' = "release"
           /\ Existing' = Existing \ {o} /\ Existing = InPool
           /\ o \notin InPool => UNCHANGED <<bindId, unitVars, glVars, cache>>
           /\ o \in InPool => DestroyTexture(o) /\ id[o] \in names /\ unit[o] # NoUnit
    BY <1>7, OwnedFacts DEF texVars
  <2>2. CASE o \notin InPool
    BY <1>0, <2>1, <2>2 DEF NamesInv, glVars
  <2>3. CASE o \in InPool
    <3>1. names' = names \ {id[o]} /\ bindId' = IF bindId = id[o] THEN 0 ELSE bindId
      BY <1>0, <2>1, <2>3, Destroyed DEF TexInv
    <3>2. Cardinality(names') <= made'
      BY <2>1, <3>1, FewerNames
    <3> QED
      BY <1>0, <2>1, <2>3, <3>1, <3>2 DEF NamesInv
  <2> QED
    BY <2>2, <2>3
<1> QED
  BY <1>1, <1>2, <1>3, <1>4, <1>5, <1>6, <1>7, Kinds

LEMMA UnitsStep == ASSUME Few, TexInv, Next, CallInv' PROVE UnitsInv'
<1>0. /\ UnitsInv /\ NamesInv /\ made \in Nat /\ 0 \notin Objects /\ Existing \subseteq 1..made
      /\ unit \in [Objects -> 0..NUnits] /\ Existing \subseteq Objects /\ NoUnit \notin Units
      /\ id \in [Objects -> 0..MaxObj] /\ table \in [Units -> 0..MaxObj]
      /\ \A u \in 0..NUnits : u # NoUnit => u \in Units
      /\ \A o \in Existing : id[o] \in Objects
  BY Numbers, UnitNumbers DEF TexInv, GlTypes, Existing, NamesInv
<1>1. ASSUME OtherStep PROVE UnitsInv'
  BY <1>0, <1>1, ExistingOther DEF OtherStep, UnitsInv, texVars, Taking, Holding
<1>2. ASSUME AcquireTexture PROVE UnitsInv'
  <2>1. PICK o, n : /\ o = made + 1 /\ id' = [id EXCEPT ![o] = n]
                    /\ made' = o /\ o \in Objects /\ o \notin 1..made /\ h' = o
                    /\ Existing' = Existing \cup {o} /\ unit' = unit /\ table' = table
    BY <1>2, AcquireFacts
  <2>2. o > made /\ unit[o] = NoUnit /\ \A p \in Existing : id'[p] = id[p]
    BY <1>0, <2>1 DEF UnitsInv
  <2>3. \A p \in Objects : p > made' => p > made
    BY <1>0, <2>1 DEF Objects
  <2> QED
    BY <1>0, <2>1, <2>2, <2>3 DEF UnitsInv
<1>3. ASSUME FetchTexture \/ ReleaseFailed \/ LoadImage PROVE UnitsInv'
  <2>1. /\ made' = made /\ Existing' = Existing /\ h' = h /\ op \in Taking
        /\ UNCHANGED <<id, unit, table>>
    BY <1>3, FetchFacts, FailedFacts, LoadFacts DEF texVars, unitVars, Taking, Holding
  <2> QED
    BY <1>0, <2>1 DEF UnitsInv
<1>4. ASSUME AcquireUnit PROVE UnitsInv'
  <2>1. PICK u \in Units :
           /\ table[u] = 0 /\ table' = [table EXCEPT ![u] = id[h]] /\ op = "loaded"
           /\ unit' = [unit EXCEPT ![h] = u] /\ id' = id /\ made' = made /\ op' = "next"
           /\ Existing' = Existing /\ h \in Existing
    BY <1>4, UnitFacts
  <2>2. h \in 1..made /\ h \in Objects /\ id[h] # 0 /\ unit[h] = NoUnit
    BY <1>0, <2>1 DEF UnitsInv, Taking, Holding
  <2>3. unit'[h] = u /\ table'[u] = id'[h] /\ \A o \in Objects : o # h => unit'[o] = unit[o]
    BY <1>0, <2>1, <2>2
  <2>4. \A v \in Units : v # u => table'[v] = table[v]
    BY <1>0, <2>1
  <2>5. \A o \in Objects : o > made' => unit'[o] = NoUnit
    BY <1>0, <2>1, <2>2, <2>3 DEF UnitsInv
  <2>6. \A o \in Existing' : unit'[o] # NoUnit => table'[unit'[o]] = id'[o]
    BY <1>0, <2>1, <2>3, <2>4 DEF UnitsInv
  <2>7. \A v \in Units : table'[v] # 0 => \E o \in Existing' : unit'[o] = v
    BY <1>0, <2>1, <2>2, <2>3, <2>4 DEF UnitsInv
  <2> QED
    BY <2>1, <2>5, <2>6, <2>7 DEF UnitsInv, Taking, Holding
<1>5. ASSUME Unwind PROVE UnitsInv'
  <2>1. /\ made' = made /\ Existing' = Existing \ {h} /\ op' = "idle" /\ unit[h] = NoUnit
        /\ UNCHANGED <<id, unit, table>>
    BY <1>5, UnwindFacts DEF texVars, unitVars
  <2> QED
    BY <1>0, <2>1 DEF UnitsInv, Taking, Holding
<1>6. ASSUME NEW k \in Keys, ReleaseOwned(k) PROVE UnitsInv'
  <2>1. PICK o \in Objects :
           /\ o = cache[cur][k] /\ id' = id /\ unit' = unit /\ made' = made /\ op' = "release"
           /\ Existing' = Existing \ {o} /\ Existing = InPool
           /\ o \notin InPool => UNCHANGED <<bindId, unitVars, glVars, cache>>
           /\ o \in InPool => DestroyTexture(o) /\ id[o] \in names /\ unit[o] # NoUnit
                              /\ unit[o] \in Units /\ table[unit[o]] = id[o]
    BY <1>6, OwnedFacts DEF texVars
  <2>2. CASE o \notin InPool
    BY <1>0, <2>1, <2>2 DEF UnitsInv, unitVars, Taking, Holding
  <2>3. CASE o \in InPool
    <3>1. table' = [table EXCEPT ![unit[o]] = 0]
      BY <1>0, <2>1, <2>3, Destroyed DEF TexInv, NamesInv
    <3>2. \A p \in Existing' : unit[p] # NoUnit => unit[p] # unit[o]
      BY <1>0, <2>1, <2>3 DEF UnitsInv, NamesInv
    <3>3. \A p \in Existing' : unit'[p] # NoUnit => table'[unit'[p]] = id'[p]
      BY <1>0, <2>1, <3>1, <3>2 DEF UnitsInv
    <3>4. \A v \in Units : table'[v] # 0 => \E p \in Existing' : unit'[p] = v
      BY <1>0, <2>1, <3>1 DEF UnitsInv
    <3> QED
      BY <1>0, <2>1, <3>3, <3>4 DEF UnitsInv, Taking, Holding
  <2> QED
    BY <2>2, <2>3
<1> QED
  BY <1>1, <1>2, <1>3, <1>4, <1>5, <1>6, Kinds

LEMMA ImagesStep == ASSUME Few, TexInv, Next, CallInv' PROVE ImagesInv'
<1>0. /\ ImagesInv /\ NamesInv /\ UnitsInv /\ Existing \subseteq Objects
      /\ id \in [Objects -> 0..MaxObj] /\ image \in [Objects -> Keys \cup {NoImage}]
      /\ keyOf \in [Objects -> Keys \cup {NoImage}] /\ unit \in [Objects -> 0..NUnits]
      /\ \A o \in Existing : id[o] \in Objects
  BY Numbers DEF TexInv, GlTypes, Existing, NamesInv
<1>1. ASSUME OtherStep PROVE ImagesInv'
  BY <1>0, <1>1, ExistingOther DEF OtherStep, ImagesInv, texVars
<1>2. ASSUME AcquireTexture PROVE ImagesInv'
  <2>1. PICK o, n, k : /\ o = made + 1 /\ id' = [id EXCEPT ![o] = n] /\ op' = "acquired"
                       /\ o \in Objects /\ o \notin 1..made /\ made \in Nat
                       /\ keyOf' = [keyOf EXCEPT ![o] = k]
                       /\ Existing' = Existing \cup {o} /\ unit' = unit /\ image' = image
    BY <1>2, AcquireFacts
  <2>2. unit[o] = NoUnit /\ \A p \in Existing : id'[p] = id[p] /\ keyOf'[p] = keyOf[p]
    BY <1>0, <2>1 DEF UnitsInv, Existing
  <2> QED
    BY <1>0, <2>1, <2>2 DEF ImagesInv
<1>3. ASSUME FetchTexture \/ ReleaseFailed PROVE ImagesInv'
  <2>1. /\ Existing' = Existing /\ op' # "loaded" /\ UNCHANGED <<id, unit, keyOf, image>>
    BY <1>3, FetchFacts, FailedFacts DEF texVars, glVars
  <2> QED
    BY <1>0, <2>1 DEF ImagesInv
<1>4. ASSUME LoadImage PROVE ImagesInv'
  <2>1. /\ Existing' = Existing /\ op' = "loaded" /\ h' = h /\ h \in Existing
        /\ UNCHANGED <<id, unit, keyOf>> /\ image' = [image EXCEPT ![id[h]] = keyOf[h]]
    BY <1>4, LoadFacts DEF texVars
  <2>2. \A o \in Existing : o # h => image'[id[o]] = image[id[o]]
    BY <1>0, <2>1 DEF NamesInv
  <2>3. image'[id[h]] = keyOf[h]
    BY <1>0, <2>1
  <2> QED
    BY <1>0, <2>1, <2>2, <2>3 DEF ImagesInv
<1>5. ASSUME AcquireUnit PROVE ImagesInv'
  <2>1. /\ Existing' = Existing /\ op' = "next" /\ op = "loaded"
        /\ UNCHANGED <<id, keyOf, image>> /\ \E u : unit' = [unit EXCEPT ![h] = u]
    BY <1>5, UnitFacts
  <2> QED
    BY <1>0, <2>1 DEF ImagesInv
<1>6. ASSUME Unwind PROVE ImagesInv'
  <2>1. /\ Existing' = Existing \ {h} /\ op' = "idle" /\ UNCHANGED <<id, unit, keyOf, image>>
    BY <1>6, UnwindFacts DEF texVars, glVars
  <2> QED
    BY <1>0, <2>1 DEF ImagesInv
<1>7. ASSUME NEW k \in Keys, ReleaseOwned(k) PROVE ImagesInv'
  <2>1. PICK o \in Objects :
           /\ o = cache[cur][k] /\ UNCHANGED <<id, unit, keyOf>> /\ op' = "release"
           /\ Existing' = Existing \ {o} /\ Existing = InPool
           /\ o \notin InPool => UNCHANGED <<bindId, unitVars, glVars, cache>>
           /\ o \in InPool => DestroyTexture(o) /\ id[o] \in names /\ unit[o] # NoUnit
    BY <1>7, OwnedFacts DEF texVars
  <2>2. CASE o \notin InPool
    BY <1>0, <2>1, <2>2 DEF ImagesInv, glVars
  <2>3. CASE o \in InPool
    <3>1. image' = [image EXCEPT ![id[o]] = NoImage]
      BY <1>0, <2>1, <2>3, Destroyed DEF TexInv, NamesInv
    <3>2. \A p \in Existing' : image'[id[p]] = image[id[p]]
      BY <1>0, <2>1, <2>3, <3>1 DEF NamesInv
    <3> QED
      BY <1>0, <2>1, <3>2 DEF ImagesInv
  <2> QED
    BY <2>2, <2>3
<1> QED
  BY <1>1, <1>2, <1>3, <1>4, <1>5, <1>6, <1>7, Kinds
-----------------------------------------------------------------------------
(* Most steps touch no cache and no mesh.                                  *)
Quiet ==
    /\ UNCHANGED <<cache, copied, state>> /\ op # "release"
    /\ op' \in Loading => op \in Loading /\ cur' = cur
    /\ meshes' = meshes \/ FinishMesh

LEMMA ModelKinds ==
  ASSUME Next
  PROVE  \/ Quiet
         \/ \E m \in Models, sc \in Scenes : StartLoad(m, sc)
         \/ AcquireUnit \/ (\E k \in Keys : ReleaseOwned(k)) \/ FinishDestroy
         \/ \E m, n \in Models : CopyModel(m, n)
<1> USE DEF Quiet, Loading, Taking, Holding, Goto, modelVars, meshVars
<1>1. ASSUME CachedTexture PROVE Quiet
  BY <1>1 DEF CachedTexture
<1>2. ASSUME AcquireTexture PROVE Quiet
  BY <1>2 DEF AcquireTexture
<1>3. ASSUME FetchTexture PROVE Quiet
  BY <1>3 DEF FetchTexture
<1>4. ASSUME LoadImage PROVE Quiet
  BY <1>4 DEF LoadImage
<1>5. ASSUME LoadFails \/ UnitsExhausted PROVE Quiet
  BY <1>5 DEF LoadFails, UnitsExhausted
<1>6. ASSUME ReleaseFailed PROVE Quiet
  BY <1>6 DEF ReleaseFailed
<1>7. ASSUME Unwind PROVE Quiet
  BY <1>7 DEF Unwind
<1>8. ASSUME FinishMesh PROVE Quiet
  BY <1>8 DEF FinishMesh
<1>9. ASSUME FinishLoad PROVE Quiet
  BY <1>9 DEF FinishLoad
<1>10. ASSUME NEW m \in Models, StartDraw(m) PROVE Quiet
  BY <1>10 DEF StartDraw
<1>11. ASSUME ActivateTexture PROVE Quiet
  BY <1>11 DEF ActivateTexture, Drawing
<1>12. ASSUME DrawFails PROVE Quiet
  BY <1>12 DEF DrawFails, Drawing
<1>13. ASSUME DrawElements PROVE Quiet
  BY <1>13 DEF DrawElements, Drawing
<1>14. ASSUME FinishDraw PROVE Quiet
  BY <1>14 DEF FinishDraw
<1>15. ASSUME NEW m \in Models, StartDestroy(m) PROVE Quiet
  BY <1>15 DEF StartDestroy
<1> QED
  BY <1>1, <1>2, <1>3, <1>4, <1>5, <1>6, <1>7, <1>8, <1>9, <1>10, <1>11, <1>12, <1>13,
     <1>14, <1>15 DEF Next, Load, Draw, Destroy

LEMMA MadeGrows ==
  ASSUME Few, TexInv, Next, CallInv'
  PROVE  /\ made' \in Nat /\ made \in Nat /\ made <= made' /\ 0 \in 0..made'
         /\ 0..made \subseteq 0..made' /\ PoolInv'
<1>1. made \in Nat
  BY Numbers
<1>2. made' \in {made, made + 1} /\ PoolInv'
  BY Kinds, PoolOfAcquire, PoolOfFetch, PoolOfStay, PoolOfDrop, PoolOfFailed, PoolOfOwned
<1> QED
  BY <1>1, <1>2

(* What is cached, or used by a mesh, is seen in cache and meshes alone.   *)
LEMMA CachedIs ==
  ASSUME NEW m
  PROVE  /\ \A o : o \in Cached(m) <=> o # 0 /\ \E k \in Keys : o = cache[m][k]
         /\ \A o : o \in Handles(m) <=>
                \E i \in DOMAIN meshes[m] : \E j \in DOMAIN meshes[m][i] : o = meshes[m][i][j]
BY DEF Cached, Handles

LEMMA CachedWas ==
  ASSUME NEW m
  PROVE  /\ cache'[m] = cache[m] => Cached(m)' = Cached(m)
         /\ meshes'[m] = meshes[m] => Handles(m)' = Handles(m)
BY DEF Cached, Handles

LEMMA CachedNext ==
  ASSUME NEW m
  PROVE  /\ \A o : o \in Cached(m)' <=> o # 0 /\ \E k \in Keys : o = cache'[m][k]
         /\ \A o : o \in Handles(m)' <=>
                \E i \in DOMAIN meshes'[m] : \E j \in DOMAIN meshes'[m][i] : o = meshes'[m][i][j]
BY DEF Cached, Handles

LEMMA Emptied ==
  ASSUME NEW m
  PROVE  /\ cache'[m] = Empty => Cached(m)' = {}
         /\ cache[m] = Empty => Cached(m) = {}
         /\ meshes'[m] = <<>> => Handles(m)' = {}
BY DEF Cached, Handles, Empty

(* A new load starts with an empty cache.                                  *)
LEMMA StartLoadFacts ==
  ASSUME TexInv, NEW m \in Models, NEW sc \in Scenes, StartLoad(m, sc)
  PROVE  /\ made' = made /\ InPool' = InPool /\ op = "idle" /\ op' = "next" /\ cur' = m
         /\ hs' = <<>> /\ unit' = unit /\ copied' = copied /\ todo' = todo
         /\ state' = [state EXCEPT ![m] = "ready"] /\ cache' = [cache EXCEPT ![m] = Empty]
         /\ meshes' = [meshes EXCEPT ![m] = <<>>] /\ Cached(m)' = {} /\ Handles(m)' = {}
         /\ \A n \in Models : n # m =>
               cache'[n] = cache[n] /\ Cached(n)' = Cached(n) /\ Handles(n)' = Handles(n)
<1>1. /\ op = "idle" /\ op' = "next" /\ cur' = m /\ UNCHANGED poolVars
      /\ hs' = <<>> /\ unit' = unit /\ copied' = copied /\ todo' = todo
      /\ state' = [state EXCEPT ![m] = "ready"] /\ cache' = [cache EXCEPT ![m] = Empty]
      /\ meshes' = [meshes EXCEPT ![m] = <<>>]
  BY DEF StartLoad, Goto, texVars, ClearMeshes
<1>2. made' = made /\ InPool' = InPool
  BY <1>1, PoolStay DEF TexInv
<1>3. cache'[m] = Empty /\ meshes'[m] = <<>>
  BY <1>1 DEF TexInv, ModelTypes
<1>4. \A n \in Models : n # m => cache'[n] = cache[n] /\ meshes'[n] = meshes[n]
  BY <1>1 DEF TexInv, ModelTypes
<1> QED
  BY <1>1, <1>2, <1>3, <1>4, Emptied, CachedWas

(* The cache of the model that is loaded grows by the texture loaded.      *)
LEMMA UnitCached ==
  ASSUME Few, TexInv, AcquireUnit, CallInv', NEW m \in Models, m = cur
  PROVE  /\ Cached(m)' = Cached(m) \cup {h} /\ h # 0 /\ h \in InPool
         /\ \A n \in Models : h \notin Cached(n)
         /\ \A n \in Models : Handles(n)' = Handles(n)
         /\ \A n \in Models : n # m => cache'[n] = cache[n] /\ Cached(n)' = Cached(n)
<1>1. /\ cur \in Models /\ keyOf[h] \in Keys /\ cache[cur][keyOf[h]] = 0 /\ h \in InPool
      /\ cache' = [cache EXCEPT ![cur][keyOf[h]] = h] /\ meshes' = meshes /\ h \in Objects
      /\ op = "loaded"
  BY UnitFacts DEF meshVars
<1>2. h # 0 /\ unit[h] = NoUnit
  BY <1>1, Numbers DEF TexInv, UnitsInv, Taking, Holding
<1>3. \A n \in Models : h \notin Cached(n)
  BY <1>2 DEF TexInv, CacheInv
<1>4. /\ cache'[m][keyOf[h]] = h
      /\ \A k \in Keys : k # keyOf[h] => cache'[m][k] = cache[m][k]
      /\ \A n \in Models : n # m => cache'[n] = cache[n]
  BY <1>1 DEF TexInv, ModelTypes
<1>5. \A o : o \in Cached(m)' <=> o \in Cached(m) \cup {h}
  BY <1>1, <1>2, <1>4, CachedIs, CachedNext
<1> QED
  BY <1>1, <1>2, <1>3, <1>4, <1>5, CachedWas

LEMMA FinishMeshFacts ==
  ASSUME TexInv, FinishMesh, NEW m \in Models, m = cur
  PROVE  /\ meshes' = [meshes EXCEPT ![m] = Append(meshes[m], hs)]
         /\ cur' = cur /\ hs \in Seq(Objects) /\ op = "next" /\ hs' = <<>>
         /\ meshes[m] \in Seq(Seq(Objects)) /\ state[m] = "ready"
         /\ \A o \in Handles(m)' : o \in Handles(m) \/ \E j \in DOMAIN hs : o = hs[j]
         /\ \A n \in Models : n # m => Handles(n)' = Handles(n)
<1>1. /\ op = "next" /\ meshes' = [meshes EXCEPT ![m] = Append(meshes[m], hs)]
      /\ cur' = cur /\ hs' = <<>>
  BY DEF FinishMesh
<1>2. /\ hs \in Seq(Objects) /\ meshes[m] \in Seq(Seq(Objects))
      /\ state[m] = "ready"
  BY <1>1 DEF TexInv, CallInv, ModelTypes, Loading
<1>3. meshes'[m] = Append(meshes[m], hs) /\ \A n \in Models : n # m => meshes'[n] = meshes[n]
  BY <1>1, <1>2 DEF TexInv, ModelTypes
<1>4. ASSUME NEW o \in Handles(m)' PROVE o \in Handles(m) \/ \E j \in DOMAIN hs : o = hs[j]
  <2>1. PICK i \in DOMAIN meshes'[m] : \E j \in DOMAIN meshes'[m][i] : o = meshes'[m][i][j]
    BY <1>4, CachedNext
  <2>2. CASE i = Len(meshes[m]) + 1
    <3>1. meshes'[m][i] = hs
      BY <1>2, <1>3, <2>2, OneMore
    <3> QED
      BY <2>1, <3>1
  <2>3. CASE i # Len(meshes[m]) + 1
    <3>1. i \in DOMAIN meshes[m] /\ meshes'[m][i] = meshes[m][i]
      BY <1>2, <1>3, <2>1, <2>3, OneMore
    <3> QED
      BY <2>1, <3>1, CachedIs
  <2> QED
    BY <2>2, <2>3
<1> QED
  BY <1>1, <1>2, <1>3, <1>4, CachedWas

(* The last a model caches goes when it is destroyed.                      *)
LEMMA FinishDestroyFacts ==
  ASSUME TexInv, FinishDestroy, NEW m \in Models, m = cur
  PROVE  /\ made' = made /\ InPool' = InPool /\ op = "release" /\ op' = "idle" /\ todo = {}
         /\ unit' = unit /\ copied' = copied
         /\ state' = [state EXCEPT ![m] = "dead"] /\ cache' = [cache EXCEPT ![m] = Empty]
         /\ meshes' = [meshes EXCEPT ![m] = <<>>] /\ Cached(m)' = {} /\ Handles(m)' = {}
         /\ \A n \in Models : n # m =>
               cache'[n] = cache[n] /\ Cached(n)' = Cached(n) /\ Handles(n)' = Handles(n)
<1>1. /\ op = "release" /\ op' = "idle" /\ todo = {} /\ UNCHANGED poolVars
      /\ unit' = unit /\ copied' = copied
      /\ state' = [state EXCEPT ![m] = "dead"] /\ cache' = [cache EXCEPT ![m] = Empty]
      /\ meshes' = [meshes EXCEPT ![m] = <<>>]
  BY DEF FinishDestroy, Goto, texVars, ClearMeshes
<1>2. made' = made /\ InPool' = InPool
  BY <1>1, PoolStay DEF TexInv
<1>3. cache'[m] = Empty /\ meshes'[m] = <<>>
  BY <1>1, <1>2 DEF TexInv, ModelTypes
<1>4. \A n \in Models : n # m => cache'[n] = cache[n] /\ meshes'[n] = meshes[n]
  BY <1>1, <1>2 DEF TexInv, ModelTypes
<1> QED
  BY <1>1, <1>2, <1>3, <1>4, Emptied, CachedWas

(* A copy caches what the original caches.                                 *)
LEMMA CopyFacts ==
  ASSUME TexInv, NEW m \in Models, NEW n \in Models, CopyModel(m, n)
  PROVE  /\ made' = made /\ InPool' = InPool /\ op = "idle" /\ op' = "idle" /\ m # n
         /\ unit' = unit /\ copied' = copied \cup {m, n} /\ state[n] = "none"
         /\ state' = [state EXCEPT ![n] = "ready"] /\ cache' = [cache EXCEPT ![n] = cache[m]]
         /\ meshes' = [meshes EXCEPT ![n] = meshes[m]] /\ cache'[n] = cache[m]
         /\ Cached(n)' = Cached(m) /\ Handles(n)' = Handles(m) /\ Cached(n) = {}
         /\ \A p \in Models : p # n =>
               cache'[p] = cache[p] /\ Cached(p)' = Cached(p) /\ Handles(p)' = Handles(p)
<1>1. /\ op = "idle" /\ op' = "idle" /\ m # n /\ UNCHANGED poolVars
      /\ unit' = unit /\ copied' = copied \cup {m, n} /\ state[n] = "none"
      /\ state' = [state EXCEPT ![n] = "ready"] /\ cache' = [cache EXCEPT ![n] = cache[m]]
      /\ meshes' = [meshes EXCEPT ![n] = meshes[m]]
  BY DEF CopyModel, texVars, callVars
<1>2. made' = made /\ InPool' = InPool
  BY <1>1, PoolStay DEF TexInv
<1>3. cache'[n] = cache[m] /\ meshes'[n] = meshes[m] /\ cache[n] = Empty
  BY <1>1 DEF TexInv, ModelTypes
<1>4. \A p \in Models : p # n => cache'[p] = cache[p] /\ meshes'[p] = meshes[p]
  BY <1>1 DEF TexInv, ModelTypes
<1>5. Cached(n)' = Cached(m) /\ Handles(n)' = Handles(m)
  BY <1>3 DEF Cached, Handles
<1> QED
  BY <1>1, <1>2, <1>3, <1>4, <1>5, Emptied, CachedWas

LEMMA OwnedCached ==
  ASSUME Few, TexInv, NEW k \in Keys, ReleaseOwned(k), CallInv', NEW m \in Models, m = cur,
         NEW o, o = cache[m][k]
  PROVE  /\ o \in Cached(m) /\ Cached(m)' \subseteq Cached(m)
         /\ cache'[m][k] \notin InPool'
         /\ \A j \in Keys : j # k => cache'[m][j] = cache[m][j]
         /\ \A n \in Models : n # m =>
               cache'[n] = cache[n] /\ Cached(n)' = Cached(n) /\ Handles(n)' = Handles(n)
<1>1. /\ o \in 1..made /\ meshes' = meshes /\ InPool' = InPool \ {o}
      /\ cache' = cache \/ cache' = [cache EXCEPT ![m][k] = 0]
  BY OwnedFacts DEF meshVars
<1>2. o # 0 /\ 0 \notin InPool
  BY <1>1, Numbers DEF InPool
<1>3. /\ cache'[m][k] \in {0, o} /\ \A j \in Keys : j # k => cache'[m][j] = cache[m][j]
      /\ \A n \in Models : n # m => cache'[n] = cache[n]
  BY <1>1 DEF TexInv, ModelTypes
<1>4. \A p \in Cached(m)' : p \in Cached(m)
  BY <1>3, CachedIs, CachedNext
<1>5. o \in Cached(m)
  BY <1>2, CachedIs
<1> QED
  BY <1>1, <1>2, <1>3, <1>4, <1>5, CachedWas
-----------------------------------------------------------------------------
LEMMA ModelStep == ASSUME Few, TexInv, Next, CallInv' PROVE ModelTypes'
<1>0. /\ ModelTypes /\ 0..made \subseteq 0..made' /\ <<>> \in Seq(Seq(Objects))
      /\ Empty \in [Keys -> 0..made'] /\ \A f \in [Keys -> 0..made] : f \in [Keys -> 0..made']
  BY MadeGrows DEF TexInv, Empty
<1>1. ASSUME Quiet, meshes' = meshes PROVE ModelTypes'
  BY <1>0, <1>1 DEF ModelTypes, Quiet, Empty
<1>2. ASSUME Quiet, FinishMesh PROVE ModelTypes'
  <2>1. PICK m \in Models : m = cur
    BY <1>2, FinishMeshFacts DEF TexInv, CallInv, FinishMesh
  <2>2. /\ meshes' = [meshes EXCEPT ![m] = Append(meshes[m], hs)] /\ hs \in Seq(Objects)
        /\ meshes[m] \in Seq(Seq(Objects)) /\ state[m] = "ready"
    BY <1>2, <2>1, FinishMeshFacts
  <2>3. Append(meshes[m], hs) \in Seq(Seq(Objects))
    BY <2>2
  <2>4. meshes' \in [Models -> Seq(Seq(Objects))] /\ \A n \in Models : n # m => meshes'[n] = meshes[n]
    BY <1>0, <2>2, <2>3 DEF ModelTypes
  <2> QED
    BY <1>0, <1>2, <2>2, <2>4 DEF ModelTypes, Quiet, Empty
<1>3. ASSUME NEW m \in Models, NEW sc \in Scenes, StartLoad(m, sc) PROVE ModelTypes'
  <2>1. /\ state' = [state EXCEPT ![m] = "ready"] /\ cache' = [cache EXCEPT ![m] = Empty]
        /\ meshes' = [meshes EXCEPT ![m] = <<>>] /\ copied' = copied
    BY <1>3, StartLoadFacts
  <2> QED
    BY <1>0, <2>1 DEF ModelTypes, Empty
<1>4. ASSUME AcquireUnit PROVE ModelTypes'
  <2>1. /\ cache' = [cache EXCEPT ![cur][keyOf[h]] = h] /\ cur \in Models /\ keyOf[h] \in Keys
        /\ meshes' = meshes /\ state' = state /\ copied' = copied /\ made' = made
        /\ h \in InPool /\ op # "idle"
    BY <1>4, UnitFacts DEF meshVars
  <2>2. h \in 0..made' /\ state[cur] = "ready"
    BY <2>1, Numbers DEF TexInv, CallInv
  <2>3. cache' \in [Models -> [Keys -> 0..made']]
    BY <1>0, <2>1, <2>2 DEF ModelTypes
  <2>4. \A m \in Models : m # cur => cache'[m] = cache[m]
    BY <1>0, <2>1 DEF ModelTypes
  <2> QED
    BY <1>0, <2>1, <2>2, <2>3, <2>4 DEF ModelTypes, Empty
<1>5. ASSUME NEW k \in Keys, ReleaseOwned(k) PROVE ModelTypes'
  <2>1. /\ cache' = cache \/ cache' = [cache EXCEPT ![cur][k] = 0]
        /\ meshes' = meshes /\ state' = state /\ copied' = copied /\ made' = made
        /\ cur \in Models /\ op = "release"
    BY <1>5, OwnedFacts DEF meshVars
  <2>2. cache' \in [Models -> [Keys -> 0..made']] /\ 0 \in 0..made /\ state[cur] = "ready"
    BY <1>0, <2>1, Numbers DEF ModelTypes, TexInv, CallInv
  <2>3. \A m \in Models : m # cur => cache'[m] = cache[m]
    BY <1>0, <2>1 DEF ModelTypes
  <2> QED
    BY <1>0, <2>1, <2>2, <2>3 DEF ModelTypes, Empty
<1>6. ASSUME FinishDestroy PROVE ModelTypes'
  <2>1. PICK m \in Models : m = cur
    BY <1>6 DEF FinishDestroy, TexInv, CallInv
  <2>2. /\ state' = [state EXCEPT ![m] = "dead"] /\ cache' = [cache EXCEPT ![m] = Empty]
        /\ meshes' = [meshes EXCEPT ![m] = <<>>] /\ copied' = copied
    BY <1>6, <2>1, FinishDestroyFacts
  <2> QED
    BY <1>0, <2>2 DEF ModelTypes, Empty
<1>7. ASSUME NEW m \in Models, NEW n \in Models, CopyModel(m, n) PROVE ModelTypes'
  <2>1. /\ state' = [state EXCEPT ![n] = "ready"] /\ cache' = [cache EXCEPT ![n] = cache[m]]
        /\ meshes' = [meshes EXCEPT ![n] = meshes[m]] /\ copied' = copied \cup {m, n}
    BY <1>7, CopyFacts
  <2> QED
    BY <1>0, <2>1 DEF ModelTypes, Empty
<1> QED
  BY <1>1, <1>2, <1>3, <1>4, <1>5, <1>6, <1>7, ModelKinds DEF Quiet

LEMMA CachedOf ==
  ASSUME NEW m, m = cur'
  PROVE  Cached(cur)' = Cached(m)' /\ Whole(cur)' = Whole(m)'
BY DEF Cached, Whole

(* A unit once given stays with its texture: only a texture that is loaded *)
(* gets one.                                                               *)
LEMMA UnitsKept ==
  ASSUME Few, TexInv, Next, CallInv'
  PROVE  \A o \in Objects : unit[o] # NoUnit => unit'[o] # NoUnit
<1>0. unit \in [Objects -> 0..NUnits] /\ NoUnit \notin Units
  BY UnitNumbers DEF TexInv, GlTypes
<1>1. ASSUME AcquireUnit PROVE \A o \in Objects : unit[o] # NoUnit => unit'[o] # NoUnit
  BY <1>0, <1>1, UnitFacts
<1>2. AcquireUnit \/ unit' = unit
  BY Kinds, AcquireFacts, FetchFacts, LoadFacts, FailedFacts, UnwindFacts, OwnedFacts
     DEF OtherStep, texVars
<1> QED
  BY <1>1, <1>2

(* What a call that loads has put aside for the mesh.                      *)
LEMMA AsideStep ==
  ASSUME Few, TexInv, Next, CallInv', Quiet, NEW m \in Models, m = cur', op' \in Loading
  PROVE  \A i \in DOMAIN hs' : hs'[i] \in Cached(m)
<1>0. /\ op \in Loading /\ cur = m /\ hs \in Seq(Objects)
      /\ \A i \in DOMAIN hs : hs[i] \in Cached(m)
  BY DEF TexInv, CacheInv, CallInv, Quiet
<1>1. CASE hs' = hs
  BY <1>0, <1>1
<1>2. CASE hs' = <<>>
  BY <1>2
<1>3. ASSUME CachedTexture PROVE \A i \in DOMAIN hs' : hs'[i] \in Cached(m)
  <2> DEFINE o == cache[m][Head(Head(rest))]
  <2>1. /\ op = "next" /\ rest # <<>> /\ Head(rest) # <<>> /\ o # 0 /\ hs' = Append(hs, o)
    BY <1>0, <1>3 DEF CachedTexture
  <2>2. rest \in Seq(Seq(Keys))
    BY <1>0 DEF TexInv, CallInv
  <2>3. Head(Head(rest)) \in Keys
    BY <2>1, <2>2, PopInner
  <2>4. o \in Cached(m)
    BY <2>1, <2>3, CachedIs
  <2> HIDE DEF o
  <2>5. o \in Objects
    BY <2>4, CachedMade
  <2> QED
    BY <1>0, <2>1, <2>4, <2>5, OneMore
<1>4. hs' = hs \/ hs' = <<>> \/ CachedTexture
  <2>1. op # "draw" /\ op # "idle" /\ op # "release"
    BY <1>0 DEF Loading, Taking, Holding
  <2>2. ASSUME AcquireTexture \/ FetchTexture \/ LoadImage \/ ReleaseFailed \/ Unwind
        PROVE  hs' = hs \/ hs' = <<>>
    BY <2>2 DEF AcquireTexture, FetchTexture, LoadImage, ReleaseFailed, Unwind
  <2>3. ASSUME LoadFails \/ UnitsExhausted \/ FinishMesh \/ FinishLoad
        PROVE  hs' = hs \/ hs' = <<>>
    BY <2>3 DEF LoadFails, UnitsExhausted, FinishMesh, FinishLoad
  <2>4. ~AcquireUnit
    <3> SUFFICES ASSUME AcquireUnit PROVE FALSE
      OBVIOUS
    <3>1. Cached(m)' = Cached(m) \cup {h} /\ h \notin Cached(m)
      BY <1>0, UnitCached
    <3>2. cache' = cache
      BY DEF Quiet
    <3> QED
      BY <3>1, <3>2, CachedWas
  <2>5. ~Draw /\ ~Destroy
    BY <2>1 DEF Draw, Destroy, StartDraw, ActivateTexture, DrawFails, DrawElements, FinishDraw,
               Drawing, StartDestroy, ReleaseOwned, FinishDestroy
  <2>6. \A p, q \in Models : ~CopyModel(p, q)
    BY <2>1 DEF CopyModel
  <2>7. \A p \in Models, sc \in Scenes : ~StartLoad(p, sc)
    BY <2>1 DEF StartLoad
  <2> QED
    BY <2>2, <2>3, <2>4, <2>5, <2>6, <2>7 DEF Next, Load
<1> QED
  BY <1>1, <1>2, <1>3, <1>4

LEMMA CacheStep == ASSUME Few, TexInv, Next, CallInv' PROVE CacheInv'
<1>0. /\ \A m \in Models : \A o \in Cached(m) : unit[o] # NoUnit /\ unit'[o] # NoUnit
      /\ \A m \in Models : Releasing(m) \/ Handles(m) \subseteq Cached(m)
      /\ op \in Loading => cur \in Models /\ \A i \in DOMAIN hs : hs[i] \in Cached(cur)
      /\ op' \in Loading => cur' \in Models
      /\ op \in Loading => op # "idle" /\ op # "release"
  BY UnitsKept, CachedMade DEF TexInv, CacheInv, CallInv, Loading, Taking, Holding
<1>1. ASSUME Quiet PROVE CacheInv'
  <2>1. \A m \in Models : Cached(m)' = Cached(m)
    BY <1>1, CachedWas DEF Quiet
  <2>2. \A m \in Models : ~Releasing(m) /\ Handles(m) \subseteq Cached(m)
    BY <1>0, <1>1 DEF Quiet, Releasing
  <2>3. \A m \in Models : Handles(m)' \subseteq Cached(m)
    <3>1. CASE meshes' = meshes
      BY <2>2, <3>1, CachedWas
    <3>2. CASE FinishMesh
      <4>1. PICK m \in Models : m = cur
        BY <1>0, <3>2 DEF FinishMesh, Loading
      <4>2. \A n \in Models : n # m => Handles(n)' = Handles(n)
        BY <3>2, <4>1, FinishMeshFacts
      <4>3. \A o \in Handles(m)' : o \in Handles(m) \/ \E j \in DOMAIN hs : o = hs[j]
        BY <3>2, <4>1, FinishMeshFacts
      <4>4. \A i \in DOMAIN hs : hs[i] \in Cached(m)
        BY <1>0, <3>2, <4>1 DEF FinishMesh, Loading
      <4> QED
        BY <2>2, <4>2, <4>3, <4>4
    <3> QED
      BY <1>1, <3>1, <3>2 DEF Quiet
  <2>4. ASSUME op' \in Loading PROVE \A i \in DOMAIN hs' : hs'[i] \in Cached(cur)'
    <3>1. PICK m \in Models : m = cur'
      BY <1>0, <2>4
    <3>2. \A i \in DOMAIN hs' : hs'[i] \in Cached(m)
      BY <1>1, <2>4, <3>1, AsideStep
    <3> QED
      BY <2>1, <3>1, <3>2, CachedOf
  <2> QED
    BY <1>0, <2>1, <2>3, <2>4 DEF CacheInv
<1>2. ASSUME NEW m \in Models, NEW sc \in Scenes, StartLoad(m, sc) PROVE CacheInv'
  <2>1. /\ op = "idle" /\ cur' = m /\ hs' = <<>> /\ Cached(m)' = {} /\ Handles(m)' = {}
        /\ \A n \in Models : n # m => Cached(n)' = Cached(n) /\ Handles(n)' = Handles(n)
    BY <1>2, StartLoadFacts
  <2>2. \A n \in Models : ~Releasing(n)
    BY <2>1 DEF Releasing
  <2> QED
    BY <1>0, <2>1, <2>2 DEF CacheInv
<1>3. ASSUME AcquireUnit PROVE CacheInv'
  <2>1. PICK m \in Models : m = cur
    BY <1>3, UnitFacts
  <2>2. /\ op = "loaded" /\ cur' = m /\ h \in Objects /\ hs' = Append(hs, h)
        /\ \E u \in Units : unit' = [unit EXCEPT ![h] = u]
    BY <1>3, <2>1, UnitFacts
  <2>3. /\ Cached(m)' = Cached(m) \cup {h} /\ \A n \in Models : Handles(n)' = Handles(n)
        /\ \A n \in Models : n # m => Cached(n)' = Cached(n)
    BY <1>3, <2>1, UnitCached
  <2>4. unit'[h] # NoUnit
    BY <2>2, UnitNumbers DEF TexInv, GlTypes
  <2>5. hs \in Seq(Objects) /\ \A i \in DOMAIN hs : hs[i] \in Cached(m)
    BY <1>0, <2>1, <2>2 DEF TexInv, CallInv, Loading, Taking, Holding
  <2>6. \A i \in DOMAIN hs' : hs'[i] \in Cached(m)'
    BY <2>2, <2>3, <2>5, OneMore
  <2>7. Cached(cur)' = Cached(m)' /\ \A n \in Models : ~Releasing(n)
    BY <2>2, CachedOf DEF Releasing
  <2> QED
    BY <1>0, <2>3, <2>4, <2>6, <2>7 DEF CacheInv
<1>4. ASSUME NEW k \in Keys, ReleaseOwned(k) PROVE CacheInv'
  <2>1. PICK m \in Models : m = cur
    BY <1>4, OwnedFacts
  <2>2. op = "release" /\ op' = "release" /\ cur' = m
    BY <1>4, <2>1, OwnedFacts
  <2>3. /\ Cached(m)' \subseteq Cached(m)
        /\ \A n \in Models : n # m => Cached(n)' = Cached(n) /\ Handles(n)' = Handles(n)
    BY <1>4, <2>1, OwnedCached
  <2>4. \A n \in Models : n # m => ~Releasing(n)
    BY <2>1 DEF Releasing
  <2>5. Releasing(m)' /\ op' \notin Loading
    BY <2>2 DEF Releasing, Loading, Taking, Holding
  <2> QED
    BY <1>0, <2>3, <2>4, <2>5 DEF CacheInv
<1>5. ASSUME FinishDestroy PROVE CacheInv'
  <2>1. PICK m \in Models : m = cur
    BY <1>5 DEF FinishDestroy, TexInv, CallInv
  <2>2. /\ op' = "idle" /\ Cached(m)' = {} /\ Handles(m)' = {}
        /\ \A n \in Models : n # m => Cached(n)' = Cached(n) /\ Handles(n)' = Handles(n)
    BY <1>5, <2>1, FinishDestroyFacts
  <2>3. \A n \in Models : n # m => ~Releasing(n)
    BY <2>1 DEF Releasing
  <2>4. op' \notin Loading
    BY <2>2 DEF Loading, Taking, Holding
  <2> QED
    BY <1>0, <2>2, <2>3, <2>4 DEF CacheInv
<1>6. ASSUME NEW m \in Models, NEW n \in Models, CopyModel(m, n) PROVE CacheInv'
  <2>1. /\ op = "idle" /\ op' = "idle" /\ Cached(n)' = Cached(m) /\ Handles(n)' = Handles(m)
        /\ \A p \in Models : p # n => Cached(p)' = Cached(p) /\ Handles(p)' = Handles(p)
    BY <1>6, CopyFacts
  <2>2. op' \notin Loading /\ \A p \in Models : ~Releasing(p)
    BY <2>1 DEF Loading, Taking, Holding, Releasing
  <2> QED
    BY <1>0, <2>1, <2>2 DEF CacheInv
<1> QED
  BY <1>1, <1>2, <1>3, <1>4, <1>5, <1>6, ModelKinds

LEMMA ApartNext ==
  ASSUME NEW m, NEW n
  PROVE  /\ Apart(m, n)' <=> Cached(m)' \cap Cached(n)' = {}
         /\ Apart(m, n) <=> Cached(m) \cap Cached(n) = {}
         /\ m = cur' => (Apart(cur, n)' <=> Apart(m, n)')
BY CachedOf DEF Apart, Cached

LEMMA SharingStep == ASSUME Few, TexInv, Next, CallInv' PROVE SharingInv'
<1>0. /\ \A m, n \in Models :
            Releasing(m) \/ Releasing(n) \/ Apart(m, n) \/ cache[m] = cache[n]
      /\ \A m, n \in Models : m # n /\ m \notin copied => Apart(m, n)
      /\ op \in Loading => \A n \in Models : n # cur => Apart(cur, n)
      /\ op' \in Loading => cur' \in Models
  BY DEF TexInv, SharingInv, CallInv, Loading, Taking, Holding
<1>1. ASSUME Quiet PROVE SharingInv'
  <2>1. /\ \A m \in Models : Cached(m)' = Cached(m) /\ cache'[m] = cache[m] /\ ~Releasing(m)
        /\ copied' = copied
    BY <1>1, CachedWas DEF Quiet, Releasing
  <2>2. \A m, n \in Models : Apart(m, n)' <=> Apart(m, n)
    BY <2>1, ApartNext
  <2>3. ASSUME op' \in Loading, NEW n \in Models, n # cur' PROVE Apart(cur, n)'
    <3>1. PICK m \in Models : m = cur' /\ m = cur
      BY <1>0, <1>1, <2>3 DEF Quiet
    <3>2. Apart(m, n)
      BY <1>0, <1>1, <2>3, <3>1 DEF Quiet
    <3> QED
      BY <2>2, <3>1, <3>2, ApartNext
  <2> QED
    BY <1>0, <2>1, <2>2, <2>3 DEF SharingInv
<1>2. ASSUME NEW m \in Models, NEW sc \in Scenes, StartLoad(m, sc) PROVE SharingInv'
  <2>1. /\ op = "idle" /\ cur' = m /\ Cached(m)' = {} /\ copied' = copied
        /\ \A n \in Models : n # m => cache'[n] = cache[n] /\ Cached(n)' = Cached(n)
    BY <1>2, StartLoadFacts
  <2>2. \A n \in Models : ~Releasing(n) /\ Apart(m, n)' /\ Apart(n, m)'
    BY <2>1, ApartNext DEF Releasing
  <2>3. \A p, n \in Models : p # m /\ n # m => Apart(p, n)' <=> Apart(p, n)
    BY <2>1, ApartNext
  <2>4. \A p, n \in Models : Apart(p, n)' \/ cache'[p] = cache'[n]
    BY <1>0, <2>1, <2>2, <2>3
  <2>5. \A p, n \in Models : p # n /\ p \notin copied' => Apart(p, n)'
    BY <1>0, <2>1, <2>2, <2>3
  <2>6. \A n \in Models : Apart(cur, n)'
    BY <2>1, <2>2, ApartNext
  <2> QED
    BY <2>4, <2>5, <2>6 DEF SharingInv
<1>3. ASSUME AcquireUnit PROVE SharingInv'
  <2>1. PICK m \in Models : m = cur
    BY <1>3, UnitFacts
  <2>2. op = "loaded" /\ cur' = m /\ copied' = copied
    BY <1>3, <2>1, UnitFacts
  <2>3. /\ Cached(m)' = Cached(m) \cup {h} /\ \A n \in Models : h \notin Cached(n)
        /\ \A n \in Models : n # m => cache'[n] = cache[n] /\ Cached(n)' = Cached(n)
    BY <1>3, <2>1, UnitCached
  <2>4. \A n \in Models : n # m => Apart(m, n)
    BY <1>0, <2>1, <2>2 DEF Loading, Taking, Holding
  <2>5. \A n \in Models : ~Releasing(n) /\ (n # m => Apart(m, n)' /\ Apart(n, m)')
    <3>1. \A n \in Models : ~Releasing(n)
      BY <2>2 DEF Releasing
    <3>2. ASSUME NEW n \in Models, n # m PROVE Apart(m, n)' /\ Apart(n, m)'
      <4>1. Cached(m)' \cap Cached(n)' = {}
        BY <2>3, <2>4, <3>2, ApartNext
      <4> QED
        BY <4>1, ApartNext
    <3> QED
      BY <3>1, <3>2
  <2>6. \A p, n \in Models : p # m /\ n # m => Apart(p, n)' <=> Apart(p, n)
    BY <2>3, ApartNext
  <2>7. \A p, n \in Models : Apart(p, n)' \/ cache'[p] = cache'[n]
    BY <1>0, <2>3, <2>5, <2>6
  <2>8. \A p, n \in Models : p # n /\ p \notin copied' => Apart(p, n)'
    BY <1>0, <2>2, <2>5, <2>6
  <2>9. \A n \in Models : n # m => Apart(cur, n)'
    BY <2>2, <2>5, ApartNext
  <2> QED
    BY <2>2, <2>7, <2>8, <2>9 DEF SharingInv
<1>4. ASSUME NEW k \in Keys, ReleaseOwned(k) PROVE SharingInv'
  <2>1. PICK m \in Models : m = cur
    BY <1>4, OwnedFacts
  <2>2. op' = "release" /\ cur' = m /\ copied' = copied
    BY <1>4, <2>1, OwnedFacts
  <2>3. /\ Cached(m)' \subseteq Cached(m)
        /\ \A n \in Models : n # m => cache'[n] = cache[n] /\ Cached(n)' = Cached(n)
    BY <1>4, <2>1, OwnedCached
  <2>4. /\ \A n \in Models : n # m => ~Releasing(n)
        /\ Releasing(m)' /\ op' \notin Loading
    BY <2>1, <2>2 DEF Releasing, Loading, Taking, Holding
  <2>5. \A p, n \in Models : Apart(p, n) => Apart(p, n)'
    BY <2>3, ApartNext
  <2>6. \A p, n \in Models : Releasing(p)' \/ Releasing(n)' \/ Apart(p, n)' \/ cache'[p] = cache'[n]
    BY <1>0, <2>3, <2>4, <2>5
  <2> QED
    BY <1>0, <2>2, <2>4, <2>5, <2>6 DEF SharingInv
<1>5. ASSUME FinishDestroy PROVE SharingInv'
  <2>1. PICK m \in Models : m = cur
    BY <1>5 DEF FinishDestroy, TexInv, CallInv
  <2>2. /\ op' = "idle" /\ Cached(m)' = {} /\ copied' = copied
        /\ \A n \in Models : n # m => cache'[n] = cache[n] /\ Cached(n)' = Cached(n)
    BY <1>5, <2>1, FinishDestroyFacts
  <2>3. /\ \A n \in Models : n # m => ~Releasing(n)
        /\ op' \notin Loading
    BY <2>1, <2>2 DEF Releasing, Loading, Taking, Holding
  <2>4. \A n \in Models : Apart(m, n)' /\ Apart(n, m)'
    BY <2>2, ApartNext
  <2>5. \A p, n \in Models : p # m /\ n # m => Apart(p, n)' <=> Apart(p, n)
    BY <2>2, ApartNext
  <2>6. \A p, n \in Models : Apart(p, n)' \/ cache'[p] = cache'[n]
    BY <1>0, <2>2, <2>3, <2>4, <2>5
  <2> QED
    BY <1>0, <2>2, <2>3, <2>4, <2>5, <2>6 DEF SharingInv
<1>6. ASSUME NEW m \in Models, NEW n \in Models, CopyModel(m, n) PROVE SharingInv'
  <2>1. /\ op = "idle" /\ op' = "idle" /\ m # n /\ copied' = copied \cup {m, n}
        /\ cache'[n] = cache[m] /\ Cached(n)' = Cached(m)
        /\ \A p \in Models : p # n => cache'[p] = cache[p] /\ Cached(p)' = Cached(p)
    BY <1>6, CopyFacts
  <2>2. op' \notin Loading /\ \A p \in Models : ~Releasing(p)
    BY <2>1 DEF Loading, Taking, Holding, Releasing
  <2>3. \A p, q \in Models : p # n /\ q # n => Apart(p, q)' <=> Apart(p, q)
    BY <2>1, ApartNext
  <2>4. \A p \in Models : p # n =>
          (Apart(p, n)' <=> Apart(p, m)) /\ (Apart(n, p)' <=> Apart(m, p))
    BY <2>1, ApartNext
  <2>5. \A p, q \in Models : Apart(p, q)' \/ cache'[p] = cache'[q]
    BY <1>0, <2>1, <2>2, <2>3, <2>4
  <2>6. \A p, q \in Models : p # q /\ p \notin copied' => Apart(p, q)'
    BY <1>0, <2>1, <2>3, <2>4
  <2> QED
    BY <2>2, <2>5, <2>6 DEF SharingInv
<1> QED
  BY <1>1, <1>2, <1>3, <1>4, <1>5, <1>6, ModelKinds

LEMMA WholeNext ==
  ASSUME NEW m
  PROVE  /\ Whole(m) <=> Cached(m) \subseteq InPool
         /\ Whole(m)' <=> Cached(m)' \subseteq InPool'
         /\ Gone(m) <=> Cached(m) \cap InPool = {}
         /\ Gone(m)' <=> Cached(m)' \cap InPool' = {}
BY DEF Whole, Gone

LEMMA DoomedNext ==
  ASSUME NEW n
  PROVE  Doomed(n)' <=> \A k \in Keys : cache'[n][k] \in InPool' =>
                            k \in todo' /\ cache'[cur'][k] = cache'[n][k]
BY DEF Doomed

(* Until a model is released, the pool changes in textures nobody caches.  *)
LEMMA PoolOfQuiet ==
  ASSUME Few, TexInv, Next, CallInv', Quiet
  PROVE  \A o \in 1..made : (\E m \in Models : o \in Cached(m)) => (o \in InPool' <=> o \in InPool)
<1>1. CASE OtherStep \/ LoadImage \/ FetchTexture \/ AcquireUnit \/ Unwind
  BY <1>1, PoolOfStay, PoolOfFetch, PoolOfDrop
<1>2. CASE AcquireTexture
  <2>1. InPool' = InPool \cup {made + 1} /\ made + 1 \notin 1..made
    BY <1>2, AcquireFacts
  <2> QED
    BY <2>1
<1>3. CASE ReleaseFailed
  <2>1. InPool' = InPool \ {h} /\ unit[h] = NoUnit
    BY <1>3, FailedFacts
  <2> QED
    BY <2>1 DEF TexInv, CacheInv
<1>4. \A k \in Keys : ~ReleaseOwned(k)
  BY DEF Quiet, ReleaseOwned
<1> QED
  BY <1>1, <1>2, <1>3, <1>4, Kinds

LEMMA WholeStep == ASSUME Few, TexInv, Next, CallInv' PROVE WholeInv'
<1>0. /\ op # "release" => \A m \in Models : Whole(m) \/ Gone(m)
      /\ op \in Loading => Whole(cur)
      /\ op = "release" =>
            /\ \A n \in Models \ {cur} : Doomed(n) \/ (Whole(n) /\ Apart(n, cur))
            /\ \A k \in Keys : k \in todo => cache[cur][k] # 0
            /\ \A k \in Keys \ todo : cache[cur][k] \notin InPool
      /\ \A m \in Models \ copied : Releasing(m) \/ Whole(m)
      /\ op' \in Loading => cur' \in Models
      /\ op' # "idle" => cur' \in Models
      /\ op' \in Loading => op' # "release"
  BY DEF TexInv, WholeInv, CallInv, Loading, Taking, Holding
<1>a. \A m \in Models : \A o \in Cached(m) : o \in 1..made
  BY CachedMade
<1>b. 0 \notin InPool
  BY Numbers DEF InPool
<1>1. ASSUME Quiet PROVE WholeInv'
  <2>1. /\ \A m \in Models : Cached(m)' = Cached(m) /\ ~Releasing(m)
        /\ copied' = copied /\ cache' = cache /\ op # "release"
    BY <1>1, CachedWas DEF Quiet, Releasing
  <2>2. \A m \in Models : \A o \in Cached(m) : o \in InPool' <=> o \in InPool
    BY <1>1, <1>a, PoolOfQuiet
  <2>3. \A m \in Models : (Whole(m)' <=> Whole(m)) /\ (Gone(m)' <=> Gone(m))
    BY <2>1, <2>2, WholeNext
  <2>4. ASSUME op' \in Loading PROVE Whole(cur)'
    <3>1. PICK m \in Models : m = cur' /\ m = cur /\ op \in Loading
      BY <1>0, <1>1, <2>4 DEF Quiet
    <3> QED
      BY <1>0, <2>3, <3>1, CachedOf
  <2>5. ASSUME op' = "release"
        PROVE  /\ \A n \in Models \ {cur'} : Doomed(n)' \/ (Whole(n)' /\ Apart(n, cur)')
               /\ \A k \in Keys : k \in todo' => cache'[cur'][k] # 0
               /\ \A k \in Keys \ todo' : cache'[cur'][k] \notin InPool'
    <3>1. PICK m \in Models : StartDestroy(m)
      <4>1. ~FinishMesh
        BY <2>5 DEF FinishMesh
      <4>2. ~CachedTexture /\ ~AcquireTexture /\ ~FetchTexture /\ ~LoadImage /\ ~LoadFails
        BY <2>5 DEF CachedTexture, AcquireTexture, FetchTexture, LoadImage, LoadFails, Goto
      <4>3. ~AcquireUnit /\ ~UnitsExhausted /\ ~ReleaseFailed /\ ~Unwind /\ ~FinishLoad
        BY <2>5 DEF AcquireUnit, UnitsExhausted, ReleaseFailed, Unwind, FinishLoad, Goto
      <4>4. /\ \A m \in Models, sc \in Scenes : ~StartLoad(m, sc)
            /\ \A m \in Models : ~StartDraw(m)
            /\ \A m, n \in Models : ~CopyModel(m, n)
        BY <2>5 DEF StartLoad, StartDraw, CopyModel, Goto, callVars
      <4>5. ~ActivateTexture /\ ~DrawFails /\ ~DrawElements /\ ~FinishDraw
        BY <2>5 DEF ActivateTexture, DrawFails, DrawElements, FinishDraw, Drawing, Goto
      <4>6. ~FinishDestroy /\ \A k \in Keys : ~ReleaseOwned(k)
        BY <2>1 DEF FinishDestroy, ReleaseOwned
      <4> QED
        BY <4>1, <4>2, <4>3, <4>4, <4>5, <4>6 DEF Next, Load, Draw, Destroy
    <3>2. /\ op = "idle" /\ cur' = m /\ todo' = {k \in Keys : cache[m][k] # 0}
          /\ UNCHANGED poolVars
      BY <3>1 DEF StartDestroy
    <3>3. InPool' = InPool
      BY <3>2, PoolStay DEF TexInv
    <3>4. ASSUME NEW n \in Models, n # m PROVE Doomed(n)' \/ (Whole(n)' /\ Apart(n, cur)')
      <4>1. Apart(n, m) \/ cache[n] = cache[m]
        BY <2>1 DEF TexInv, SharingInv
      <4>2. CASE Apart(n, m) /\ Whole(n)
        BY <2>1, <2>3, <3>2, <4>2, ApartNext, CachedOf DEF Apart
      <4>3. CASE Gone(n)
        <5>1. \A k \in Keys : cache[n][k] \notin InPool
          BY <1>b, <4>3, WholeNext, CachedIs
        <5> QED
          BY <2>1, <3>3, <5>1, DoomedNext
      <4>4. CASE cache[n] = cache[m]
        <5>1. \A k \in Keys : cache[n][k] \in InPool => k \in todo' /\ cache[m][k] = cache[n][k]
          BY <1>b, <3>2, <4>4
        <5> QED
          BY <2>1, <3>2, <3>3, <5>1, DoomedNext
      <4>5. Whole(n) \/ Gone(n)
        BY <1>0, <2>1
      <4> QED
        BY <4>1, <4>2, <4>3, <4>4, <4>5
    <3> QED
      BY <1>b, <2>1, <3>2, <3>3, <3>4
  <2> QED
    BY <1>0, <2>1, <2>3, <2>4, <2>5 DEF WholeInv
<1>2. ASSUME NEW m \in Models, NEW sc \in Scenes, StartLoad(m, sc) PROVE WholeInv'
  <2>1. /\ op = "idle" /\ op' = "next" /\ cur' = m /\ Cached(m)' = {} /\ copied' = copied
        /\ InPool' = InPool
        /\ \A n \in Models : n # m => cache'[n] = cache[n] /\ Cached(n)' = Cached(n)
    BY <1>2, StartLoadFacts
  <2>2. \A n \in Models : ~Releasing(n)
    BY <2>1 DEF Releasing
  <2>3. Whole(m)' /\ Whole(cur)'
    BY <2>1, WholeNext, CachedOf
  <2>4. \A n \in Models : n # m => (Whole(n)' <=> Whole(n)) /\ (Gone(n)' <=> Gone(n))
    BY <2>1, WholeNext
  <2> QED
    BY <1>0, <2>1, <2>2, <2>3, <2>4 DEF WholeInv
<1>3. ASSUME AcquireUnit PROVE WholeInv'
  <2>1. PICK m \in Models : m = cur
    BY <1>3, UnitFacts
  <2>2. op = "loaded" /\ op' = "next" /\ cur' = m /\ copied' = copied /\ InPool' = InPool
    BY <1>3, <2>1, UnitFacts
  <2>3. /\ Cached(m)' = Cached(m) \cup {h} /\ h \in InPool
        /\ \A n \in Models : n # m => Cached(n)' = Cached(n)
    BY <1>3, <2>1, UnitCached
  <2>4. Whole(m) /\ \A n \in Models : ~Releasing(n)
    BY <1>0, <2>1, <2>2 DEF Loading, Taking, Holding, Releasing
  <2>5. Whole(m)' /\ Whole(cur)'
    BY <2>2, <2>3, <2>4, WholeNext, CachedOf
  <2>6. \A n \in Models : n # m => (Whole(n)' <=> Whole(n)) /\ (Gone(n)' <=> Gone(n))
    BY <2>2, <2>3, WholeNext
  <2> QED
    BY <1>0, <2>2, <2>4, <2>5, <2>6 DEF WholeInv
<1>4. ASSUME NEW k \in Keys, ReleaseOwned(k) PROVE WholeInv'
  <2>1. PICK m \in Models : m = cur
    BY <1>4, OwnedFacts
  <2>2. PICK o : o = cache[m][k]
    OBVIOUS
  <2>3. /\ op = "release" /\ op' = "release" /\ cur' = m /\ copied' = copied
        /\ InPool' = InPool \ {o} /\ k \in todo /\ todo' = todo \ {k}
    BY <1>4, <2>1, <2>2, OwnedFacts
  <2>4. /\ o \in Cached(m) /\ Cached(m)' \subseteq Cached(m) /\ cache'[m][k] \notin InPool'
        /\ \A j \in Keys : j # k => cache'[m][j] = cache[m][j]
        /\ \A n \in Models : n # m => cache'[n] = cache[n] /\ Cached(n)' = Cached(n)
    BY <1>4, <2>1, <2>2, OwnedCached
  <2>5. /\ \A n \in Models : n # m => ~Releasing(n)
        /\ Releasing(m)'
    BY <2>1, <2>3 DEF Releasing
  <2>6. ASSUME NEW n \in Models, n # m PROVE Doomed(n)' \/ (Whole(n)' /\ Apart(n, cur)')
    <3>1. CASE Doomed(n)
      <4>1. \A j \in Keys : cache[n][j] \in InPool => j \in todo /\ cache[m][j] = cache[n][j]
        BY <2>1, <3>1 DEF Doomed
      <4>2. \A j \in Keys : cache'[n][j] \in InPool' =>
                j \in todo' /\ cache'[m][j] = cache'[n][j]
        BY <2>2, <2>3, <2>4, <2>6, <4>1
      <4> QED
        BY <2>3, <4>2, DoomedNext
    <3>2. CASE Whole(n) /\ Apart(n, m)
      <4>1. Whole(n)'
        BY <2>3, <2>4, <2>6, <3>2, WholeNext, ApartNext
      <4>2. Cached(n)' \cap Cached(m)' = {}
        BY <2>4, <2>6, <3>2, ApartNext
      <4>3. Apart(n, cur)'
        BY <2>3, <4>2, CachedOf DEF Apart
      <4> QED
        BY <4>1, <4>3
    <3> QED
      BY <1>0, <2>1, <2>3, <2>6, <3>1, <3>2
  <2>7. \A j \in Keys : j \in todo' => cache'[m][j] # 0
    BY <1>0, <2>1, <2>3, <2>4
  <2>8. \A j \in Keys \ todo' : cache'[m][j] \notin InPool'
    BY <1>0, <2>1, <2>3, <2>4
  <2>9. \A n \in Models \ copied' : Releasing(n)' \/ Whole(n)'
    <3> SUFFICES ASSUME NEW n \in Models \ copied, n # m PROVE Whole(n)'
      BY <2>3, <2>5
    <3>1. Whole(n) /\ Apart(n, m)
      BY <1>0, <2>5 DEF TexInv, SharingInv
    <3> QED
      BY <2>3, <2>4, <3>1, WholeNext, ApartNext
  <2>10. op' \notin Loading
    BY <2>3 DEF Loading, Taking, Holding
  <2> QED
    BY <2>3, <2>6, <2>7, <2>8, <2>9, <2>10 DEF WholeInv
<1>5. ASSUME FinishDestroy PROVE WholeInv'
  <2>1. PICK m \in Models : m = cur
    BY <1>5 DEF FinishDestroy, TexInv, CallInv
  <2>2. /\ op = "release" /\ op' = "idle" /\ todo = {} /\ Cached(m)' = {} /\ copied' = copied
        /\ InPool' = InPool
        /\ \A n \in Models : n # m => cache'[n] = cache[n] /\ Cached(n)' = Cached(n)
    BY <1>5, <2>1, FinishDestroyFacts
  <2>3. \A n \in Models : n # m => ~Releasing(n)
    BY <2>1 DEF Releasing
  <2>4. \A n \in Models : n # m => (Whole(n)' <=> Whole(n)) /\ (Gone(n)' <=> Gone(n))
    BY <2>2, WholeNext
  <2>5. Whole(m)'
    BY <2>2, WholeNext
  <2>6. ASSUME NEW n \in Models, n # m PROVE Whole(n) \/ Gone(n)
    <3>1. CASE Doomed(n)
      <4>1. \A k \in Keys : cache[n][k] \notin InPool
        BY <2>2, <3>1 DEF Doomed
      <4> QED
        BY <4>1, WholeNext, CachedIs
    <3> QED
      BY <1>0, <2>1, <2>2, <2>6, <3>1
  <2>7. op' \notin Loading
    BY <2>2 DEF Loading, Taking, Holding
  <2> QED
    BY <1>0, <2>2, <2>3, <2>4, <2>5, <2>6, <2>7 DEF WholeInv
<1>6. ASSUME NEW m \in Models, NEW n \in Models, CopyModel(m, n) PROVE WholeInv'
  <2>1. /\ op = "idle" /\ op' = "idle" /\ m # n /\ copied' = copied \cup {m, n}
        /\ Cached(n)' = Cached(m) /\ InPool' = InPool
        /\ \A p \in Models : p # n => Cached(p)' = Cached(p)
    BY <1>6, CopyFacts
  <2>2. op' \notin Loading /\ \A p \in Models : ~Releasing(p)
    BY <2>1 DEF Loading, Taking, Holding, Releasing
  <2>3. \A p \in Models : p # n => (Whole(p)' <=> Whole(p)) /\ (Gone(p)' <=> Gone(p))
    BY <2>1, WholeNext
  <2>4. (Whole(n)' <=> Whole(m)) /\ (Gone(n)' <=> Gone(m))
    BY <2>1, WholeNext
  <2> QED
    BY <1>0, <2>1, <2>2, <2>3, <2>4 DEF WholeInv
<1> QED
  BY <1>1, <1>2, <1>3, <1>4, <1>5, <1>6, ModelKinds

(* A draw keeps what it has bound so far: textures with a unit in common   *)
(* are one texture, and a unit other than the active one is not touched.   *)
LEMMA ActivateKeeps ==
  ASSUME TexInv, ActivateTexture
  PROVE  DrawInv'
<1>1. PICK o \in Cached(cur) \cap InPool :
            /\ o \in Objects /\ unit[o] \in Units /\ unit[o] # NoUnit /\ table[unit[o]] = id[o]
            /\ id[o] # 0 /\ id[o] \in names
            /\ activePos' = unit[o]
            /\ active' = IF activePos = unit[o] THEN active ELSE unit[o]
            /\ bound' = [bound EXCEPT ![active'] = id[o]]
            /\ hs' = Append(hs, o) /\ op = "draw" /\ op' = "draw" /\ cur \in Models
            /\ rest # <<>> /\ Head(rest) # <<>> /\ rest \in Seq(Seq(Objects))
            /\ hs \in Seq(Objects) /\ o = Head(Head(rest))
            /\ rest' = <<Tail(Head(rest))>> \o Tail(rest)
            /\ UNCHANGED <<poolVars, texVars, bindId, table, names, image, modelVars>>
            /\ UNCHANGED <<cur, h, todo>>
  BY ActivateFacts
<1> DEFINE p == unit[o]
<1>2. PICK m \in Models : m = cur
  BY <1>1
<1>3. /\ \A i \in DOMAIN rest : \A j \in DOMAIN rest[i] : rest[i][j] \in Cached(m)
      /\ \A i \in DOMAIN hs : hs[i] \in Cached(m) \cap InPool /\ bound[unit[hs[i]]] = id[hs[i]]
      /\ activePos # NoUnit =>
            table[activePos] # 0 /\ (activePos = 0 \/ bound[activePos] = table[activePos])
      /\ active = 0 \/ hs # <<>>
      /\ hs # <<>> => active = activePos
                      \/ (active = 0 /\ \A i \in DOMAIN hs : unit[hs[i]] = activePos)
  BY <1>1, <1>2 DEF TexInv, DrawInv
<1>4. UNCHANGED <<id, unit, cache, meshes, table>> /\ InPool' = InPool /\ Cached(m)' = Cached(m)
      /\ Cached(cur)' = Cached(m)
  BY <1>1, <1>2, PoolStay, CachedOf DEF texVars, modelVars, meshVars, TexInv, Cached
<1>5. bound \in [Units -> 0..MaxObj] /\ active \in Units /\ active' \in Units /\ 0 \in Units
  BY <1>1, UnitNumbers DEF TexInv, GlTypes
<1>6. \A x \in Cached(m) \cap InPool : x \in Objects /\ unit[x] \in Units /\ table[unit[x]] = id[x]
  <2> SUFFICES ASSUME NEW x \in Cached(m), x \in InPool
               PROVE  x \in Objects /\ unit[x] \in Units /\ table[unit[x]] = id[x]
    OBVIOUS
  <2>1. x \in Objects /\ unit[x] # NoUnit /\ x \in Existing
    BY CachedMade, Numbers
  <2> QED
    BY <2>1, UnitNumbers DEF TexInv, UnitsInv, GlTypes
<1> HIDE DEF p
<1>7. /\ active' \in {0, p} /\ (active' # p => activePos = p /\ bound[p] = id[o])
      /\ bound'[active'] = id[o] /\ \A u \in Units : u # active' => bound'[u] = bound[u]
  <2>1. CASE activePos = p
    <3>1. active' = active /\ activePos # NoUnit /\ (p = 0 \/ bound[p] = id[o])
      BY <1>1, <1>3, <2>1 DEF p
    <3>2. active \in {0, p}
      BY <1>3, <2>1
    <3> QED
      BY <1>1, <1>5, <2>1, <3>1, <3>2
  <2>2. CASE activePos # p
    BY <1>1, <1>5, <2>2 DEF p
  <2> QED
    BY <2>1, <2>2
<1>8. bound'[p] = id[o] /\ p \in Units
  BY <1>1, <1>7 DEF p
<1>9. ASSUME NEW i \in DOMAIN hs PROVE bound'[unit[hs[i]]] = id[hs[i]]
  <2>1. PICK x \in Cached(m) \cap InPool : x = hs[i] /\ bound[unit[x]] = id[x]
    BY <1>3
  <2>2. x \in Objects /\ unit[x] \in Units /\ table[unit[x]] = id[x]
    BY <1>6
  <2>3. CASE unit[x] = p
    BY <1>1, <1>8, <2>1, <2>2, <2>3 DEF p
  <2>4. CASE active' # unit[x]
    BY <1>7, <2>1, <2>2, <2>4
  <2>5. CASE unit[x] # p /\ active' = unit[x]
    <3>1. active' = 0 /\ active' # p /\ activePos = p /\ p # 0
      BY <1>7, <2>5
    <3>2. active = 0 /\ active # activePos
      BY <1>1, <3>1 DEF p
    <3>3. hs # <<>>
      BY <1>1
    <3>4. unit[x] = p
      BY <1>3, <2>1, <3>1, <3>2, <3>3
    <3> QED
      BY <2>5, <3>4
  <2> QED
    BY <2>3, <2>4, <2>5
<1>10. hs' # <<>> /\ \A i \in DOMAIN hs' : hs'[i] = o \/ \E j \in DOMAIN hs : hs'[i] = hs[j]
  <2>1. hs \in Seq(Objects) /\ o \in Objects /\ hs' = Append(hs, o)
    BY <1>1
  <2> QED
    BY <2>1, OneMore
<1>11. rest' # <<>> /\ \A i \in DOMAIN rest' : \A j \in DOMAIN rest'[i] : rest'[i][j] \in Cached(m)
  <2>1. /\ rest \in Seq(Seq(Objects)) /\ rest # <<>> /\ Head(rest) # <<>>
        /\ rest' = <<Tail(Head(rest))>> \o Tail(rest)
    BY <1>1
  <2> QED
    BY <1>3, <2>1, PopWithin, Zenon
<1>12. \A i \in DOMAIN hs' : hs'[i] \in Cached(m) \cap InPool /\ bound'[unit'[hs'[i]]] = id'[hs'[i]]
  BY <1>1, <1>2, <1>3, <1>4, <1>8, <1>9, <1>10 DEF p
<1>13. table'[activePos'] # 0 /\ bound'[activePos'] = table'[activePos']
  BY <1>1, <1>4, <1>8 DEF p
<1>14. active' = activePos' \/ (active' = 0 /\ \A i \in DOMAIN hs' : unit'[hs'[i]] = activePos')
  <2>1. CASE active' = p
    BY <1>1, <2>1 DEF p
  <2>2. CASE active' # p
    <3>1. active' = 0 /\ activePos = p /\ active = 0 /\ active # activePos
      BY <1>1, <1>7, <2>2 DEF p
    <3>2. \A i \in DOMAIN hs : unit[hs[i]] = p
      <4>1. CASE hs = <<>>
        BY <4>1
      <4>2. CASE hs # <<>>
        BY <1>3, <3>1, <4>2
      <4> QED
        BY <4>1, <4>2
    <3> QED
      BY <1>1, <1>4, <1>10, <3>1, <3>2 DEF p
  <2> QED
    BY <2>1, <2>2
<1>15. op' = "draw" /\ Cached(cur)' = Cached(m) /\ InPool' = InPool
  BY <1>1, <1>4
<1> QED
  BY <1>10, <1>11, <1>12, <1>13, <1>14, <1>15 DEF DrawInv

(* Outside a draw unit 0 is the active one.                                *)
LEMMA OutsideDraw ==
  ASSUME TexInv, Next, OtherStep, CallInv', UNCHANGED <<activePos, active, bound>>
  PROVE  DrawInv'
<1>0. /\ op = "draw" =>
            /\ \A i \in DOMAIN rest : \A j \in DOMAIN rest[i] : rest[i][j] \in Cached(cur)
            /\ \A i \in DOMAIN hs : hs[i] \in Cached(cur) \cap InPool
      /\ active = 0 \/ (op = "draw" /\ hs # <<>>)
      /\ op = "draw" /\ hs # <<>> => rest # <<>>
      /\ activePos # NoUnit =>
            table[activePos] # 0 /\ (activePos = 0 \/ bound[activePos] = table[activePos])
      /\ table' = table
  BY DEF TexInv, DrawInv, OtherStep
<1>1. ASSUME NEW m \in Models, StartDraw(m) PROVE DrawInv'
  <2>1. /\ op = "idle" /\ op' = "draw" /\ cur' = m /\ rest' = meshes[m] /\ hs' = <<>>
        /\ cache' = cache
    BY <1>1 DEF StartDraw, Goto, modelVars
  <2>2. Cached(cur)' = Cached(m)
    BY <2>1 DEF Cached
  <2>3. Handles(m) \subseteq Cached(m)
    BY <2>1 DEF TexInv, CacheInv, Releasing
  <2>4. \A i \in DOMAIN rest' : \A j \in DOMAIN rest'[i] : rest'[i][j] \in Cached(m)
    BY <2>1, <2>3, CachedIs
  <2> QED
    BY <1>0, <2>1, <2>2, <2>4 DEF DrawInv
<1>2. ASSUME DrawFails PROVE active = 0
  <2>1. /\ op = "draw" /\ rest # <<>> /\ Head(rest) # <<>>
        /\ ~Valid(Head(Head(rest))) \/ unit[Head(Head(rest))] = NoUnit
    BY <1>2 DEF DrawFails, Drawing
  <2>2. PICK m \in Models : m = cur
    BY <2>1 DEF TexInv, CallInv
  <2>3. PICK o : o = Head(Head(rest))
    OBVIOUS
  <2>4. o \in Cached(m)
    <3>1. rest \in Seq(Seq(Objects))
      BY <2>1 DEF TexInv, CallInv
    <3>2. 1 \in DOMAIN rest /\ 1 \in DOMAIN rest[1] /\ o = rest[1][1]
      BY <2>1, <2>3, <3>1, PopInner
    <3> QED
      BY <1>0, <2>1, <2>2, <3>2
  <2>5. unit[o] # NoUnit
    BY <2>4, CachedMade
  <2>6. o \notin InPool
    BY <2>1, <2>3, <2>5 DEF InPool
  <2>7. Gone(m)
    BY <2>1, <2>4, <2>6, WholeNext DEF TexInv, WholeInv
  <2>8. ASSUME hs # <<>> PROVE FALSE
    <3>1. hs \in Seq(Objects)
      BY <2>1 DEF TexInv, CallInv
    <3>2. 1 \in DOMAIN hs
      BY <2>8, <3>1
    <3>3. hs[1] \in Cached(m) \cap InPool
      BY <1>0, <2>1, <2>2, <3>2
    <3> QED
      BY <2>7, <3>3, WholeNext
  <2> QED
    BY <1>0, <2>8
<1>3. ASSUME op' # "draw", active = 0 PROVE DrawInv'
  BY <1>0, <1>3 DEF DrawInv
<1>4. ASSUME ActivateTexture PROVE DrawInv'
  BY <1>4, ActivateKeeps
<1>5. ASSUME DrawElements PROVE DrawInv'
  <2>1. /\ op = "draw" /\ op' = "draw" /\ active' = 0 /\ rest # <<>> /\ rest' = Tail(rest)
        /\ hs' = <<>> /\ cur' = cur /\ cache' = cache
    BY <1>5 DEF DrawElements, Drawing, modelVars
  <2>2. Cached(cur)' = Cached(cur)
    BY <2>1 DEF Cached
  <2>3. rest \in Seq(Seq(Objects))
    BY <2>1 DEF TexInv, CallInv
  <2>4. \A i \in DOMAIN rest' : \A j \in DOMAIN rest'[i] : rest'[i][j] \in Cached(cur)
    BY <1>0, <2>1, <2>3, PopOuter
  <2> QED
    BY <1>0, <2>1, <2>2, <2>4 DEF DrawInv
<1>6. ASSUME FinishDraw PROVE op' # "draw" /\ active = 0
  BY <1>0, <1>6 DEF FinishDraw, Goto
<1>7. ASSUME op # "draw", \A m \in Models : ~StartDraw(m) PROVE op' # "draw" /\ active = 0
  <2>1. op' # "draw"
    <3>1. ~ActivateTexture /\ ~DrawElements /\ ~DrawFails /\ ~FinishDraw
      BY <1>7 DEF ActivateTexture, DrawElements, DrawFails, FinishDraw, Drawing
    <3>2. CASE Load
      BY <3>2 DEF Load, StartLoad, CachedTexture, AcquireTexture, FetchTexture, LoadImage, LoadFails,
                  AcquireUnit, UnitsExhausted, ReleaseFailed, Unwind, FinishMesh, FinishLoad, Goto
    <3>3. CASE Destroy
      BY <3>3 DEF Destroy, StartDestroy, ReleaseOwned, FinishDestroy, Goto
    <3>4. CASE \E m, n \in Models : CopyModel(m, n)
      BY <3>4 DEF CopyModel, callVars
    <3> QED
      BY <1>7, <3>1, <3>2, <3>3, <3>4 DEF Next, Draw
  <2> QED
    BY <1>0, <1>7, <2>1
<1>8. ASSUME op = "draw"
      PROVE  ActivateTexture \/ DrawElements \/ DrawFails \/ FinishDraw
  <2>1. ~Load
    BY <1>8 DEF Load, StartLoad, CachedTexture, AcquireTexture, FetchTexture, LoadImage, LoadFails,
                AcquireUnit, UnitsExhausted, ReleaseFailed, Unwind, FinishMesh, FinishLoad
  <2>2. ~Destroy
    BY <1>8 DEF Destroy, StartDestroy, ReleaseOwned, FinishDestroy
  <2>3. \A m, n \in Models : ~CopyModel(m, n) /\ ~StartDraw(m)
    BY <1>8 DEF CopyModel, StartDraw
  <2> QED
    BY <2>1, <2>2, <2>3 DEF Next, Draw
<1>9. ASSUME DrawFails PROVE op' # "draw"
  BY <1>9 DEF DrawFails, Goto
<1> QED
  BY <1>1, <1>2, <1>3, <1>4, <1>5, <1>6, <1>7, <1>8, <1>9

LEMMA DrawStep == ASSUME Few, TexInv, Next, CallInv' PROVE DrawInv'
<1>0. /\ active = 0 \/ op = "draw"
      /\ activePos # NoUnit =>
            table[activePos] # 0 /\ (activePos = 0 \/ bound[activePos] = table[activePos])
      /\ activePos \in 0..NUnits /\ NoUnit \notin Units /\ 0 \in Units
      /\ \A u \in 0..NUnits : u # NoUnit => u \in Units
      /\ table \in [Units -> 0..MaxObj] /\ bound \in [Units -> 0..MaxObj]
  BY UnitNumbers DEF TexInv, DrawInv, GlTypes
<1>1. ASSUME OtherStep PROVE DrawInv'
  <2>1. ASSUME DrawElements PROVE DrawInv'
    <3>1. /\ op = "draw" /\ op' = "draw" /\ active' = 0 /\ rest # <<>> /\ rest' = Tail(rest)
          /\ hs' = <<>> /\ cur' = cur /\ cache' = cache
          /\ UNCHANGED <<activePos, bound, table>>
      BY <2>1 DEF DrawElements, Drawing, modelVars, unitVars
    <3>2. Cached(cur)' = Cached(cur)
      BY <3>1 DEF Cached
    <3>3. rest \in Seq(Seq(Objects))
      BY <3>1 DEF TexInv, CallInv
    <3>4. \A i \in DOMAIN rest' : \A j \in DOMAIN rest'[i] : rest'[i][j] \in Cached(cur)
      BY <3>1, <3>3, PopOuter DEF TexInv, DrawInv
    <3> QED
      BY <1>0, <3>1, <3>2, <3>4 DEF DrawInv
  <2> QED
    BY <1>1, <2>1, ActivateKeeps, OutsideDraw DEF OtherStep
<1>2. ASSUME AcquireTexture \/ FetchTexture \/ ReleaseFailed \/ Unwind PROVE DrawInv'
  <2>1. op # "draw" /\ op' # "draw" /\ UNCHANGED <<activePos, active, bound, table>>
    BY <1>2, AcquireFacts, FetchFacts, FailedFacts, UnwindFacts
       DEF AcquireTexture, unitVars, glVars
  <2> QED
    BY <1>0, <2>1 DEF DrawInv
<1>3. ASSUME LoadImage PROVE DrawInv'
  <2>1. /\ op # "draw" /\ op' # "draw" /\ UNCHANGED <<activePos, active, table>>
        /\ bound' = [bound EXCEPT ![active] = id[h]]
    BY <1>3, LoadFacts DEF unitVars
  <2> QED
    BY <1>0, <2>1 DEF DrawInv
<1>4. ASSUME AcquireUnit PROVE DrawInv'
  <2>1. PICK u \in Units : /\ table[u] = 0 /\ table' = [table EXCEPT ![u] = id[h]]
                           /\ op # "draw" /\ op' # "draw"
                           /\ UNCHANGED <<activePos, active, bound>>
    BY <1>4, UnitFacts
  <2> QED
    BY <1>0, <2>1 DEF DrawInv
<1>5. ASSUME NEW k \in Keys, ReleaseOwned(k) PROVE DrawInv'
  <2>1. PICK o \in Objects :
           /\ o = cache[cur][k] /\ Existing = InPool /\ op # "draw" /\ op' # "draw"
           /\ o \notin InPool => UNCHANGED <<bindId, unitVars, glVars, cache>>
           /\ o \in InPool => DestroyTexture(o) /\ id[o] \in names /\ unit[o] # NoUnit
                              /\ unit[o] \in Units /\ table[unit[o]] = id[o]
    BY <1>5, OwnedFacts
  <2>2. CASE o \notin InPool
    BY <1>0, <2>1, <2>2 DEF DrawInv, unitVars, glVars
  <2>3. CASE o \in InPool
    <3>1. /\ active' = active /\ table' = [table EXCEPT ![unit[o]] = 0]
          /\ activePos' = IF activePos = unit[o] THEN NoUnit ELSE activePos
          /\ bound' = [u \in Units |-> IF bound[u] = id[o] THEN 0 ELSE bound[u]]
      BY <2>1, <2>3, Destroyed DEF TexInv, NamesInv
    <3>2. CASE activePos = unit[o] \/ activePos = NoUnit
      BY <1>0, <2>1, <3>1, <3>2 DEF DrawInv
    <3>3. CASE activePos # unit[o] /\ activePos # NoUnit
      <4>1. activePos \in Units /\ table[activePos] # 0 /\ activePos' = activePos
        BY <1>0, <3>1, <3>3
      <4>2. PICK q \in Existing : unit[q] = activePos
        BY <4>1 DEF TexInv, UnitsInv
      <4>3. table[activePos] = id[q] /\ id[q] # id[o]
        BY <2>1, <2>3, <3>3, <4>2 DEF TexInv, UnitsInv, NamesInv
      <4>4. table'[activePos] = table[activePos]
        BY <1>0, <3>1, <3>3, <4>1
      <4>5. activePos = 0 \/ bound'[activePos] = table[activePos]
        BY <1>0, <3>1, <4>1, <4>3
      <4> QED
        BY <1>0, <2>1, <3>1, <4>1, <4>4, <4>5 DEF DrawInv
    <3> QED
      BY <3>2, <3>3
  <2> QED
    BY <2>2, <2>3
<1> QED
  BY <1>1, <1>2, <1>3, <1>4, <1>5, Kinds
-----------------------------------------------------------------------------
LEMMA TexStart == ASSUME Init PROVE TexInv
<1>1. PoolInv /\ made = 0 /\ strong = [c \in {"loader"} |-> 0] /\ MaxObj \in Nat
  BY PoolStart, PoolConstants DEF Init, RM!Init
<1>2. /\ op = "idle" /\ todo = {} /\ copied = {} /\ names = {} /\ bindId = 0 /\ active = 0
      /\ id = [o \in Objects |-> 0] /\ unit = [o \in Objects |-> NoUnit] /\ activePos = NoUnit
      /\ keyOf = [o \in Objects |-> NoImage] /\ image = [n \in Objects |-> NoImage]
      /\ table = [u \in Units |-> 0] /\ bound = [u \in Units |-> 0]
      /\ state = [m \in Models |-> "none"] /\ cache = [m \in Models |-> Empty]
      /\ meshes = [m \in Models |-> <<>>]
  BY DEF Init
<1>3. op \notin Holding /\ op \notin Taking /\ op \notin Loading
  BY <1>2 DEF Loading, Taking, Holding
<1>4. 1..made = {} /\ InPool = {} /\ Existing = {} /\ 0 \in 0..made /\ 0 \in 0..MaxObj
  BY <1>1 DEF InPool, Existing
<1>5. CallInv
  BY <1>1, <1>2, <1>3 DEF CallInv, Ops
<1>6. GlTypes
  BY <1>2, <1>4, UnitNumbers DEF GlTypes
<1>7. ModelTypes
  <2>1. Empty \in [Keys -> 0..made]
    BY <1>4 DEF Empty
  <2>2. <<>> \in Seq(Seq(Objects))
    OBVIOUS
  <2> QED
    BY <1>2, <2>1, <2>2 DEF ModelTypes
<1>8. NamesInv
  <2>1. Cardinality(names) <= made
    BY <1>1, <1>2, FS_EmptySet
  <2> QED
    BY <1>2, <1>4, <2>1 DEF NamesInv
<1>9. UnitsInv /\ ImagesInv
  BY <1>2, <1>3, <1>4 DEF UnitsInv, ImagesInv
<1>10. \A m \in Models : Cached(m) = {} /\ Handles(m) = {} /\ ~Releasing(m)
  BY <1>2 DEF Cached, Handles, Empty, Releasing
<1>11. CacheInv /\ SharingInv
  BY <1>2, <1>3, <1>10 DEF CacheInv, SharingInv, Apart
<1>12. WholeInv /\ DrawInv
  BY <1>2, <1>3, <1>10 DEF WholeInv, DrawInv, Whole
<1> QED
  BY <1>1, <1>5, <1>6, <1>7, <1>8, <1>9, <1>11, <1>12 DEF TexInv

LEMMA TexSame == ASSUME TexInv, UNCHANGED vars PROVE TexInv'
<1>1. PoolInv' /\ made' = made /\ strong' = strong /\ InPool' = InPool
  BY PoolStay DEF vars, TexInv
<1>2. UNCHANGED <<id, unit, keyOf, bindId, table, activePos, names, image, active, bound>>
  BY DEF vars, texVars, unitVars, glVars
<1>3. UNCHANGED <<state, cache, meshes, copied, op, cur, rest, hs, h, todo>>
  BY DEF vars, modelVars, meshVars, callVars
<1>4. CallInv'
  BY <1>1, <1>2, <1>3 DEF TexInv, CallInv
<1>5. Existing' = Existing
  BY <1>1, <1>3, <1>4, Numbers, NextNumbers
<1>6. /\ \A m : Cached(m)' = Cached(m) /\ Handles(m)' = Handles(m)
      /\ Cached(cur)' = Cached(cur)
  BY <1>3 DEF Cached, Handles
<1>7. GlTypes' /\ ModelTypes' /\ NamesInv' /\ UnitsInv' /\ ImagesInv'
  BY <1>1, <1>2, <1>3, <1>5 DEF TexInv, GlTypes, ModelTypes, NamesInv, UnitsInv, ImagesInv, Empty
<1>8. CacheInv' /\ SharingInv'
  BY <1>2, <1>3, <1>6 DEF TexInv, CacheInv, SharingInv, Releasing, Apart
<1>9. WholeInv'
  BY <1>1, <1>3, <1>6 DEF TexInv, WholeInv, Whole, Gone, Doomed, Apart, Releasing
<1>10. DrawInv'
  BY <1>1, <1>2, <1>3, <1>6 DEF TexInv, DrawInv
<1> QED
  BY <1>1, <1>4, <1>7, <1>8, <1>9, <1>10 DEF TexInv

LEMMA TexNext == ASSUME Few, TexInv, [Next]_vars PROVE TexInv'
<1>1. CASE Next
  <2>1. CallInv' /\ PoolInv'
    BY <1>1, CallStep, MadeGrows
  <2> QED
    BY <1>1, <2>1, GlStep, ModelStep, NamesStep, UnitsStep, ImagesStep, CacheStep, SharingStep,
       WholeStep, DrawStep DEF TexInv
<1>2. CASE UNCHANGED vars
  BY <1>2, TexSame
<1> QED
  BY <1>1, <1>2

LEMMA TexCorrect == Few => (Spec => []TexInv)
<1> SUFFICES ASSUME Few PROVE Spec => []TexInv
  OBVIOUS
<1>1. Init => TexInv
  BY TexStart
<1>2. TexInv /\ [Next]_vars => TexInv'
  BY TexNext
<1> QED
  BY <1>1, <1>2, PTL DEF Spec
-----------------------------------------------------------------------------
(* Where the library is used for models, it is ModelTextures that runs;    *)
(* where it is not, nothing of the models changes.                         *)
LEMMA LibraryIsModels == LibSpec => Spec
<1>1. LibInit => Init
  BY DEF LibInit
<1>2. [LibNext]_libVars => [Next]_vars
  BY DEF LibNext, libVars
<1> QED
  BY <1>1, <1>2, PTL DEF LibSpec, Spec

(* While fewer textures are made than the pool has generations, the table  *)
(* of TextureUnit and the textures agree: a unit is taken exactly when one *)
(* living texture holds it, whatever was loaded, failed to load, copied,   *)
(* loaded again or destroyed before.                                       *)
THEOREM UnitsOwnedCorrect == Few => (LibSpec => []UnitsOwned)
<1>1. TexInv => UnitsOwned
  <2> SUFFICES ASSUME TexInv, NEW u \in Units,
                      NEW owners, owners = {o \in 1..made : Alive(o) /\ unit[o] = u}
               PROVE  IF table[u] = 0 THEN owners = {}
                      ELSE Cardinality(owners) = 1 /\ \A o \in owners : id[o] = table[u]
    BY DEF UnitsOwned
  <2>1. owners = {o \in Existing : unit[o] = u} /\ u # NoUnit
    BY UnitNumbers DEF Existing
  <2>2. \A o \in owners : id[o] = table[u] /\ id[o] # 0
    BY <2>1, Numbers DEF TexInv, UnitsInv, NamesInv
  <2>3. \A o, p \in owners : o = p
    BY <2>1, <2>2 DEF TexInv, NamesInv
  <2>4. CASE table[u] = 0
    BY <2>2, <2>4
  <2>5. CASE table[u] # 0
    <3>1. PICK o : o \in owners
      BY <2>1, <2>5 DEF TexInv, UnitsInv
    <3>2. owners = {o}
      BY <2>3, <3>1
    <3>3. Cardinality(owners) = 1
      BY <3>2, FS_Singleton
    <3> QED
      BY <2>2, <2>5, <3>3
  <2> QED
    BY <2>4, <2>5
<1> QED
  BY <1>1, TexCorrect, LibraryIsModels, PTL

(* When a mesh is drawn, its textures are bound to the units its samplers  *)
(* read, whatever the library believes of the active unit.                 *)
THEOREM DrawSoundCorrect == Few => (LibSpec => []DrawSound)
<1>1. TexInv => DrawSound
  BY DEF TexInv, DrawInv, DrawSound, Drawing
<1> QED
  BY <1>1, TexCorrect, LibraryIsModels, PTL
-----------------------------------------------------------------------------
(* Each mesh has a vertex array and there is always another one to give to *)
(* the next.  As long as nothing was copied those of the meshes are in use *)
(* and belong to one mesh each.                                            *)
Owned(m) == {arrays[m][i] : i \in DOMAIN arrays[m]}

OneEach ==
    /\ \A m \in Models : Owned(m) \subseteq vaos
    /\ \A m, n \in Models : \A i \in DOMAIN arrays[m], j \in DOMAIN arrays[n] :
          arrays[m][i] = arrays[n][j] => m = n /\ i = j

ArraysInv ==
    /\ arrays \in [Models -> Seq(Arrays)]
    /\ \A m \in Models : Len(arrays[m]) = Len(meshes[m]) /\ Len(arrays[m]) <= 2
    /\ op \in Loading => Len(arrays[cur]) + Len(rest) <= 2
    /\ \A a \in vaos : \E m \in Models : a \in Owned(m)
    /\ copied = {} => OneEach

LEMMA ArrayNumbers ==
  /\ Cardinality(Models) \in Nat /\ IsFiniteSet(Models \X {1, 2}) /\ Arrays \in SUBSET Nat
  /\ Cardinality(Models \X {1, 2}) = 2 * Cardinality(Models)
  /\ IsFiniteSet(Arrays) /\ Cardinality(Arrays) = 2 * Cardinality(Models)
<1>1. IsFiniteSet(Models)
  BY TexturesAssumption DEF TexturesAssumption
<1>2. Cardinality(Models) \in Nat
  BY <1>1, FS_CardinalityType
<1>3. IsFiniteSet({1, 2}) /\ Cardinality({1, 2}) = 2
  <2>1. {1, 2} = 1..2 /\ 1 \in Int /\ 2 \in Int
    OBVIOUS
  <2>2. IsFiniteSet(1..2) /\ Cardinality(1..2) = IF 1 > 2 THEN 0 ELSE 2 - 1 + 1
    BY <2>1, FS_Interval
  <2> QED
    BY <2>1, <2>2
<1>4. /\ IsFiniteSet(Models \X {1, 2})
      /\ Cardinality(Models \X {1, 2}) = Cardinality(Models) * 2
  BY <1>1, <1>3, FS_Product
<1> DEFINE n == 2 * Cardinality(Models)
<1>5. n \in Nat /\ 1 \in Int /\ n \in Int
  BY <1>2
<1> HIDE DEF n
<1>6. IsFiniteSet(1..n) /\ Cardinality(1..n) = IF 1 > n THEN 0 ELSE n - 1 + 1
  BY <1>5, FS_Interval
<1>7. Cardinality(1..n) = n /\ 1..n \in SUBSET Nat
  BY <1>5, <1>6
<1>8. Cardinality(Models \X {1, 2}) = n
  BY <1>2, <1>4 DEF n
<1> QED
  BY <1>2, <1>4, <1>6, <1>7, <1>8 DEF n, Arrays

(* A model with room for a mesh leaves an array to give to it.             *)
LEMMA FreshArray ==
  ASSUME arrays \in [Models -> Seq(Arrays)], NEW m \in Models,
         \A p \in Models : Len(arrays[p]) <= 2, Len(arrays[m]) < 2,
         \A a \in vaos : \E p \in Models : a \in Owned(p),
         NEW n, n = CHOOSE x \in Arrays \ vaos : \A y \in Arrays \ vaos : x <= y
  PROVE  n \in Arrays /\ n \notin vaos
<1> DEFINE P == (Models \X {1, 2}) \ {<<m, 2>>}
           At(a) == {p \in P : p[2] \in DOMAIN arrays[p[1]] /\ arrays[p[1]][p[2]] = a}
           f == [a \in Arrays |-> CHOOSE p \in At(a) : TRUE]
<1>1. /\ IsFiniteSet(Models \X {1, 2}) /\ Cardinality(Models) \in Nat
      /\ Cardinality(Models \X {1, 2}) = 2 * Cardinality(Models)
      /\ IsFiniteSet(Arrays) /\ Cardinality(Arrays) = 2 * Cardinality(Models)
  BY ArrayNumbers
<1>2. IsFiniteSet(P) /\ Cardinality(P) = Cardinality(Models \X {1, 2}) - 1
  <2>1. PICK M, x : M = Models \X {1, 2} /\ x = <<m, 2>>
    OBVIOUS
  <2>2. x \in M /\ IsFiniteSet(M)
    BY <1>1, <2>1
  <2>3. IsFiniteSet(M \ {x}) /\ Cardinality(M \ {x}) = Cardinality(M) - 1
    BY <2>2, FS_RemoveElement
  <2> QED
    BY <2>1, <2>3
<1>3. Cardinality(P) < Cardinality(Arrays)
  BY <1>1, <1>2
<1>4. Arrays \ vaos # {}
  <2> SUFFICES ASSUME Arrays \ vaos = {} PROVE FALSE
    OBVIOUS
  <2>1. ASSUME NEW a \in Arrays PROVE At(a) # {}
    <3>1. a \in vaos
      OBVIOUS
    <3>2. PICK p \in Models : a \in Owned(p)
      BY <3>1
    <3>3. PICK i \in DOMAIN arrays[p] : a = arrays[p][i]
      BY <3>2 DEF Owned
    <3>4. i \in {1, 2} /\ (p = m => i # 2)
      <4>1. arrays[p] \in Seq(Arrays) /\ Len(arrays[p]) <= 2 /\ (p = m => Len(arrays[p]) < 2)
        OBVIOUS
      <4> QED
        BY <4>1
    <3>5. PICK q : q = <<p, i>>
      OBVIOUS
    <3>6. q \in P /\ q[1] = p /\ q[2] = i
      BY <3>4, <3>5
    <3> QED
      BY <3>3, <3>6
  <2>2. \A a \in Arrays : f[a] \in At(a)
    BY <2>1
  <2>3. f \in [Arrays -> P]
    BY <2>2
  <2>4. \A a, b \in Arrays : f[a] = f[b] => a = b
    BY <2>2
  <2> HIDE DEF f, P, At
  <2> QED
    BY <1>1, <1>2, <1>3, <2>3, <2>4, FS_PigeonHole
<1>5. Arrays \ vaos \in SUBSET Nat
  BY ArrayNumbers
<1>6. n \in Arrays \ vaos
  BY <1>4, <1>5, Least
<1> QED
  BY <1>6

LEMMA OwnedNext ==
  ASSUME NEW m
  PROVE  /\ arrays'[m] = arrays[m] => Owned(m)' = Owned(m)
         /\ arrays'[m] = <<>> => Owned(m)' = {}
BY DEF Owned

(* The arrays of a model go with its meshes, and no other model's do.      *)
LEMMA ArraysCleared ==
  ASSUME TexInv, ArraysInv, NEW m \in Models, ClearMeshes(m), copied' = copied
  PROVE  /\ arrays' \in [Models -> Seq(Arrays)] /\ arrays'[m] = <<>>
         /\ \A n \in Models : Len(arrays'[n]) = Len(meshes'[n]) /\ Len(arrays'[n]) <= 2
         /\ \A a \in vaos' : \E n \in Models : a \in Owned(n)'
         /\ copied' = {} => OneEach'
<1>1. /\ arrays \in [Models -> Seq(Arrays)] /\ meshes \in [Models -> Seq(Seq(Objects))]
      /\ \A a \in vaos : \E n \in Models : a \in Owned(n)
      /\ arrays' = [arrays EXCEPT ![m] = <<>>] /\ vaos' = vaos \ Owned(m)
      /\ meshes' = [meshes EXCEPT ![m] = <<>>]
  BY DEF ArraysInv, TexInv, ModelTypes, ClearMeshes, Owned
<1>2. arrays' \in [Models -> Seq(Arrays)] /\ arrays'[m] = <<>> /\ meshes'[m] = <<>>
  <2>1. <<>> \in Seq(Arrays)
    OBVIOUS
  <2> QED
    BY <1>1, <2>1
<1>3. \A n \in Models : n # m => /\ arrays'[n] = arrays[n] /\ Owned(n)' = Owned(n)
                                 /\ meshes'[n] = meshes[n]
  BY <1>1, OwnedNext
<1>4. Owned(m)' = {} /\ DOMAIN arrays'[m] = {} /\ Len(<<>>) = 0
  BY <1>2, OwnedNext
<1>5. \A n \in Models : Len(arrays'[n]) = Len(meshes'[n]) /\ Len(arrays'[n]) <= 2
  <2> SUFFICES ASSUME NEW n \in Models
               PROVE  Len(arrays'[n]) = Len(meshes'[n]) /\ Len(arrays'[n]) <= 2
    OBVIOUS
  <2>1. CASE n = m
    BY <1>2, <1>4, <2>1
  <2>2. CASE n # m
    BY <1>3, <2>2 DEF ArraysInv
  <2> QED
    BY <2>1, <2>2
<1>6. ASSUME NEW a \in vaos' PROVE \E n \in Models : a \in Owned(n)'
  <2>1. a \in vaos /\ a \notin Owned(m)
    BY <1>1
  <2>2. PICK n \in Models : a \in Owned(n)
    BY <1>1, <2>1
  <2> QED
    BY <1>3, <2>1, <2>2
<1>7. ASSUME copied' = {} PROVE OneEach'
  <2>1. OneEach
    BY <1>7 DEF ArraysInv
  <2>2. \A n \in Models : n # m => Owned(n) \cap Owned(m) = {}
    BY <2>1 DEF OneEach, Owned
  <2>3. \A n \in Models : Owned(n)' \subseteq vaos'
    BY <1>1, <1>3, <1>4, <2>1, <2>2 DEF OneEach
  <2> QED
    BY <1>3, <1>4, <2>1, <2>3 DEF OneEach
<1> QED
  BY <1>2, <1>5, <1>6, <1>7

LEMMA ArraysStep == ASSUME Few, TexInv, ArraysInv, Next, CallInv' PROVE ArraysInv'
<1>a. /\ arrays \in [Models -> Seq(Arrays)] /\ meshes \in [Models -> Seq(Seq(Objects))]
      /\ \A m \in Models : Len(arrays[m]) = Len(meshes[m]) /\ Len(arrays[m]) <= 2
      /\ op \in Loading => Len(arrays[cur]) + Len(rest) <= 2
      /\ \A a \in vaos : \E m \in Models : a \in Owned(m)
      /\ copied = {} => OneEach
      /\ op \in Loading => cur \in Models /\ rest \in Seq(Seq(Keys))
  BY DEF ArraysInv, TexInv, CallInv, ModelTypes, Loading, Taking, Holding
<1>b. Len(<<>>) = 0
  OBVIOUS
<1>1. ASSUME UNCHANGED <<arrays, vaos, meshes, copied>>,
             op' \in Loading => op \in Loading /\ cur' = cur /\ Len(rest') = Len(rest)
      PROVE  ArraysInv'
  <2>1. \A m \in Models : Owned(m)' = Owned(m)
    BY <1>1, OwnedNext
  <2>2. copied' = {} => OneEach'
    BY <1>a, <1>1, <2>1 DEF OneEach
  <2> QED
    BY <1>a, <1>1, <2>1, <2>2 DEF ArraysInv
<1>2. ASSUME NEW m \in Models, NEW sc \in Scenes, StartLoad(m, sc) PROVE ArraysInv'
  <2>1. ClearMeshes(m) /\ cur' = m /\ rest' = sc /\ copied' = copied
    BY <1>2 DEF StartLoad
  <2>2. sc \in Seq(Seq(Keys)) /\ Len(sc) <= 2 /\ Len(sc) \in Nat
    BY TexturesAssumption DEF TexturesAssumption
  <2>3. /\ arrays' \in [Models -> Seq(Arrays)] /\ arrays'[m] = <<>>
        /\ \A n \in Models : Len(arrays'[n]) = Len(meshes'[n]) /\ Len(arrays'[n]) <= 2
        /\ \A a \in vaos' : \E n \in Models : a \in Owned(n)'
        /\ copied' = {} => OneEach'
    BY <2>1, ArraysCleared
  <2>4. Len(arrays'[cur']) + Len(rest') <= 2
    BY <1>b, <2>1, <2>2, <2>3
  <2> QED
    BY <2>3, <2>4 DEF ArraysInv
<1>3. ASSUME FinishMesh PROVE ArraysInv'
  <2>1. PICK n : /\ n = CHOOSE x \in Arrays \ vaos : \A y \in Arrays \ vaos : x <= y
                 /\ arrays' = [arrays EXCEPT ![cur] = Append(@, n)]
                 /\ vaos' = vaos \cup {n}
    BY <1>3 DEF FinishMesh
  <2>2. PICK m \in Models : m = cur
    BY <1>a, <1>3 DEF FinishMesh, Loading
  <2>3. /\ op = "next" /\ rest # <<>> /\ rest' = Tail(rest) /\ cur' = m
        /\ rest \in Seq(Seq(Keys)) /\ copied' = copied
        /\ meshes' = [meshes EXCEPT ![m] = Append(@, hs)] /\ hs \in Seq(Objects)
    BY <1>a, <1>3, <2>2 DEF FinishMesh, Loading, TexInv, CallInv
  <2>4. /\ Len(rest) \in Nat \ {0} /\ Len(rest') = Len(rest) - 1
        /\ Len(arrays[m]) \in Nat /\ Len(arrays[m]) + Len(rest) <= 2
    BY <1>a, <2>2, <2>3 DEF Loading
  <2>5. n \in Arrays /\ n \notin vaos
    <3>1. Len(arrays[m]) < 2
      BY <2>4
    <3> QED
      BY <1>a, <2>1, <3>1, FreshArray
  <2>6. arrays'[m] = Append(arrays[m], n) /\ \A p \in Models : p # m => arrays'[p] = arrays[p]
    BY <1>a, <2>1, <2>2
  <2>7. /\ arrays'[m] \in Seq(Arrays) /\ Len(arrays'[m]) = Len(arrays[m]) + 1
        /\ DOMAIN arrays'[m] = DOMAIN arrays[m] \cup {Len(arrays[m]) + 1}
        /\ arrays'[m][Len(arrays[m]) + 1] = n
        /\ \A i \in DOMAIN arrays[m] : arrays'[m][i] = arrays[m][i]
    BY <1>a, <2>5, <2>6
  <2>8. Owned(m)' = Owned(m) \cup {n}
    BY <2>7 DEF Owned
  <2>9. \A p \in Models : p # m => Owned(p)' = Owned(p)
    BY <2>6, OwnedNext
  <2>10. ASSUME NEW a \in vaos' PROVE \E p \in Models : a \in Owned(p)'
    <3>1. CASE a = n
      BY <2>8, <3>1
    <3>2. CASE a # n
      <4>1. PICK p \in Models : a \in Owned(p)
        BY <1>a, <2>1, <3>2
      <4> QED
        BY <2>8, <2>9, <4>1
    <3> QED
      BY <3>1, <3>2
  <2>11. arrays' \in [Models -> Seq(Arrays)]
    BY <1>a, <2>1, <2>2, <2>7
  <2>12. /\ \A p \in Models : Len(arrays'[p]) = Len(meshes'[p]) /\ Len(arrays'[p]) <= 2
         /\ Len(arrays'[cur']) + Len(rest') <= 2
    <3>1. Len(arrays'[m]) <= 2 /\ Len(arrays'[m]) + Len(rest') <= 2
      BY <2>4, <2>7
    <3>2. meshes'[m] = Append(meshes[m], hs) /\ \A p \in Models : p # m => meshes'[p] = meshes[p]
      BY <1>a, <2>3
    <3>3. Len(meshes'[m]) = Len(meshes[m]) + 1
      <4>1. meshes[m] \in Seq(Seq(Objects))
        BY <1>a
      <4> QED
        BY <2>3, <3>2, <4>1
    <3> QED
      BY <1>a, <2>3, <2>6, <2>7, <3>1, <3>2, <3>3
  <2>13. ASSUME copied' = {} PROVE OneEach'
    <3>1. OneEach
      BY <1>a, <2>3, <2>13
    <3>2. \A p \in Models : \A i \in DOMAIN arrays[p] : arrays[p][i] # n
      BY <2>5, <3>1 DEF OneEach, Owned
    <3>3. ASSUME NEW p \in Models, NEW q \in Models, NEW i \in DOMAIN arrays'[p],
                  NEW j \in DOMAIN arrays'[q], arrays'[p][i] = arrays'[q][j]
          PROVE  p = q /\ i = j
      <4>1. \/ p = m /\ i = Len(arrays[m]) + 1 /\ arrays'[p][i] = n
            \/ i \in DOMAIN arrays[p] /\ arrays'[p][i] = arrays[p][i]
        BY <2>6, <2>7
      <4>2. \/ q = m /\ j = Len(arrays[m]) + 1 /\ arrays'[q][j] = n
            \/ j \in DOMAIN arrays[q] /\ arrays'[q][j] = arrays[q][j]
        BY <2>6, <2>7
      <4> QED
        BY <3>1, <3>2, <3>3, <4>1, <4>2 DEF OneEach
    <3>4. \A p \in Models : Owned(p)' \subseteq vaos'
      BY <2>1, <2>8, <2>9, <3>1 DEF OneEach
    <3> QED
      BY <3>3, <3>4 DEF OneEach
  <2> QED
    BY <2>10, <2>11, <2>12, <2>13 DEF ArraysInv
<1>4. ASSUME FinishDestroy PROVE ArraysInv'
  <2>1. PICK m \in Models : m = cur
    BY <1>4 DEF FinishDestroy, TexInv, CallInv
  <2>2. ClearMeshes(m) /\ op' \notin Loading /\ copied' = copied
    BY <1>4, <2>1 DEF FinishDestroy, Goto, Loading, Taking, Holding
  <2> QED
    BY <2>2, ArraysCleared DEF ArraysInv
<1>5. ASSUME CachedTexture PROVE ArraysInv'
  <2>1. /\ UNCHANGED <<arrays, vaos, meshes, copied>> /\ op \in Loading /\ cur' = cur
        /\ rest # <<>> /\ Head(rest) # <<>> /\ rest' = <<Tail(Head(rest))>> \o Tail(rest)
    BY <1>5 DEF CachedTexture, modelVars, meshVars, Loading
  <2>2. Len(rest') = Len(rest)
    BY <1>a, <2>1, PopInner
  <2> QED
    BY <1>1, <2>1, <2>2
<1>6. ASSUME AcquireUnit PROVE ArraysInv'
  <2>1. /\ UNCHANGED <<arrays, vaos, meshes, copied>> /\ op = "loaded" /\ cur' = cur
        /\ rest' = <<Tail(Head(rest))>> \o Tail(rest)
    BY <1>6 DEF AcquireUnit, modelVars, meshVars
  <2>2. op \in Loading /\ rest # <<>> /\ Head(rest) # <<>>
    BY <2>1 DEF TexInv, CallInv, Loading, Taking, Holding
  <2>3. Len(rest') = Len(rest)
    BY <1>a, <2>1, <2>2, PopInner
  <2> QED
    BY <1>1, <2>1, <2>2, <2>3
<1>7. ASSUME AcquireTexture \/ FetchTexture \/ LoadImage \/ LoadFails \/ UnitsExhausted
             \/ ReleaseFailed
      PROVE  ArraysInv'
  <2>1. UNCHANGED <<arrays, vaos, meshes, copied, cur, rest>> /\ op \in Loading
    BY <1>7 DEF AcquireTexture, FetchTexture, LoadImage, LoadFails, UnitsExhausted,
                ReleaseFailed, modelVars, meshVars, Loading, Taking, Holding
  <2> QED
    BY <1>1, <2>1
<1>8. ASSUME Unwind \/ FinishLoad \/ Draw \/ (\E m \in Models : StartDestroy(m))
             \/ (\E k \in Keys : ReleaseOwned(k))
      PROVE  ArraysInv'
  <2>1. UNCHANGED <<arrays, vaos, meshes, copied>> /\ op' \in {"idle", "draw", "release"}
    BY <1>8 DEF Unwind, FinishLoad, Draw, StartDraw, ActivateTexture, DrawFails, DrawElements,
                FinishDraw, Drawing, StartDestroy, ReleaseOwned, modelVars, meshVars, Goto
  <2>2. op' \notin Loading
    BY <2>1 DEF Loading, Taking, Holding
  <2> QED
    BY <1>1, <2>1, <2>2
<1>9. ASSUME NEW m \in Models, NEW n \in Models, CopyModel(m, n) PROVE ArraysInv'
  <2>1. /\ arrays' = [arrays EXCEPT ![n] = arrays[m]] /\ meshes' = [meshes EXCEPT ![n] = meshes[m]]
        /\ copied' # {} /\ op' = "idle" /\ vaos' = vaos /\ state[n] = "none"
    BY <1>9 DEF CopyModel, callVars
  <2>2. Owned(n) = {}
    <3>1. meshes[n] = <<>>
      BY <2>1 DEF TexInv, ModelTypes
    <3>2. Len(arrays[n]) = 0 /\ arrays[n] \in Seq(Arrays)
      BY <1>a, <1>b, <3>1
    <3>3. DOMAIN arrays[n] = {}
      BY <3>2
    <3> QED
      BY <3>3 DEF Owned
  <2>3. \A p \in Models : p # n => arrays'[p] = arrays[p] /\ Owned(p)' = Owned(p)
    BY <1>a, <2>1, OwnedNext
  <2>4. \A a \in vaos' : \E p \in Models : a \in Owned(p)'
    BY <1>a, <2>1, <2>2, <2>3
  <2>5. arrays' \in [Models -> Seq(Arrays)]
    BY <1>a, <2>1
  <2>6. \A p \in Models : Len(arrays'[p]) = Len(meshes'[p]) /\ Len(arrays'[p]) <= 2
    BY <1>a, <2>1
  <2>7. op' \notin Loading
    BY <2>1 DEF Loading, Taking, Holding
  <2> QED
    BY <2>1, <2>4, <2>5, <2>6, <2>7 DEF ArraysInv
<1> QED
  BY <1>2, <1>3, <1>4, <1>5, <1>6, <1>7, <1>8, <1>9 DEF Next, Load, Destroy

LEMMA ArraysCorrect == Few => (Spec => []ArraysInv)
<1> SUFFICES ASSUME Few PROVE Spec => []ArraysInv
  OBVIOUS
<1>1. Init => ArraysInv
  <2> SUFFICES ASSUME Init PROVE ArraysInv
    OBVIOUS
  <2>1. /\ arrays = [m \in Models |-> <<>>] /\ meshes = [m \in Models |-> <<>>]
        /\ vaos = {} /\ op = "idle"
    BY DEF Init
  <2>2. \A m \in Models : Len(arrays[m]) = 0 /\ Owned(m) = {} /\ DOMAIN arrays[m] = {}
    BY <2>1 DEF Owned
  <2>3. arrays \in [Models -> Seq(Arrays)] /\ op \notin Loading
    BY <2>1 DEF Loading, Taking, Holding
  <2> QED
    BY <2>1, <2>2, <2>3 DEF ArraysInv, OneEach
<1>2. TexInv /\ ArraysInv /\ [Next]_vars => ArraysInv'
  <2> SUFFICES ASSUME TexInv, ArraysInv, [Next]_vars PROVE ArraysInv'
    OBVIOUS
  <2>1. CASE Next
    BY <2>1, CallStep, ArraysStep
  <2>2. CASE UNCHANGED vars
    <3>1. UNCHANGED <<arrays, vaos, meshes, copied, op, cur, rest>>
      BY <2>2 DEF vars, modelVars, meshVars, callVars
    <3>2. \A m \in Models : Owned(m)' = Owned(m)
      BY <3>1, OwnedNext
    <3>3. OneEach => OneEach'
      BY <3>1, <3>2 DEF OneEach
    <3> QED
      BY <3>1, <3>2, <3>3 DEF ArraysInv
  <2> QED
    BY <2>1, <2>2
<1> QED
  BY <1>1, <1>2, TexCorrect, PTL DEF Spec

(* Whatever else was loaded, drawn, copied or destroyed, the meshes of a   *)
(* model that was not itself copied lead to textures that exist and hold   *)
(* the image the model asked for; and as long as nothing was copied the    *)
(* vertex arrays in use are those of the meshes, one for each.             *)
THEOREM ModelsIntactCorrect == Few => (LibSpec => []ModelsIntact)
<1>1. TexInv /\ ArraysInv => ModelsIntact
  <2> SUFFICES ASSUME TexInv, ArraysInv PROVE ModelsIntact
    OBVIOUS
  <2>1. ASSUME copied = {}
        PROVE  /\ vaos = UNION {{arrays[m][i] : i \in DOMAIN arrays[m]} : m \in Models}
               /\ \A m, n \in Models : \A i \in DOMAIN arrays[m], j \in DOMAIN arrays[n] :
                     arrays[m][i] = arrays[n][j] => m = n /\ i = j
    <3>1. OneEach /\ \A a \in vaos : \E m \in Models : a \in Owned(m)
      BY <2>1 DEF ArraysInv
    <3>2. vaos = UNION {Owned(m) : m \in Models}
      BY <3>1 DEF OneEach
    <3> QED
      BY <3>1, <3>2 DEF OneEach, Owned
  <2>2. ASSUME NEW m \in Living \ copied, NEW o \in Handles(m), ~(op = "release" /\ cur = m)
        PROVE  Valid(o) /\ id[o] \in names /\ image[id[o]] = keyOf[o]
    <3>1. m \in Models /\ o \in Cached(m) /\ Whole(m)
      BY <2>2 DEF TexInv, CacheInv, WholeInv, Releasing, Living
    <3>2. o \in InPool /\ unit[o] # NoUnit
      BY <3>1, CachedMade, WholeNext
    <3>3. o \in Existing
      BY <3>2, Numbers
    <3> QED
      BY <3>2, <3>3 DEF TexInv, NamesInv, ImagesInv, InPool
  <2> QED
    BY <2>1, <2>2 DEF ModelsIntact
<1> QED
  BY <1>1, TexCorrect, ArraysCorrect, LibraryIsModels, PTL
-----------------------------------------------------------------------------
(* A texture in the pool is being loaded or cached.                        *)
Found == \A o \in InPool : (op \in Taking /\ o = h) \/ \E m \in Models : o \in Cached(m)

LEMMA TakingSteps ==
  ASSUME Next, op \in Taking
  PROVE  FetchTexture \/ LoadImage \/ LoadFails \/ UnitsExhausted \/ AcquireUnit
         \/ ReleaseFailed \/ Unwind
<1>1. op \notin {"idle", "next", "draw", "release"}
  BY DEF Taking, Holding
<1>2. ~Draw /\ ~Destroy
  BY <1>1 DEF Draw, StartDraw, ActivateTexture, DrawFails, DrawElements, FinishDraw, Drawing,
              Destroy, StartDestroy, ReleaseOwned, FinishDestroy
<1>3. ~CachedTexture /\ ~AcquireTexture /\ ~FinishMesh /\ ~FinishLoad
  BY <1>1 DEF CachedTexture, AcquireTexture, FinishMesh, FinishLoad
<1>4. /\ \A m, n \in Models : ~CopyModel(m, n)
      /\ \A m \in Models, sc \in Scenes : ~StartLoad(m, sc)
  BY <1>1 DEF CopyModel, StartLoad
<1> QED
  BY <1>2, <1>3, <1>4 DEF Next, Load

LEMMA FoundStep == ASSUME Few, ~Reloads, TexInv, Found, Next, CallInv' PROVE Found'
<1>1. ASSUME op \in Taking PROVE Found'
  <2>1. CASE FetchTexture \/ LoadImage \/ LoadFails \/ UnitsExhausted \/ ReleaseFailed
    <3>1. op' \in Taking /\ h' = h /\ cache' = cache
      BY <2>1 DEF FetchTexture, LoadImage, LoadFails, UnitsExhausted, ReleaseFailed, Taking,
                  Holding, Goto, modelVars
    <3>2. InPool' \subseteq InPool
      <4>1. CASE LoadFails \/ UnitsExhausted
        BY <4>1, PoolStay DEF LoadFails, UnitsExhausted, TexInv
      <4> QED
        BY <2>1, <4>1, FetchFacts, LoadFacts, FailedFacts
    <3>3. \A m \in Models : Cached(m)' = Cached(m)
      BY <3>1, CachedWas
    <3> QED
      BY <3>1, <3>2, <3>3 DEF Found
  <2>2. CASE AcquireUnit
    <3>1. PICK m \in Models : m = cur
      BY <2>2, UnitFacts
    <3>2. InPool' = InPool
      BY <2>2, UnitFacts
    <3>3. /\ Cached(m)' = Cached(m) \cup {h}
          /\ \A n \in Models : n # m => Cached(n)' = Cached(n)
      BY <2>2, <3>1, UnitCached
    <3> QED
      BY <3>2, <3>3 DEF Found
  <2>3. CASE Unwind
    <3>1. InPool' = InPool /\ op = "unwind" /\ cache' = cache
      BY <2>3, UnwindFacts DEF modelVars
    <3>2. h \notin InPool
      BY <3>1 DEF TexInv, CallInv, Taking, Holding
    <3>3. \A m \in Models : Cached(m)' = Cached(m)
      BY <3>1, CachedWas
    <3> QED
      BY <3>1, <3>2, <3>3 DEF Found
  <2> QED
    BY <1>1, <2>1, <2>2, <2>3, TakingSteps
<1>2. ASSUME op \notin Taking PROVE Found'
  <2>0. \A o \in InPool : \E m \in Models : o \in Cached(m)
    BY <1>2 DEF Found
  <2>1. CASE AcquireTexture
    <3>1. InPool' = InPool \cup {made + 1} /\ op' \in Taking /\ h' = made + 1 /\ cache' = cache
      BY <2>1, AcquireFacts DEF Taking, modelVars
    <3>2. \A m \in Models : Cached(m)' = Cached(m)
      BY <3>1, CachedWas
    <3> QED
      BY <2>0, <3>1, <3>2 DEF Found
  <2>2. CASE OtherStep /\ Quiet
    <3>1. InPool' = InPool /\ \A m \in Models : Cached(m)' = Cached(m)
      BY <2>2, ExistingOther, CachedWas DEF Quiet
    <3> QED
      BY <2>0, <3>1 DEF Found
  <2>3. ASSUME NEW m \in Models, NEW sc \in Scenes, StartLoad(m, sc) PROVE Found'
    <3>1. state[m] = "none"
      BY <2>3 DEF StartLoad
    <3>2. Cached(m) = {}
      BY <3>1, Emptied DEF TexInv, ModelTypes
    <3>3. InPool' = InPool /\ \A n \in Models : n # m => Cached(n)' = Cached(n)
      BY <2>3, StartLoadFacts
    <3> QED
      BY <2>0, <3>2, <3>3 DEF Found
  <2>4. ASSUME NEW k \in Keys, ReleaseOwned(k) PROVE Found'
    <3>1. PICK m \in Models : m = cur
      BY <2>4, OwnedFacts
    <3>2. PICK o : o = cache[m][k]
      OBVIOUS
    <3>3. InPool' = InPool \ {o}
      BY <2>4, <3>1, <3>2, OwnedFacts
    <3>4. /\ \A j \in Keys : j # k => cache'[m][j] = cache[m][j]
          /\ \A n \in Models : n # m => Cached(n)' = Cached(n)
      BY <2>4, <3>1, <3>2, OwnedCached
    <3>5. ASSUME NEW p \in Cached(m), p # o PROVE p \in Cached(m)'
      <4>1. PICK j \in Keys : p = cache[m][j]
        BY CachedMade
      <4>2. j # k /\ p # 0
        BY <3>2, <3>5, <4>1, CachedIs
      <4> QED
        BY <3>4, <4>1, <4>2, CachedNext
    <3> QED
      BY <2>0, <3>3, <3>4, <3>5 DEF Found
  <2>5. ASSUME FinishDestroy PROVE Found'
    <3>1. PICK m \in Models : m = cur
      BY <2>5 DEF FinishDestroy, TexInv, CallInv
    <3>2. /\ op = "release" /\ todo = {} /\ InPool' = InPool
          /\ \A n \in Models : n # m => Cached(n)' = Cached(n)
      BY <2>5, <3>1, FinishDestroyFacts
    <3>3. \A k \in Keys : cache[m][k] \notin InPool
      BY <3>1, <3>2 DEF TexInv, WholeInv
    <3>4. \A o \in InPool : o \notin Cached(m)
      BY <3>3, CachedIs
    <3> QED
      BY <2>0, <3>2, <3>4 DEF Found
  <2>6. ASSUME NEW m \in Models, NEW n \in Models, CopyModel(m, n) PROVE Found'
    <3>1. /\ InPool' = InPool /\ Cached(n) = {}
          /\ \A p \in Models : p # n => Cached(p)' = Cached(p)
      BY <2>6, CopyFacts
    <3> QED
      BY <2>0, <3>1 DEF Found
  <2>7. ~FetchTexture /\ ~LoadImage /\ ~AcquireUnit /\ ~ReleaseFailed /\ ~Unwind
    BY <1>2 DEF FetchTexture, LoadImage, AcquireUnit, ReleaseFailed, Unwind, Taking, Holding
  <2> QED
    BY <2>1, <2>2, <2>3, <2>4, <2>5, <2>6, <2>7, Kinds, ModelKinds
<1> QED
  BY <1>1, <1>2

(* Where no model is loaded twice, every texture in the pool is, between   *)
(* calls, cached by a living model, which will release it: neither a load  *)
(* that fails nor the copy of a model leaves one behind.                   *)
THEOREM NoOrphansCorrect == Few /\ ~Reloads => (LibSpec => []NoOrphans)
<1> SUFFICES ASSUME Few, ~Reloads PROVE LibSpec => []NoOrphans
  OBVIOUS
<1>1. Init => Found
  <2> SUFFICES ASSUME Init PROVE Found
    OBVIOUS
  <2>1. made = 0
    BY DEF Init, RM!Init
  <2>2. InPool = {}
    BY <2>1 DEF InPool
  <2> QED
    BY <2>2 DEF Found
<1>2. TexInv /\ Found /\ [Next]_vars => Found'
  <2> SUFFICES ASSUME TexInv, Found, [Next]_vars PROVE Found'
    OBVIOUS
  <2>1. CASE Next
    BY <2>1, CallStep, FoundStep
  <2>2. CASE UNCHANGED vars
    <3>1. UNCHANGED <<cache, op, h>> /\ InPool' = InPool
      BY <2>2, PoolStay DEF vars, modelVars, callVars, TexInv
    <3>2. \A m \in Models : Cached(m)' = Cached(m)
      BY <3>1, CachedWas
    <3> QED
      BY <3>1, <3>2 DEF Found
  <2> QED
    BY <2>1, <2>2
<1>3. TexInv /\ Found => NoOrphans
  <2> SUFFICES ASSUME TexInv, Found, op = "idle", NEW o \in 1..made, Valid(o)
               PROVE  \E m \in Living : o \in Cached(m)
    BY DEF NoOrphans
  <2>1. o \in InPool /\ op \notin Taking
    BY DEF InPool, Taking, Holding
  <2>2. PICK m \in Models : o \in Cached(m)
    BY <2>1 DEF Found
  <2>3. state[m] = "ready"
    BY <2>2, Emptied DEF TexInv, ModelTypes
  <2> QED
    BY <2>2, <2>3 DEF Living
<1> QED
  BY <1>1, <1>2, <1>3, TexCorrect, LibraryIsModels, PTL DEF Spec
-----------------------------------------------------------------------------
(***************************************************************************)
(* Lists.  set_config() and update() go over a list from its beginning to  *)
(* its end, which is FoldLeft.  What a fold has come to behind k elements  *)
(* can be reasoned about once the recursive function it is made of is      *)
(* known to exist.                                                         *)
(***************************************************************************)
LEMMA Induction ==
  ASSUME NEW T \in SUBSET Nat, 0 \in T, \A n \in T : n + 1 \in T
  PROVE  T = Nat
<1> DEFINE R == OpToRel(<, Nat)
<1> SUFFICES ASSUME Nat \ T # {} PROVE FALSE
  OBVIOUS
<1>1. IsWellFoundedOn(R, Nat)
  BY NatLessThanWellFounded
<1>2. Nat \ T \subseteq Nat
  OBVIOUS
<1> HIDE DEF R
<1>3. PICK m \in Nat \ T : \A y \in Nat \ T : ~(<<y, m>> \in R)
  BY <1>1, <1>2, WFMin
<1>4. m # 0 /\ m - 1 \in Nat
  OBVIOUS
<1>5. m - 1 \notin T
  BY <1>4
<1>6. <<m - 1, m>> \in R
  BY <1>4 DEF R, OpToRel
<1> QED
  BY <1>3, <1>4, <1>5, <1>6

LEMMA MaxIs ==
  ASSUME NEW n \in Nat, NEW s \in SUBSET (1..n), s # {}
  PROVE  Max(s) \in s /\ \A y \in s : y <= Max(s)
<1> DEFINE T == {k \in Nat : \A r \in SUBSET (1..k) : r # {} => \E x \in r : \A y \in r : x >= y}
<1>1. 0 \in T
  <2>1. \A r \in SUBSET (1..0) : r = {}
    OBVIOUS
  <2> QED
    BY <2>1
<1>2. ASSUME NEW k \in T PROVE k + 1 \in T
  <2>1. k \in Nat
    BY <1>2
  <2> SUFFICES ASSUME NEW r \in SUBSET (1..(k + 1)), r # {}
               PROVE  \E x \in r : \A y \in r : x >= y
    BY <2>1
  <2>2. CASE k + 1 \in r
    BY <2>1, <2>2
  <2>3. CASE k + 1 \notin r
    <3>1. r \in SUBSET (1..k)
      BY <2>1, <2>3
    <3> QED
      BY <1>2, <3>1
  <2> QED
    BY <2>2, <2>3
<1>3. T \in SUBSET Nat
  OBVIOUS
<1> HIDE DEF T
<1>4. n \in T
  BY <1>1, <1>2, <1>3, Induction
<1>5. \E x \in s : \A y \in s : x >= y
  BY <1>4 DEF T
<1>6. Max(s) \in s /\ \A y \in s : Max(s) >= y
  BY <1>5 DEF Max
<1> QED
  BY <1>6

(* g folds, with G for a step, every set of places up to n.                *)
IsFold(g, D, d, n, G) ==
    /\ g \in [SUBSET (1..n) -> D] /\ g[{}] = d
    /\ \A s \in SUBSET (1..n) : s # {} => g[s] = G[<<g[s \ {Max(s)}], Max(s)>>]

LEMMA FoldExists ==
  ASSUME NEW D, NEW d \in D, NEW n \in Nat, NEW G \in [D \X (1..n) -> D]
  PROVE  \E g : IsFold(g, D, d, n, G)
<1> DEFINE T == {k \in Nat : k <= n => \E g : IsFold(g, D, d, k, G)}
<1>1. 0 \in T
  <2> DEFINE g == [s \in SUBSET (1..0) |-> d]
  <2>1. \A s \in SUBSET (1..0) : s = {} /\ g[s] = d
    OBVIOUS
  <2>2. g \in [SUBSET (1..0) -> D] /\ {} \in SUBSET (1..0)
    OBVIOUS
  <2> HIDE DEF g
  <2>3. IsFold(g, D, d, 0, G)
    BY <2>1, <2>2 DEF IsFold
  <2> QED
    BY <2>3
<1>2. ASSUME NEW k \in T PROVE k + 1 \in T
  <2> SUFFICES ASSUME k + 1 <= n PROVE \E g : IsFold(g, D, d, k + 1, G)
    BY <1>2
  <2>1. k \in Nat /\ k + 1 \in 1..n /\ k \notin 1..0 /\ k + 1 \notin 1..k
    BY <1>2
  <2>2. PICK g : IsFold(g, D, d, k, G)
    BY <1>2, <2>1
  <2> DEFINE e == [s \in SUBSET (1..(k + 1)) |->
                     IF k + 1 \in s THEN G[<<g[s \ {k + 1}], k + 1>>] ELSE g[s]]
  <2>3. \A s \in SUBSET (1..(k + 1)) : s \ {k + 1} \in SUBSET (1..k)
    BY <2>1
  <2>4. \A s \in SUBSET (1..k) : g[s] \in D
    BY <2>2 DEF IsFold
  <2>5. \A s \in SUBSET (1..(k + 1)) : e[s] \in D
    <3> SUFFICES ASSUME NEW s \in SUBSET (1..(k + 1)) PROVE e[s] \in D
      OBVIOUS
    <3>1. g[s \ {k + 1}] \in D
      BY <2>3, <2>4
    <3>2. G[<<g[s \ {k + 1}], k + 1>>] \in D
      BY <2>1, <3>1
    <3>3. k + 1 \notin s => s = s \ {k + 1}
      OBVIOUS
    <3> QED
      BY <3>1, <3>2, <3>3
  <2>6. e \in [SUBSET (1..(k + 1)) -> D]
    BY <2>5
  <2>7. \A s \in SUBSET (1..k) : s \in SUBSET (1..(k + 1)) /\ e[s] = g[s]
    BY <2>1
  <2>8. e[{}] = d
    BY <2>2, <2>7 DEF IsFold
  <2>9. ASSUME NEW s \in SUBSET (1..(k + 1)), s # {}
        PROVE  e[s] = G[<<e[s \ {Max(s)}], Max(s)>>]
    <3>1. CASE k + 1 \in s
      <4>1. Max(s) = k + 1
        <5>0. k + 1 \in Nat
          BY <2>1
        <5>1. Max(s) \in s /\ \A y \in s : y <= Max(s)
          BY <5>0, <2>9, MaxIs
        <5>2. Max(s) \in 1..(k + 1) /\ k + 1 <= Max(s)
          BY <5>1, <3>1
        <5> QED
          BY <5>0, <5>2
      <4>2. e[s] = G[<<g[s \ {k + 1}], k + 1>>]
        BY <3>1
      <4>3. e[s \ {k + 1}] = g[s \ {k + 1}]
        BY <2>3, <2>7
      <4> QED
        BY <4>1, <4>2, <4>3
    <3>2. CASE k + 1 \notin s
      <4>1. s \in SUBSET (1..k)
        BY <2>1, <3>2
      <4>2. s \ {Max(s)} \in SUBSET (1..k)
        BY <4>1
      <4>3. g[s] = G[<<g[s \ {Max(s)}], Max(s)>>]
        BY <2>2, <2>9, <4>1 DEF IsFold
      <4> QED
        BY <2>7, <4>1, <4>2, <4>3
    <3> QED
      BY <3>1, <3>2
  <2> HIDE DEF e
  <2>10. IsFold(e, D, d, k + 1, G)
    BY <2>6, <2>8, <2>9 DEF IsFold
  <2> QED
    BY <2>10
<1>3. T \in SUBSET Nat
  OBVIOUS
<1> HIDE DEF T
<1>4. n \in T
  BY <1>1, <1>2, <1>3, Induction
<1> QED
  BY <1>4 DEF T

(* The largest of the first k places is k.                                 *)
LEMMA Prefix ==
  ASSUME NEW n \in Nat, NEW k \in 1..n
  PROVE  /\ 1..k \in SUBSET (1..n) /\ 1..k # {}
         /\ Max(1..k) = k /\ (1..k) \ {Max(1..k)} = 1..(k - 1)
<1>1. 1..k \in SUBSET (1..n) /\ 1..k # {}
  OBVIOUS
<1>2. Max(1..k) \in 1..k /\ \A y \in 1..k : y <= Max(1..k)
  BY <1>1, MaxIs
<1>3. Max(1..k) = k
  BY <1>2
<1> QED
  BY <1>1, <1>3

(* What holds at the beginning and passes from each place to the next.     *)
LEMMA Along ==
  ASSUME NEW n \in Nat, NEW T, 0 \in T, \A k \in 1..n : k - 1 \in T => k \in T
  PROVE  \A k \in 0..n : k \in T
<1> DEFINE U == {k \in Nat : k <= n => k \in T}
<1>1. 0 \in U /\ U \in SUBSET Nat
  OBVIOUS
<1>2. ASSUME NEW k \in U PROVE k + 1 \in U
  <2>1. CASE k + 1 <= n
    <3>1. k + 1 \in 1..n /\ (k + 1) - 1 = k /\ k \in T
      BY <2>1
    <3>2. k + 1 \in T
      BY <3>1
    <3> QED
      BY <3>2
  <2>2. CASE ~(k + 1 <= n)
    BY <2>2
  <2> QED
    BY <2>1, <2>2
<1> HIDE DEF U
<1>3. U = Nat
  BY <1>1, <1>2, Induction
<1> QED
  BY <1>3 DEF U
-----------------------------------------------------------------------------
Asks == [pname : Pnames, param : Params]
Hows == {"one", "list", "astray", "twice"}
Cfgs == [pname : Pnames, param : Params, dirty : BOOLEAN, how : Hows]

LEMMA ConfigType ==
  ASSUME NEW a \in Asks, NEW b \in BOOLEAN, NEW w \in Hows
  PROVE  Config(a, b, w) \in Cfgs
BY DEF Asks, Cfgs, Config

LEMMA OutdatedType ==
  ASSUME NEW c \in Cfgs
  PROVE  /\ Outdated(c) \in Cfgs /\ Outdated(c).how # "list"
         /\ Outdated(c).pname = c.pname /\ Outdated(c).param = c.param
         /\ Outdated(c).dirty = c.dirty
         /\ Outdated(c).how = (IF c.how = "list" THEN "twice" ELSE c.how)
<1>1. Outdated(c) = [pname |-> c.pname, param |-> c.param, dirty |-> c.dirty,
                     how |-> IF c.how = "list" THEN "twice" ELSE c.how]
  BY DEF Outdated, Cfgs
<1> QED
  BY <1>1 DEF Cfgs, Hows

(* Changing the entry at i: it is marked, those of its name are outdated.  *)
Changed(c, a, i, j) ==
    IF j = i THEN Config(a, TRUE, IF c[i].how = "twice" THEN "twice" ELSE "list")
    ELSE IF c[j].pname = a.pname THEN Outdated(c[j]) ELSE c[j]

LEMMA ChangedType ==
  ASSUME NEW c \in Seq(Cfgs), NEW a \in Asks, NEW i
  PROVE  /\ [j \in DOMAIN c |-> Changed(c, a, i, j)] \in Seq(Cfgs)
         /\ \A j \in DOMAIN c : Changed(c, a, i, j) \in Cfgs
<1>1. ASSUME NEW j \in DOMAIN c PROVE Changed(c, a, i, j) \in Cfgs
  <2>1. c[j] \in Cfgs
    OBVIOUS
  <2>2. Outdated(c[j]) \in Cfgs
    BY <2>1, OutdatedType
  <2>3. Config(a, TRUE, "twice") \in Cfgs /\ Config(a, TRUE, "list") \in Cfgs
    BY ConfigType DEF Hows
  <2> QED
    BY <2>1, <2>2, <2>3 DEF Changed
<1>2. Len(c) \in Nat /\ DOMAIN c = 1..Len(c)
  OBVIOUS
<1>3. [j \in 1..Len(c) |-> Changed(c, a, i, j)] \in Seq(Cfgs)
  BY <1>1, <1>2
<1> QED
  BY <1>1, <1>2, <1>3

LEMMA StepType ==
  ASSUME NEW c \in Seq(Cfgs), NEW a \in Asks
  PROVE  Put(c, a) \in Seq(Cfgs) /\ Change(c, a) \in Seq(Cfgs)
<1> DEFINE v == Config(a, TRUE, "list")
           i == find_cfg_by_pname(c, a.pname)
<1>1. v \in Cfgs
  BY ConfigType DEF Hows
<1>2. Put(c, a) = Append(c, v)
  BY DEF Put
<1>3. Change(c, a) = IF c[i].param = a.param THEN c
                     ELSE [j \in DOMAIN c |-> Changed(c, a, i, j)]
  BY DEF Change, Changed
<1> HIDE DEF v, i
<1>4. [j \in DOMAIN c |-> Changed(c, a, i, j)] \in Seq(Cfgs)
  BY ChangedType
<1> QED
  BY <1>1, <1>2, <1>3, <1>4

(* One parameter, by policy: asked for, or in the list already.            *)
MergeOne(c, a) == IF Has(c, a.pname) THEN Change(c, a) ELSE Put(c, a)
AppendOne(c, a) == IF Has(c, a.pname) THEN c ELSE Put(c, a)
UpdateOne(c, a) == IF Has(c, a.pname) THEN Change(c, a) ELSE c
KeepOne(incoming, s, c) == IF Has(incoming, c.pname) THEN s ELSE Append(s, c)
HandOn(p, c) == IF c.dirty THEN [p EXCEPT ![c.pname] = Applied(c)] ELSE p

Merged(f, current, incoming) ==
    /\ f[0] = current /\ f[Len(incoming)] = merge_cfgs(current, incoming)
    /\ \A k \in 0..Len(incoming) : f[k] \in Seq(Cfgs)
    /\ \A k \in 1..Len(incoming) :
          f[k] = MergeOne(f[k - 1], incoming[k])

LEMMA MergedRun ==
  ASSUME NEW current \in Seq(Cfgs), NEW incoming \in Seq(Asks)
  PROVE  \E f : Merged(f, current, incoming)
<1> DEFINE n == Len(incoming)
           D == Seq(Cfgs)
           b == current
           G == [x \in D \X (1..n) |-> MergeOne(x[1], incoming[x[2]])]
           Is(q) == q = [s \in SUBSET DOMAIN incoming |->
                           IF s = {} THEN current
                           ELSE MergeOne(q[s \ {Max(s)}], incoming[Max(s)])]
           q == CHOOSE g : Is(g)
           f == [k \in 0..n |-> q[1..k]]
<1>1. n \in Nat /\ DOMAIN incoming = 1..n /\ b \in D
  OBVIOUS
<1>2. \A c \in D, i \in 1..n : (MergeOne(c, incoming[i])) \in D
  <2> SUFFICES ASSUME NEW c \in D, NEW i \in 1..n PROVE (MergeOne(c, incoming[i])) \in D
    OBVIOUS
  <2>1. c \in Seq(Cfgs) /\ incoming[i] \in Asks
    BY <1>1
  <2> QED
    BY <2>1, StepType DEF MergeOne
<1>3. G \in [D \X (1..n) -> D]
  BY <1>2
<1>4. \A c \in D, i \in 1..n : G[<<c, i>>] = MergeOne(c, incoming[i])
  OBVIOUS
<1> HIDE DEF G, D, n, b
<1>5. PICK g : IsFold(g, D, b, n, G)
  BY <1>1, <1>3, FoldExists
<1>6. Is(g)
  <2>1. ASSUME NEW s \in SUBSET (1..n), s # {}
        PROVE  g[s] = MergeOne(g[s \ {Max(s)}], incoming[Max(s)])
    <3>1. Max(s) \in 1..n /\ s \ {Max(s)} \in SUBSET (1..n)
      BY <1>1, <2>1, MaxIs
    <3>2. g[s \ {Max(s)}] \in D /\ g[s] = G[<<g[s \ {Max(s)}], Max(s)>>]
      BY <1>5, <2>1, <3>1 DEF IsFold
    <3> QED
      BY <1>4, <3>1, <3>2
  <2>2. g[{}] = b /\ g = [s \in SUBSET (1..n) |-> g[s]]
    BY <1>5 DEF IsFold
  <2> QED
    BY <1>1, <2>1, <2>2 DEF b
<1>7. Is(q)
  BY <1>6, Zenon
<1>8. merge_cfgs(current, incoming) = q[DOMAIN incoming]
  BY DEF merge_cfgs, FoldLeft, MapThenFoldSet, MergeOne
<1> HIDE DEF q
<1>9. f[0] = current /\ f[n] = merge_cfgs(current, incoming)
  <2>1. 1..0 = {} /\ {} \in SUBSET DOMAIN incoming
    OBVIOUS
  <2>2. q[{}] = current
    BY <1>7, <2>1
  <2> QED
    BY <1>1, <1>8, <2>1, <2>2
<1>10. ASSUME NEW k \in 1..n
       PROVE  f[k] = MergeOne(f[k - 1], incoming[k])
  <2>1. /\ 1..k \in SUBSET DOMAIN incoming /\ 1..k # {}
        /\ Max(1..k) = k /\ (1..k) \ {Max(1..k)} = 1..(k - 1)
    BY <1>1, Prefix
  <2>2. f[k] = q[1..k] /\ f[k - 1] = q[1..(k - 1)]
    BY <1>1
  <2> HIDE DEF f
  <2>3. q[1..k] = MergeOne(q[(1..k) \ {Max(1..k)}], incoming[Max(1..k)])
    BY <1>7, <2>1
  <2> QED
    BY <2>1, <2>2, <2>3
<1> HIDE DEF f
<1>11. \A k \in 0..n : f[k] \in D
  <2> DEFINE T == {k \in 0..n : f[k] \in D}
  <2>1. 0 \in T
    BY <1>1, <1>9 DEF b
  <2>2. \A k \in 1..n : k - 1 \in T => k \in T
    BY <1>1, <1>2, <1>10
  <2> HIDE DEF T
  <2>3. \A k \in 0..n : k \in T
    BY <1>1, <2>1, <2>2, Along
  <2> QED
    BY <2>3 DEF T
<1> QED
  BY <1>9, <1>10, <1>11 DEF Merged, n, D

Appended(f, current, incoming) ==
    /\ f[0] = current /\ f[Len(incoming)] = append_cfgs(current, incoming)
    /\ \A k \in 0..Len(incoming) : f[k] \in Seq(Cfgs)
    /\ \A k \in 1..Len(incoming) :
          f[k] = AppendOne(f[k - 1], incoming[k])

LEMMA AppendedRun ==
  ASSUME NEW current \in Seq(Cfgs), NEW incoming \in Seq(Asks)
  PROVE  \E f : Appended(f, current, incoming)
<1> DEFINE n == Len(incoming)
           D == Seq(Cfgs)
           b == current
           G == [x \in D \X (1..n) |-> AppendOne(x[1], incoming[x[2]])]
           Is(q) == q = [s \in SUBSET DOMAIN incoming |->
                           IF s = {} THEN current
                           ELSE AppendOne(q[s \ {Max(s)}], incoming[Max(s)])]
           q == CHOOSE g : Is(g)
           f == [k \in 0..n |-> q[1..k]]
<1>1. n \in Nat /\ DOMAIN incoming = 1..n /\ b \in D
  OBVIOUS
<1>2. \A c \in D, i \in 1..n : (AppendOne(c, incoming[i])) \in D
  <2> SUFFICES ASSUME NEW c \in D, NEW i \in 1..n PROVE (AppendOne(c, incoming[i])) \in D
    OBVIOUS
  <2>1. c \in Seq(Cfgs) /\ incoming[i] \in Asks
    BY <1>1
  <2> QED
    BY <2>1, StepType DEF AppendOne
<1>3. G \in [D \X (1..n) -> D]
  BY <1>2
<1>4. \A c \in D, i \in 1..n : G[<<c, i>>] = AppendOne(c, incoming[i])
  OBVIOUS
<1> HIDE DEF G, D, n, b
<1>5. PICK g : IsFold(g, D, b, n, G)
  BY <1>1, <1>3, FoldExists
<1>6. Is(g)
  <2>1. ASSUME NEW s \in SUBSET (1..n), s # {}
        PROVE  g[s] = AppendOne(g[s \ {Max(s)}], incoming[Max(s)])
    <3>1. Max(s) \in 1..n /\ s \ {Max(s)} \in SUBSET (1..n)
      BY <1>1, <2>1, MaxIs
    <3>2. g[s \ {Max(s)}] \in D /\ g[s] = G[<<g[s \ {Max(s)}], Max(s)>>]
      BY <1>5, <2>1, <3>1 DEF IsFold
    <3> QED
      BY <1>4, <3>1, <3>2
  <2>2. g[{}] = b /\ g = [s \in SUBSET (1..n) |-> g[s]]
    BY <1>5 DEF IsFold
  <2> QED
    BY <1>1, <2>1, <2>2 DEF b
<1>7. Is(q)
  BY <1>6, Zenon
<1>8. append_cfgs(current, incoming) = q[DOMAIN incoming]
  BY DEF append_cfgs, FoldLeft, MapThenFoldSet, AppendOne
<1> HIDE DEF q
<1>9. f[0] = current /\ f[n] = append_cfgs(current, incoming)
  <2>1. 1..0 = {} /\ {} \in SUBSET DOMAIN incoming
    OBVIOUS
  <2>2. q[{}] = current
    BY <1>7, <2>1
  <2> QED
    BY <1>1, <1>8, <2>1, <2>2
<1>10. ASSUME NEW k \in 1..n
       PROVE  f[k] = AppendOne(f[k - 1], incoming[k])
  <2>1. /\ 1..k \in SUBSET DOMAIN incoming /\ 1..k # {}
        /\ Max(1..k) = k /\ (1..k) \ {Max(1..k)} = 1..(k - 1)
    BY <1>1, Prefix
  <2>2. f[k] = q[1..k] /\ f[k - 1] = q[1..(k - 1)]
    BY <1>1
  <2> HIDE DEF f
  <2>3. q[1..k] = AppendOne(q[(1..k) \ {Max(1..k)}], incoming[Max(1..k)])
    BY <1>7, <2>1
  <2> QED
    BY <2>1, <2>2, <2>3
<1> HIDE DEF f
<1>11. \A k \in 0..n : f[k] \in D
  <2> DEFINE T == {k \in 0..n : f[k] \in D}
  <2>1. 0 \in T
    BY <1>1, <1>9 DEF b
  <2>2. \A k \in 1..n : k - 1 \in T => k \in T
    BY <1>1, <1>2, <1>10
  <2> HIDE DEF T
  <2>3. \A k \in 0..n : k \in T
    BY <1>1, <2>1, <2>2, Along
  <2> QED
    BY <2>3 DEF T
<1> QED
  BY <1>9, <1>10, <1>11 DEF Appended, n, D

Updated(f, current, incoming) ==
    /\ f[0] = current /\ f[Len(incoming)] = update_cfgs(current, incoming)
    /\ \A k \in 0..Len(incoming) : f[k] \in Seq(Cfgs)
    /\ \A k \in 1..Len(incoming) :
          f[k] = UpdateOne(f[k - 1], incoming[k])

LEMMA UpdatedRun ==
  ASSUME NEW current \in Seq(Cfgs), NEW incoming \in Seq(Asks)
  PROVE  \E f : Updated(f, current, incoming)
<1> DEFINE n == Len(incoming)
           D == Seq(Cfgs)
           b == current
           G == [x \in D \X (1..n) |-> UpdateOne(x[1], incoming[x[2]])]
           Is(q) == q = [s \in SUBSET DOMAIN incoming |->
                           IF s = {} THEN current
                           ELSE UpdateOne(q[s \ {Max(s)}], incoming[Max(s)])]
           q == CHOOSE g : Is(g)
           f == [k \in 0..n |-> q[1..k]]
<1>1. n \in Nat /\ DOMAIN incoming = 1..n /\ b \in D
  OBVIOUS
<1>2. \A c \in D, i \in 1..n : (UpdateOne(c, incoming[i])) \in D
  <2> SUFFICES ASSUME NEW c \in D, NEW i \in 1..n PROVE (UpdateOne(c, incoming[i])) \in D
    OBVIOUS
  <2>1. c \in Seq(Cfgs) /\ incoming[i] \in Asks
    BY <1>1
  <2> QED
    BY <2>1, StepType DEF UpdateOne
<1>3. G \in [D \X (1..n) -> D]
  BY <1>2
<1>4. \A c \in D, i \in 1..n : G[<<c, i>>] = UpdateOne(c, incoming[i])
  OBVIOUS
<1> HIDE DEF G, D, n, b
<1>5. PICK g : IsFold(g, D, b, n, G)
  BY <1>1, <1>3, FoldExists
<1>6. Is(g)
  <2>1. ASSUME NEW s \in SUBSET (1..n), s # {}
        PROVE  g[s] = UpdateOne(g[s \ {Max(s)}], incoming[Max(s)])
    <3>1. Max(s) \in 1..n /\ s \ {Max(s)} \in SUBSET (1..n)
      BY <1>1, <2>1, MaxIs
    <3>2. g[s \ {Max(s)}] \in D /\ g[s] = G[<<g[s \ {Max(s)}], Max(s)>>]
      BY <1>5, <2>1, <3>1 DEF IsFold
    <3> QED
      BY <1>4, <3>1, <3>2
  <2>2. g[{}] = b /\ g = [s \in SUBSET (1..n) |-> g[s]]
    BY <1>5 DEF IsFold
  <2> QED
    BY <1>1, <2>1, <2>2 DEF b
<1>7. Is(q)
  BY <1>6, Zenon
<1>8. update_cfgs(current, incoming) = q[DOMAIN incoming]
  BY DEF update_cfgs, FoldLeft, MapThenFoldSet, UpdateOne
<1> HIDE DEF q
<1>9. f[0] = current /\ f[n] = update_cfgs(current, incoming)
  <2>1. 1..0 = {} /\ {} \in SUBSET DOMAIN incoming
    OBVIOUS
  <2>2. q[{}] = current
    BY <1>7, <2>1
  <2> QED
    BY <1>1, <1>8, <2>1, <2>2
<1>10. ASSUME NEW k \in 1..n
       PROVE  f[k] = UpdateOne(f[k - 1], incoming[k])
  <2>1. /\ 1..k \in SUBSET DOMAIN incoming /\ 1..k # {}
        /\ Max(1..k) = k /\ (1..k) \ {Max(1..k)} = 1..(k - 1)
    BY <1>1, Prefix
  <2>2. f[k] = q[1..k] /\ f[k - 1] = q[1..(k - 1)]
    BY <1>1
  <2> HIDE DEF f
  <2>3. q[1..k] = UpdateOne(q[(1..k) \ {Max(1..k)}], incoming[Max(1..k)])
    BY <1>7, <2>1
  <2> QED
    BY <2>1, <2>2, <2>3
<1> HIDE DEF f
<1>11. \A k \in 0..n : f[k] \in D
  <2> DEFINE T == {k \in 0..n : f[k] \in D}
  <2>1. 0 \in T
    BY <1>1, <1>9 DEF b
  <2>2. \A k \in 1..n : k - 1 \in T => k \in T
    BY <1>1, <1>2, <1>10
  <2> HIDE DEF T
  <2>3. \A k \in 0..n : k \in T
    BY <1>1, <2>1, <2>2, Along
  <2> QED
    BY <2>3 DEF T
<1> QED
  BY <1>9, <1>10, <1>11 DEF Updated, n, D

Removed(f, current, incoming) ==
    /\ f[0] = <<>> /\ f[Len(current)] = remove_cfgs(current, incoming)
    /\ \A k \in 0..Len(current) : f[k] \in Seq(Cfgs)
    /\ \A k \in 1..Len(current) :
          f[k] = KeepOne(incoming, f[k - 1], current[k])

LEMMA RemovedRun ==
  ASSUME NEW current \in Seq(Cfgs), NEW incoming \in Seq(Asks)
  PROVE  \E f : Removed(f, current, incoming)
<1> DEFINE n == Len(current)
           D == Seq(Cfgs)
           b == <<>>
           G == [x \in D \X (1..n) |-> KeepOne(incoming, x[1], current[x[2]])]
           Is(q) == q = [s \in SUBSET DOMAIN current |->
                           IF s = {} THEN <<>>
                           ELSE KeepOne(incoming, q[s \ {Max(s)}], current[Max(s)])]
           q == CHOOSE g : Is(g)
           f == [k \in 0..n |-> q[1..k]]
<1>1. n \in Nat /\ DOMAIN current = 1..n /\ b \in D
  OBVIOUS
<1>2. \A c \in D, i \in 1..n : (KeepOne(incoming, c, current[i])) \in D
  <2> SUFFICES ASSUME NEW c \in D, NEW i \in 1..n PROVE (KeepOne(incoming, c, current[i])) \in D
    OBVIOUS
  <2>1. c \in Seq(Cfgs) /\ current[i] \in Cfgs
    BY <1>1
  <2> QED
    BY <2>1 DEF KeepOne
<1>3. G \in [D \X (1..n) -> D]
  BY <1>2
<1>4. \A c \in D, i \in 1..n : G[<<c, i>>] = KeepOne(incoming, c, current[i])
  OBVIOUS
<1> HIDE DEF G, D, n, b
<1>5. PICK g : IsFold(g, D, b, n, G)
  BY <1>1, <1>3, FoldExists
<1>6. Is(g)
  <2>1. ASSUME NEW s \in SUBSET (1..n), s # {}
        PROVE  g[s] = KeepOne(incoming, g[s \ {Max(s)}], current[Max(s)])
    <3>1. Max(s) \in 1..n /\ s \ {Max(s)} \in SUBSET (1..n)
      BY <1>1, <2>1, MaxIs
    <3>2. g[s \ {Max(s)}] \in D /\ g[s] = G[<<g[s \ {Max(s)}], Max(s)>>]
      BY <1>5, <2>1, <3>1 DEF IsFold
    <3> QED
      BY <1>4, <3>1, <3>2
  <2>2. g[{}] = b /\ g = [s \in SUBSET (1..n) |-> g[s]]
    BY <1>5 DEF IsFold
  <2> QED
    BY <1>1, <2>1, <2>2 DEF b
<1>7. Is(q)
  BY <1>6, Zenon
<1>8. remove_cfgs(current, incoming) = q[DOMAIN current]
  BY DEF remove_cfgs, FoldLeft, MapThenFoldSet, KeepOne
<1> HIDE DEF q
<1>9. f[0] = <<>> /\ f[n] = remove_cfgs(current, incoming)
  <2>1. 1..0 = {} /\ {} \in SUBSET DOMAIN current
    OBVIOUS
  <2>2. q[{}] = <<>>
    BY <1>7, <2>1
  <2> QED
    BY <1>1, <1>8, <2>1, <2>2
<1>10. ASSUME NEW k \in 1..n
       PROVE  f[k] = KeepOne(incoming, f[k - 1], current[k])
  <2>1. /\ 1..k \in SUBSET DOMAIN current /\ 1..k # {}
        /\ Max(1..k) = k /\ (1..k) \ {Max(1..k)} = 1..(k - 1)
    BY <1>1, Prefix
  <2>2. f[k] = q[1..k] /\ f[k - 1] = q[1..(k - 1)]
    BY <1>1
  <2> HIDE DEF f
  <2>3. q[1..k] = KeepOne(incoming, q[(1..k) \ {Max(1..k)}], current[Max(1..k)])
    BY <1>7, <2>1
  <2> QED
    BY <2>1, <2>2, <2>3
<1> HIDE DEF f
<1>11. \A k \in 0..n : f[k] \in D
  <2> DEFINE T == {k \in 0..n : f[k] \in D}
  <2>1. 0 \in T
    BY <1>1, <1>9 DEF b
  <2>2. \A k \in 1..n : k - 1 \in T => k \in T
    BY <1>1, <1>2, <1>10
  <2> HIDE DEF T
  <2>3. \A k \in 0..n : k \in T
    BY <1>1, <2>1, <2>2, Along
  <2> QED
    BY <2>3 DEF T
<1> QED
  BY <1>9, <1>10, <1>11 DEF Removed, n, D

(* Calls of GL, by name of the parameter.                                  *)
Call == {"default", "Iiv", "fv", "i", "f"} \X Params
Calls == [Pnames -> Call]

Handed ==
    FoldLeft(LAMBDA p, c : IF c.dirty THEN [p EXCEPT ![c.pname] = Applied(c)] ELSE p,
             params, cfgs)

LEMMA AppliedType == ASSUME NEW c \in Cfgs PROVE Applied(c) \in Call
<1>1. c.param \in Params
  BY DEF Cfgs
<1>2. \A s \in {"Iiv", "fv", "i", "f"} : <<s, c.param>> \in Call
  BY <1>1 DEF Call
<1> QED
  BY <1>2 DEF Applied

LEMMA ExceptCall ==
  ASSUME NEW p \in Calls, NEW i, NEW v \in Call
  PROVE  [p EXCEPT ![i] = v] \in Calls
BY DEF Calls

Handing(f) ==
    /\ f[0] = params /\ f[Len(cfgs)] = Handed
    /\ \A k \in 0..Len(cfgs) : f[k] \in Calls
    /\ \A k \in 1..Len(cfgs) :
          f[k] = HandOn(f[k - 1], cfgs[k])

LEMMA HandingRun ==
  ASSUME cfgs \in Seq(Cfgs), params \in Calls
  PROVE  \E f : Handing(f)
<1> DEFINE n == Len(cfgs)
           D == Calls
           b == params
           G == [x \in D \X (1..n) |-> HandOn(x[1], cfgs[x[2]])]
           Is(q) == q = [s \in SUBSET DOMAIN cfgs |->
                           IF s = {} THEN params
                           ELSE HandOn(q[s \ {Max(s)}], cfgs[Max(s)])]
           q == CHOOSE g : Is(g)
           f == [k \in 0..n |-> q[1..k]]
<1>1. n \in Nat /\ DOMAIN cfgs = 1..n /\ b \in D
  OBVIOUS
<1>2. \A c \in D, i \in 1..n : (HandOn(c, cfgs[i])) \in D
  <2> SUFFICES ASSUME NEW c \in D, NEW i \in 1..n PROVE (HandOn(c, cfgs[i])) \in D
    OBVIOUS
  <2>1. c \in Calls /\ cfgs[i] \in Cfgs
    BY <1>1
  <2> QED
    BY <2>1, AppliedType, ExceptCall DEF HandOn
<1>3. G \in [D \X (1..n) -> D]
  BY <1>2
<1>4. \A c \in D, i \in 1..n : G[<<c, i>>] = HandOn(c, cfgs[i])
  OBVIOUS
<1> HIDE DEF G, D, n, b
<1>5. PICK g : IsFold(g, D, b, n, G)
  BY <1>1, <1>3, FoldExists
<1>6. Is(g)
  <2>1. ASSUME NEW s \in SUBSET (1..n), s # {}
        PROVE  g[s] = HandOn(g[s \ {Max(s)}], cfgs[Max(s)])
    <3>1. Max(s) \in 1..n /\ s \ {Max(s)} \in SUBSET (1..n)
      BY <1>1, <2>1, MaxIs
    <3>2. g[s \ {Max(s)}] \in D /\ g[s] = G[<<g[s \ {Max(s)}], Max(s)>>]
      BY <1>5, <2>1, <3>1 DEF IsFold
    <3> QED
      BY <1>4, <3>1, <3>2
  <2>2. g[{}] = b /\ g = [s \in SUBSET (1..n) |-> g[s]]
    BY <1>5 DEF IsFold
  <2> QED
    BY <1>1, <2>1, <2>2 DEF b
<1>7. Is(q)
  BY <1>6, Zenon
<1>8. Handed = q[DOMAIN cfgs]
  BY DEF Handed, FoldLeft, MapThenFoldSet, HandOn
<1> HIDE DEF q
<1>9. f[0] = params /\ f[n] = Handed
  <2>1. 1..0 = {} /\ {} \in SUBSET DOMAIN cfgs
    OBVIOUS
  <2>2. q[{}] = params
    BY <1>7, <2>1
  <2> QED
    BY <1>1, <1>8, <2>1, <2>2
<1>10. ASSUME NEW k \in 1..n
       PROVE  f[k] = HandOn(f[k - 1], cfgs[k])
  <2>1. /\ 1..k \in SUBSET DOMAIN cfgs /\ 1..k # {}
        /\ Max(1..k) = k /\ (1..k) \ {Max(1..k)} = 1..(k - 1)
    BY <1>1, Prefix
  <2>2. f[k] = q[1..k] /\ f[k - 1] = q[1..(k - 1)]
    BY <1>1
  <2> HIDE DEF f
  <2>3. q[1..k] = HandOn(q[(1..k) \ {Max(1..k)}], cfgs[Max(1..k)])
    BY <1>7, <2>1
  <2> QED
    BY <2>1, <2>2, <2>3
<1> HIDE DEF f
<1>11. \A k \in 0..n : f[k] \in D
  <2> DEFINE T == {k \in 0..n : f[k] \in D}
  <2>1. 0 \in T
    BY <1>1, <1>9 DEF b
  <2>2. \A k \in 1..n : k - 1 \in T => k \in T
    BY <1>1, <1>2, <1>10
  <2> HIDE DEF T
  <2>3. \A k \in 0..n : k \in T
    BY <1>1, <2>1, <2>2, Along
  <2> QED
    BY <2>3 DEF T
<1> QED
  BY <1>9, <1>10, <1>11 DEF Handing, n, D
-----------------------------------------------------------------------------
(* What the list of a texture keeps to: what is marked came in a list; GL  *)
(* has what came in a list and is not marked; and of the entries of a name *)
(* only the last that came in a list can be the one GL has, unless an      *)
(* earlier one was marked after it.                                        *)
Entry(c, i) ==
    /\ c[i].dirty => c[i].how \in {"list", "twice"}
    /\ c[i].how = "list" /\ ~c[i].dirty => params[c[i].pname] = Applied(c[i])

Pair(c, i, j) ==
    /\ c[j].how # "one" => c[i].how = "twice"
    /\ c[j].how = "list" /\ c[i].dirty => c[j].dirty

Sound(c) ==
    /\ \A i \in DOMAIN c : Entry(c, i)
    /\ \A i, j \in DOMAIN c : i < j /\ c[i].pname = c[j].pname => Pair(c, i, j)

LEMMA FirstIs ==
  ASSUME NEW c \in Seq(Cfgs), NEW p, Has(c, p)
  PROVE  LET i == find_cfg_by_pname(c, p) IN
         i \in DOMAIN c /\ c[i].pname = p /\ \A j \in DOMAIN c : c[j].pname = p => i <= j
<1> DEFINE n == Len(c)
           s == {k \in 1..n : c[n + 1 - k].pname = p}
           i == n + 1 - Max(s)
<1>1. n \in Nat /\ DOMAIN c = 1..n
  OBVIOUS
<1>2. PICK j \in 1..n : c[j].pname = p
  BY <1>1 DEF Has
<1> HIDE DEF n
<1>3. n + 1 - j \in s
  <2>1. n + 1 - j \in 1..n /\ n + 1 - (n + 1 - j) = j
    BY <1>1
  <2> QED
    BY <1>2, <2>1
<1>4. Max(s) \in s /\ \A y \in s : y <= Max(s)
  <2>1. s \in SUBSET (1..n) /\ s # {}
    BY <1>3
  <2> HIDE DEF s
  <2> QED
    BY <1>1, <2>1, MaxIs
<1>5. i \in 1..n /\ c[i].pname = p
  BY <1>1, <1>4
<1>6. ASSUME NEW k \in 1..n, c[k].pname = p PROVE i <= k
  <2>1. n + 1 - k \in 1..n /\ n + 1 - (n + 1 - k) = k
    BY <1>1
  <2>2. n + 1 - k \in s
    BY <1>6, <2>1
  <2>3. n + 1 - k <= Max(s) /\ Max(s) \in 1..n
    BY <1>4, <2>2
  <2> QED
    BY <1>1, <2>1, <2>3
<1>7. \E m \in DOMAIN c : c[m].pname = p /\ \A k \in DOMAIN c : c[k].pname = p => m <= k
  BY <1>1, <1>5, <1>6
<1> QED
  BY <1>7 DEF find_cfg_by_pname

LEMMA PutSound ==
  ASSUME NEW c \in Seq(Cfgs), Sound(c), NEW a \in Asks, ~Has(c, a.pname)
  PROVE  Sound(Put(c, a))
<1> DEFINE v == Config(a, TRUE, "list")
<1>1. v \in Cfgs /\ v.pname = a.pname /\ v.dirty = TRUE /\ v.how = "list"
  BY ConfigType DEF Config, Hows
<1> HIDE DEF v
<1> DEFINE e == Append(c, v)
<1>2. /\ DOMAIN e = 1..(Len(c) + 1) /\ Len(c) \in Nat /\ DOMAIN c = 1..Len(c)
      /\ e[Len(c) + 1] = v /\ \A i \in DOMAIN c : e[i] = c[i]
  BY <1>1
<1> HIDE DEF e
<1>3. ASSUME NEW i \in DOMAIN e
      PROVE  i = Len(c) + 1 \/ (i \in DOMAIN c /\ e[i] = c[i])
  BY <1>2
<1>4. ASSUME NEW i \in DOMAIN e PROVE Entry(e, i)
  <2>1. CASE i = Len(c) + 1
    BY <2>1, <1>1, <1>2 DEF Entry
  <2>2. CASE i \in DOMAIN c /\ e[i] = c[i]
    BY <2>2 DEF Sound, Entry
  <2> QED
    BY <1>3, <2>1, <2>2
<1>5. ASSUME NEW i \in DOMAIN e, NEW j \in DOMAIN e, i < j, e[i].pname = e[j].pname
      PROVE  Pair(e, i, j)
  <2>1. i \in DOMAIN c /\ e[i] = c[i]
    BY <1>2, <1>5
  <2>2. j # Len(c) + 1
    BY <2>1, <1>1, <1>2, <1>5 DEF Has
  <2>3. j \in DOMAIN c /\ e[j] = c[j]
    BY <2>2, <1>3
  <2> QED
    BY <1>5, <2>1, <2>3 DEF Sound, Pair
<1>6. Sound(e)
  BY <1>4, <1>5 DEF Sound
<1> QED
  BY <1>6 DEF e, v, Put

(* The first of a name is "twice" if others of it came in a list, so only  *)
(* an entry that is alone counts as asked for in a list after the change.  *)
LEMMA ChangeSound ==
  ASSUME NEW c \in Seq(Cfgs), Sound(c), NEW a \in Asks, Has(c, a.pname)
  PROVE  Sound(Change(c, a))
<1> DEFINE i == find_cfg_by_pname(c, a.pname)
           way == IF c[i].how = "twice" THEN "twice" ELSE "list"
           v == Config(a, TRUE, way)
           e == [j \in DOMAIN c |-> Changed(c, a, i, j)]
<1>1. i \in DOMAIN c /\ c[i].pname = a.pname /\ \A j \in DOMAIN c : c[j].pname = a.pname => i <= j
  BY FirstIs
<1>2. Change(c, a) = IF c[i].param = a.param THEN c ELSE e
  BY DEF Change, Changed
<1>3. v.pname = a.pname /\ v.dirty = TRUE /\ v.how = way
  BY DEF Config
<1>4. DOMAIN e = DOMAIN c /\ \A j \in DOMAIN c : c[j] \in Cfgs /\ j \in Nat
  OBVIOUS
<1>5. e[i] = v
  BY <1>1 DEF Changed
<1>6. ASSUME NEW j \in DOMAIN c, j # i, c[j].pname = a.pname PROVE e[j] = Outdated(c[j])
  BY <1>6 DEF Changed
<1>7. ASSUME NEW j \in DOMAIN c, c[j].pname # a.pname PROVE e[j] = c[j]
  BY <1>1, <1>7 DEF Changed
<1>8. way \in {"list", "twice"} /\ (c[i].how = "twice" => way = "twice")
  OBVIOUS
<1> HIDE DEF v, i, e, way
<1>9. ASSUME NEW j \in DOMAIN c PROVE e[j].pname = c[j].pname /\ Entry(e, j)
  <2>1. CASE j = i
    BY <2>1, <1>1, <1>3, <1>5, <1>8 DEF Entry
  <2>2. CASE j # i /\ c[j].pname = a.pname
    <3>1. Entry(c, j)
      BY DEF Sound
    <3> QED
      BY <2>2, <3>1, <1>4, <1>6, OutdatedType DEF Entry
  <2>3. CASE c[j].pname # a.pname
    BY <2>3, <1>7 DEF Entry, Sound
  <2> QED
    BY <2>1, <2>2, <2>3
<1>10. ASSUME NEW k \in DOMAIN e, NEW j \in DOMAIN e, k < j, e[k].pname = e[j].pname
       PROVE  Pair(e, k, j)
  <2>1. k \in DOMAIN c /\ j \in DOMAIN c /\ c[k].pname = c[j].pname /\ Pair(c, k, j)
    BY <1>4, <1>9, <1>10 DEF Sound
  <2>2. CASE c[k].pname # a.pname
    BY <2>1, <2>2, <1>7 DEF Pair
  <2>3. CASE c[k].pname = a.pname
    <3>1. j # i
      BY <1>1, <1>4, <1>10, <2>1, <2>3
    <3>2. e[j] = Outdated(c[j]) /\ c[j] \in Cfgs
      BY <3>1, <2>1, <2>3, <1>4, <1>6
    <3>3. e[j].how # "list" /\ (e[j].how # "one" => c[j].how # "one")
      BY <3>2, OutdatedType
    <3>4. c[k].how = "twice" => e[k].how = "twice"
      <4>1. CASE k = i
        BY <4>1, <1>3, <1>5, <1>8
      <4>2. CASE k # i
        BY <4>2, <2>1, <2>3, <1>4, <1>6, OutdatedType
      <4> QED
        BY <4>1, <4>2
    <3> QED
      BY <2>1, <3>3, <3>4 DEF Pair
  <2> QED
    BY <2>2, <2>3
<1>11. Sound(e)
  BY <1>4, <1>9, <1>10 DEF Sound
<1> QED
  BY <1>2, <1>11
-----------------------------------------------------------------------------
LEMMA NoneSound == Sound(<<>>)
BY DEF Sound

(* replace: all of it is marked, and of a name all but the last "twice".   *)
Later(in, i) == \E j \in DOMAIN in : i < j /\ in[j].pname = in[i].pname
Replacing(in, i) == Config(in[i], TRUE, IF Later(in, i) THEN "twice" ELSE "list")

LEMMA ReplacingType ==
  ASSUME NEW in \in Seq(Asks), NEW i \in DOMAIN in
  PROVE  /\ Replacing(in, i) \in Cfgs
         /\ Replacing(in, i).dirty = TRUE /\ Replacing(in, i).pname = in[i].pname
         /\ Replacing(in, i).how \in {"list", "twice"}
         /\ Later(in, i) => Replacing(in, i).how = "twice"
<1> DEFINE way == IF Later(in, i) THEN "twice" ELSE "list"
<1>1. in[i] \in Asks
  OBVIOUS
<1>2. way \in {"list", "twice"} /\ (Later(in, i) => way = "twice")
  BY Zenon
<1>3. Replacing(in, i) = Config(in[i], TRUE, way)
  BY Zenon DEF Replacing
<1> HIDE DEF way
<1>4. Config(in[i], TRUE, way) \in Cfgs
  BY <1>1, <1>2, ConfigType DEF Hows
<1>5. /\ Config(in[i], TRUE, way).dirty = TRUE /\ Config(in[i], TRUE, way).pname = in[i].pname
      /\ Config(in[i], TRUE, way).how = way
  BY DEF Config
<1> QED
  BY <1>2, <1>3, <1>4, <1>5, Zenon

LEMMA ReplaceSound ==
  ASSUME NEW current \in Seq(Cfgs), NEW incoming \in Seq(Asks)
  PROVE  replace_cfgs(current, incoming) \in Seq(Cfgs) /\ Sound(replace_cfgs(current, incoming))
<1> DEFINE e == [i \in DOMAIN incoming |-> Replacing(incoming, i)]
<1>1. replace_cfgs(current, incoming) = e
  BY DEF replace_cfgs, Replacing, Later
<1>2. Len(incoming) \in Nat /\ DOMAIN incoming = 1..Len(incoming)
  OBVIOUS
<1>3. e \in Seq(Cfgs)
  <2>1. \A i \in 1..Len(incoming) : Replacing(incoming, i) \in Cfgs
    BY <1>2, ReplacingType
  <2>2. [i \in 1..Len(incoming) |-> Replacing(incoming, i)] \in Seq(Cfgs)
    BY <1>2, <2>1
  <2> QED
    BY <1>2, <2>2
<1>4. DOMAIN e = DOMAIN incoming /\ \A i \in DOMAIN incoming : e[i] = Replacing(incoming, i)
  OBVIOUS
<1> HIDE DEF e
<1>5. \A i \in DOMAIN e : Entry(e, i)
  BY <1>4, ReplacingType DEF Entry
<1>6. ASSUME NEW i \in DOMAIN e, NEW j \in DOMAIN e, i < j, e[i].pname = e[j].pname
      PROVE  Pair(e, i, j)
  <2>1. incoming[i].pname = incoming[j].pname
    BY <1>4, <1>6, ReplacingType
  <2>2. Later(incoming, i)
    BY <1>4, <1>6, <2>1 DEF Later
  <2>3. e[i].how = "twice"
    <3>1. i \in DOMAIN incoming /\ e[i] = Replacing(incoming, i)
      BY <1>4, <1>6
    <3>2. Replacing(incoming, i).how = "twice"
      BY <3>1, <2>2, ReplacingType, Zenon
    <3> QED
      BY <3>1, <3>2
  <2>4. e[j].dirty = TRUE
    BY <1>4, ReplacingType
  <2> QED
    BY <2>3, <2>4 DEF Pair
<1> QED
  BY <1>1, <1>3, <1>5, <1>6 DEF Sound

(* merge, append, update: each step leaves the list sound.                 *)
LEMMA OneSound ==
  ASSUME NEW c \in Seq(Cfgs), Sound(c), NEW a \in Asks
  PROVE  Sound(MergeOne(c, a)) /\ Sound(AppendOne(c, a)) /\ Sound(UpdateOne(c, a))
BY PutSound, ChangeSound DEF MergeOne, AppendOne, UpdateOne

LEMMA MergeSound ==
  ASSUME NEW current \in Seq(Cfgs), Sound(current), NEW incoming \in Seq(Asks)
  PROVE  /\ merge_cfgs(current, incoming) \in Seq(Cfgs) /\ Sound(merge_cfgs(current, incoming))
         /\ append_cfgs(current, incoming) \in Seq(Cfgs) /\ Sound(append_cfgs(current, incoming))
         /\ update_cfgs(current, incoming) \in Seq(Cfgs) /\ Sound(update_cfgs(current, incoming))
<1> DEFINE n == Len(incoming)
<1>1. n \in Nat /\ DOMAIN incoming = 1..n
  OBVIOUS
<1>2. \A k \in 1..n : incoming[k] \in Asks /\ k - 1 \in 0..n
  BY <1>1
<1>3. ASSUME NEW f, f[0] = current, \A k \in 0..n : f[k] \in Seq(Cfgs),
             \A k \in 1..n : \/ f[k] = MergeOne(f[k - 1], incoming[k])
                             \/ f[k] = AppendOne(f[k - 1], incoming[k])
                             \/ f[k] = UpdateOne(f[k - 1], incoming[k])
      PROVE  f[n] \in Seq(Cfgs) /\ Sound(f[n])
  <2> DEFINE T == {k \in 0..n : Sound(f[k])}
  <2>1. 0 \in T
    BY <1>1, <1>3
  <2>2. ASSUME NEW k \in 1..n, k - 1 \in T PROVE k \in T
    <3>1. f[k - 1] \in Seq(Cfgs) /\ Sound(f[k - 1])
      BY <1>2, <1>3, <2>2
    <3>2. /\ Sound(MergeOne(f[k - 1], incoming[k]))
          /\ Sound(AppendOne(f[k - 1], incoming[k]))
          /\ Sound(UpdateOne(f[k - 1], incoming[k]))
      BY <1>2, <3>1, OneSound
    <3>3. Sound(f[k])
      BY <1>3, <3>2
    <3> QED
      BY <1>1, <3>3
  <2> HIDE DEF T
  <2>3. \A k \in 0..n : k \in T
    BY <1>1, <2>1, <2>2, Along
  <2>4. n \in 0..n /\ n \in T
    BY <1>1, <2>3
  <2> QED
    BY <1>3, <2>4 DEF T
<1>4. PICK f : Merged(f, current, incoming)
  BY MergedRun
<1>5. PICK g : Appended(g, current, incoming)
  BY AppendedRun
<1>6. PICK e : Updated(e, current, incoming)
  BY UpdatedRun
<1> QED
  BY <1>3, <1>4, <1>5, <1>6 DEF Merged, Appended, Updated

(* remove: what is kept are entries of the list, in the order of the list. *)
Kept(s, c, k) ==
    \E place \in [DOMAIN s -> 1..k] :
        /\ \A i \in DOMAIN s : s[i] = c[place[i]]
        /\ \A i, j \in DOMAIN s : i < j => place[i] < place[j]

LEMMA KeptSound ==
  ASSUME NEW c \in Seq(Cfgs), Sound(c), NEW s \in Seq(Cfgs), NEW k \in 0..Len(c), Kept(s, c, k)
  PROVE  Sound(s)
<1>1. PICK place \in [DOMAIN s -> 1..k] :
        /\ \A i \in DOMAIN s : s[i] = c[place[i]]
        /\ \A i, j \in DOMAIN s : i < j => place[i] < place[j]
  BY DEF Kept
<1>2. \A i \in DOMAIN s : place[i] \in DOMAIN c
  <2>1. Len(c) \in Nat /\ DOMAIN c = 1..Len(c) /\ \A x \in 1..k : x \in 1..Len(c)
    OBVIOUS
  <2> QED
    BY <1>1, <2>1
<1>3. ASSUME NEW i \in DOMAIN s PROVE Entry(s, i)
  BY <1>1, <1>2 DEF Sound, Entry
<1>4. ASSUME NEW i \in DOMAIN s, NEW j \in DOMAIN s, i < j, s[i].pname = s[j].pname
      PROVE  Pair(s, i, j)
  <2>1. Pair(c, place[i], place[j])
    BY <1>1, <1>2, <1>4 DEF Sound
  <2> QED
    BY <1>1, <2>1 DEF Pair
<1> QED
  BY <1>3, <1>4 DEF Sound

LEMMA KeptStep ==
  ASSUME NEW c \in Seq(Cfgs), NEW k \in 1..Len(c), NEW s \in Seq(Cfgs), Kept(s, c, k - 1)
  PROVE  Kept(s, c, k) /\ Kept(Append(s, c[k]), c, k)
<1>1. PICK place \in [DOMAIN s -> 1..(k - 1)] :
        /\ \A i \in DOMAIN s : s[i] = c[place[i]]
        /\ \A i, j \in DOMAIN s : i < j => place[i] < place[j]
  BY DEF Kept
<1>2. /\ Len(c) \in Nat /\ k \in Nat /\ c[k] \in Cfgs /\ Len(s) \in Nat
      /\ DOMAIN s = 1..Len(s) /\ \A x \in 1..(k - 1) : x \in 1..k /\ x < k
  BY DOMAIN c = 1..Len(c)
<1>3. Kept(s, c, k)
  <2>1. place \in [DOMAIN s -> 1..k]
    BY <1>1, <1>2
  <2> QED
    BY <1>1, <2>1 DEF Kept
<1> DEFINE e == Append(s, c[k])
           p == [i \in 1..(Len(s) + 1) |-> IF i = Len(s) + 1 THEN k ELSE place[i]]
<1>4. /\ DOMAIN e = 1..(Len(s) + 1) /\ e[Len(s) + 1] = c[k]
      /\ \A i \in 1..(Len(s) + 1) : i # Len(s) + 1 => i \in DOMAIN s /\ e[i] = s[i]
  BY <1>2
<1>5. p \in [DOMAIN e -> 1..k]
  <2>1. ASSUME NEW i \in 1..(Len(s) + 1) PROVE p[i] \in 1..k
    <3>1. CASE i = Len(s) + 1
      BY <1>2, <3>1
    <3>2. CASE i # Len(s) + 1
      <4>1. i \in DOMAIN s /\ p[i] = place[i]
        BY <1>4, <3>2
      <4> QED
        BY <1>1, <1>2, <4>1
    <3> QED
      BY <3>1, <3>2
  <2> QED
    BY <1>4, <2>1
<1> HIDE DEF e
<1>6. \A i \in DOMAIN e : e[i] = c[p[i]]
  BY <1>1, <1>4
<1>7. ASSUME NEW i \in DOMAIN e, NEW j \in DOMAIN e, i < j PROVE p[i] < p[j]
  <2>1. i \in DOMAIN s /\ p[i] = place[i] /\ place[i] \in 1..(k - 1)
    BY <1>1, <1>2, <1>4, <1>7
  <2>2. CASE j = Len(s) + 1
    BY <1>2, <1>4, <2>1, <2>2
  <2>3. CASE j # Len(s) + 1
    <3>1. j \in DOMAIN s /\ p[j] = place[j]
      BY <1>4, <2>3
    <3> QED
      BY <1>1, <1>7, <2>1, <3>1
  <2> QED
    BY <2>2, <2>3
<1>8. Kept(e, c, k)
  BY <1>5, <1>6, <1>7 DEF Kept
<1> QED
  BY <1>3, <1>8 DEF e

LEMMA RemoveSound ==
  ASSUME NEW current \in Seq(Cfgs), Sound(current), NEW incoming \in Seq(Asks)
  PROVE  remove_cfgs(current, incoming) \in Seq(Cfgs) /\ Sound(remove_cfgs(current, incoming))
<1>1. PICK f : Removed(f, current, incoming)
  BY RemovedRun
<1> DEFINE n == Len(current)
           T == {k \in 0..n : Kept(f[k], current, k)}
<1>2. n \in Nat /\ DOMAIN current = 1..n
  OBVIOUS
<1>3. 0 \in T
  <2>1. f[0] = <<>> /\ DOMAIN <<>> = {}
    BY <1>1 DEF Removed
  <2>2. [i \in {} |-> i] \in [DOMAIN f[0] -> 1..0]
    BY <2>1
  <2>3. Kept(f[0], current, 0)
    BY <2>1, <2>2 DEF Kept
  <2> QED
    BY <1>2, <2>3
<1>4. ASSUME NEW k \in 1..n, k - 1 \in T PROVE k \in T
  <2>1. k - 1 \in 0..n /\ f[k - 1] \in Seq(Cfgs) /\ f[k] = KeepOne(incoming, f[k - 1], current[k])
    BY <1>1, <1>2 DEF Removed
  <2>2. Kept(f[k - 1], current, k) /\ Kept(Append(f[k - 1], current[k]), current, k)
    BY <1>4, <2>1, KeptStep
  <2>3. Kept(f[k], current, k)
    BY <2>1, <2>2 DEF KeepOne
  <2> QED
    BY <1>2, <2>3
<1> HIDE DEF T
<1>5. \A k \in 0..n : k \in T
  BY <1>2, <1>3, <1>4, Along
<1>6. n \in T /\ n \in 0..n
  BY <1>2, <1>5
<1>7. f[n] \in Seq(Cfgs) /\ f[n] = remove_cfgs(current, incoming)
  BY <1>1, <1>6 DEF Removed
<1> QED
  BY <1>6, <1>7, KeptSound DEF T
-----------------------------------------------------------------------------
(* update(): GL has each marked parameter behind it, and has the others as *)
(* it had them before.  An entry that counts as asked for in a list has no *)
(* marked one of its name behind it; if one before it is marked, so is it. *)
LEMMA HandedIs ==
  ASSUME cfgs \in Seq(Cfgs), params \in Calls, Sound(cfgs)
  PROVE  /\ Handed \in Calls
         /\ \A i \in DOMAIN cfgs :
               cfgs[i].how = "list" => Handed[cfgs[i].pname] = Applied(cfgs[i])
<1>1. PICK f : Handing(f)
  BY HandingRun
<1> DEFINE n == Len(cfgs)
           T == {k \in 0..n : \A i \in DOMAIN cfgs :
                    (cfgs[i].how = "list" /\ (i <= k \/ ~cfgs[i].dirty))
                    => f[k][cfgs[i].pname] = Applied(cfgs[i])}
<1>2. n \in Nat /\ DOMAIN cfgs = 1..n
  OBVIOUS
<1>3. 0 \in T
  <2>1. ASSUME NEW i \in DOMAIN cfgs, cfgs[i].how = "list", i <= 0 \/ ~cfgs[i].dirty
        PROVE  f[0][cfgs[i].pname] = Applied(cfgs[i])
    <3>1. ~cfgs[i].dirty
      BY <1>2, <2>1
    <3> QED
      BY <1>1, <2>1, <3>1 DEF Sound, Entry, Handing
  <2> QED
    BY <1>2, <2>1
<1>4. ASSUME NEW k \in 1..n, k - 1 \in T PROVE k \in T
  <2>1. /\ f[k] = HandOn(f[k - 1], cfgs[k]) /\ f[k - 1] \in Calls
        /\ k \in DOMAIN cfgs /\ cfgs[k] \in Cfgs
    BY <1>1, <1>2 DEF Handing
  <2>2. cfgs[k].pname \in DOMAIN f[k - 1]
    BY <2>1 DEF Calls, Cfgs
  <2> SUFFICES ASSUME NEW i \in DOMAIN cfgs, cfgs[i].how = "list", i <= k \/ ~cfgs[i].dirty
               PROVE  f[k][cfgs[i].pname] = Applied(cfgs[i])
    BY <1>2
  <2>3. CASE i = k /\ cfgs[k].dirty
    <3>1. f[k] = [f[k - 1] EXCEPT ![cfgs[k].pname] = Applied(cfgs[k])]
      BY <2>1, <2>3 DEF HandOn
    <3> QED
      BY <2>2, <2>3, <3>1
  <2>4. CASE i = k /\ ~cfgs[k].dirty
    <3>1. f[k] = f[k - 1]
      BY <2>1, <2>4 DEF HandOn
    <3> QED
      BY <1>4, <2>4, <3>1
  <2>5. CASE i # k
    <3>1. f[k - 1][cfgs[i].pname] = Applied(cfgs[i])
      <4>1. i <= k - 1 \/ ~cfgs[i].dirty
        BY <1>2, <2>5
      <4> QED
        BY <1>4, <4>1
    <3>2. CASE ~cfgs[k].dirty
      BY <2>1, <3>1, <3>2 DEF HandOn
    <3>3. CASE cfgs[k].dirty
      <4>1. cfgs[i].pname # cfgs[k].pname
        <5>1. cfgs[k].how # "one"
          BY <2>1, <3>3 DEF Sound, Entry
        <5>2. CASE i < k
          BY <2>1, <5>1, <5>2 DEF Sound, Pair
        <5>3. CASE k < i
          <6>1. ~(i <= k)
            BY <1>2, <5>3
          <6> QED
            BY <2>1, <3>3, <5>3, <6>1 DEF Sound, Pair
        <5> QED
          BY <1>2, <2>5, <5>2, <5>3
      <4>2. f[k] = [f[k - 1] EXCEPT ![cfgs[k].pname] = Applied(cfgs[k])]
        BY <2>1, <3>3 DEF HandOn
      <4> QED
        BY <3>1, <4>1, <4>2
    <3> QED
      BY <3>2, <3>3
  <2> QED
    BY <2>3, <2>4, <2>5
<1> HIDE DEF T
<1>5. \A k \in 0..n : k \in T
  BY <1>2, <1>3, <1>4, Along
<1>6. n \in T /\ n \in 0..n
  BY <1>2, <1>5
<1> QED
  BY <1>1, <1>2, <1>6 DEF T, Handing
-----------------------------------------------------------------------------
ConfInv ==
    /\ cfgs \in Seq(Cfgs) /\ Len(cfgs) <= MaxCfgs /\ Sound(cfgs)
    /\ params \in Calls /\ dirty \in BOOLEAN
    /\ {bind_id, target} \subseteq Textures \cup {"none"}
    /\ ~dirty => \A i \in DOMAIN cfgs : ~cfgs[i].dirty

LEMMA InputType == ASSUME NEW in \in Inputs PROVE in \in Seq(Asks)
BY ConfigAssumption DEF Asks

LEMMA ConfStart == ConfInit => ConfInv
<1> SUFFICES ASSUME ConfInit PROVE ConfInv
  OBVIOUS
<1>1. [p \in Pnames |-> <<"default", Param("I1", 0)>>] \in Calls
  <2>1. Param("I1", 0) \in Params
    BY DEF Param, Params
  <2> QED
    BY <2>1 DEF Calls, Call
<1>2. cfgs \in Seq(Cfgs) /\ Len(cfgs) <= MaxCfgs /\ Sound(cfgs) /\ DOMAIN cfgs = {}
  BY ConfigAssumption, NoneSound DEF ConfInit
<1> QED
  BY <1>1, <1>2 DEF ConfInit, ConfInv

LEMMA ConfSetConfig ==
  ASSUME ConfInv, NEW a \in Asks, SetConfig(a) PROVE ConfInv'
<1> DEFINE v == Config(a, FALSE, "one")
<1>1. v \in Cfgs /\ v.dirty = FALSE /\ v.how = "one"
  BY ConfigType DEF Config, Hows
<1> HIDE DEF v
<1> DEFINE c == cfgs
<1>2. cfgs' = Append(c, v) /\ params' = params /\ Len(c) < MaxCfgs
  BY DEF SetConfig, v
<1>3. c \in Seq(Cfgs) /\ Sound(c)
  BY DEF ConfInv
<1>4. /\ DOMAIN cfgs' = 1..(Len(c) + 1) /\ Len(c) \in Nat /\ DOMAIN c = 1..Len(c)
      /\ cfgs'[Len(c) + 1] = v /\ \A i \in DOMAIN c : cfgs'[i] = c[i]
      /\ cfgs' \in Seq(Cfgs) /\ Len(cfgs') = Len(c) + 1
  BY <1>1, <1>2, <1>3
<1> HIDE DEF c
<1>5. ASSUME NEW i \in DOMAIN cfgs'
      PROVE  (i = Len(c) + 1 /\ cfgs'[i] = v) \/ (i \in DOMAIN c /\ cfgs'[i] = c[i])
  BY <1>4
<1>6. Sound(cfgs)'
  <2>1. \A i \in DOMAIN cfgs' :
          /\ cfgs'[i].dirty => cfgs'[i].how \in {"list", "twice"}
          /\ cfgs'[i].how = "list" /\ ~cfgs'[i].dirty
             => params'[cfgs'[i].pname] = Applied(cfgs'[i])
    BY <1>1, <1>2, <1>3, <1>5 DEF Sound, Entry
  <2>2. ASSUME NEW i \in DOMAIN cfgs', NEW j \in DOMAIN cfgs', i < j,
               cfgs'[i].pname = cfgs'[j].pname
        PROVE  Pair(cfgs', i, j)
    <3>1. i \in DOMAIN c /\ cfgs'[i] = c[i]
      BY <1>4, <2>2
    <3>2. CASE cfgs'[j] = v
      BY <1>1, <3>2 DEF Pair
    <3>3. CASE j \in DOMAIN c /\ cfgs'[j] = c[j]
      BY <1>3, <2>2, <3>1, <3>3 DEF Sound, Pair
    <3> QED
      BY <1>5, <3>2, <3>3
  <2> QED
    BY <2>1, <2>2 DEF Sound, Entry, Pair, Applied
<1>7. Len(cfgs') <= MaxCfgs
  BY <1>2, <1>4, ConfigAssumption
<1>8. ~dirty' => \A i \in DOMAIN cfgs' : ~cfgs'[i].dirty
  BY <1>1, <1>5 DEF ConfInv, SetConfig, c
<1> QED
  BY <1>4, <1>6, <1>7, <1>8 DEF ConfInv, SetConfig

LEMMA ConfSetConfigs ==
  ASSUME ConfInv, NEW in \in Inputs, NEW policy \in Policies, SetConfigs(in, policy)
  PROVE  ConfInv'
<1>1. in \in Seq(Asks)
  BY InputType
<1>2. cfgs \in Seq(Cfgs) /\ Sound(cfgs)
  BY DEF ConfInv
<1>3. PICK c : /\ cfgs' = c
               /\ c \in {replace_cfgs(cfgs, in), merge_cfgs(cfgs, in), append_cfgs(cfgs, in),
                         update_cfgs(cfgs, in), remove_cfgs(cfgs, in)}
  BY DEF SetConfigs, Policies
<1>4. c \in Seq(Cfgs) /\ Sound(c)
  <2>1. replace_cfgs(cfgs, in) \in Seq(Cfgs) /\ Sound(replace_cfgs(cfgs, in))
    BY <1>1, <1>2, ReplaceSound
  <2>2. /\ merge_cfgs(cfgs, in) \in Seq(Cfgs) /\ Sound(merge_cfgs(cfgs, in))
        /\ append_cfgs(cfgs, in) \in Seq(Cfgs) /\ Sound(append_cfgs(cfgs, in))
        /\ update_cfgs(cfgs, in) \in Seq(Cfgs) /\ Sound(update_cfgs(cfgs, in))
    BY <1>1, <1>2, MergeSound
  <2>3. remove_cfgs(cfgs, in) \in Seq(Cfgs) /\ Sound(remove_cfgs(cfgs, in))
    BY <1>1, <1>2, RemoveSound
  <2> QED
    BY <1>3, <2>1, <2>2, <2>3
<1>5. Sound(cfgs)'
  BY <1>3, <1>4 DEF Sound, Entry, Pair, SetConfigs, Applied
<1> QED
  BY <1>3, <1>4, <1>5 DEF ConfInv, SetConfigs

LEMMA ConfBinds ==
  ASSUME ConfInv, NEW t \in Textures, Bind(t) \/ Activate(t) PROVE ConfInv'
<1>1. cfgs' = cfgs /\ params' = params /\ dirty' = dirty
  BY DEF Bind, Activate
<1>2. {bind_id', target'} \subseteq Textures \cup {"none"}
  BY DEF ConfInv, Bind, Activate, BindTexture
<1> QED
  BY <1>1, <1>2 DEF ConfInv, Sound, Entry, Pair, Applied

LEMMA ConfUpdate == ASSUME ConfInv, Update PROVE ConfInv'
<1> DEFINE How(i) == IF target' # "mine" /\ cfgs[i].how = "list" THEN "astray" ELSE cfgs[i].how
           New(i) == IF cfgs[i].dirty THEN Config(cfgs[i], FALSE, How(i)) ELSE cfgs[i]
<1>1. cfgs \in Seq(Cfgs) /\ Sound(cfgs) /\ params \in Calls
  BY DEF ConfInv
<1>2. /\ Len(cfgs) \in Nat /\ DOMAIN cfgs = 1..Len(cfgs)
      /\ \A i \in DOMAIN cfgs : i \in Nat /\ cfgs[i] \in Cfgs
  BY <1>1
<1>3. cfgs' = [i \in DOMAIN cfgs |-> New(i)] /\ dirty' = FALSE
  BY Zenon DEF Update
<1>4. ASSUME NEW i \in DOMAIN cfgs
      PROVE  /\ New(i) \in Cfgs /\ ~New(i).dirty
             /\ New(i).pname = cfgs[i].pname /\ Applied(New(i)) = Applied(cfgs[i])
             /\ New(i).how = "list" => cfgs[i].how = "list"
             /\ New(i).how # "one" => cfgs[i].how # "one"
             /\ cfgs[i].how = "twice" => New(i).how = "twice"
             /\ New(i).how = "list" /\ target' # "mine" => ~cfgs[i].dirty
  <2>1. cfgs[i] \in Cfgs
    BY <1>2
  <2>2. New(i) = IF cfgs[i].dirty
                 THEN [pname |-> cfgs[i].pname, param |-> cfgs[i].param, dirty |-> FALSE,
                       how |-> How(i)]
                 ELSE cfgs[i]
    BY DEF Config
  <2>3. How(i) \in Hows
    BY <2>1 DEF Cfgs, Hows
  <2> HIDE DEF New
  <2> QED
    BY <2>1, <2>2, <2>3 DEF Cfgs, Applied
<1> HIDE DEF New
<1>5. cfgs' \in Seq(Cfgs) /\ Len(cfgs') = Len(cfgs) /\ DOMAIN cfgs' = DOMAIN cfgs
  BY <1>2, <1>3, <1>4
<1>6. params' = IF target' # "mine" THEN params ELSE Handed
  BY Zenon DEF Update, Handed
<1>7. /\ Handed \in Calls
      /\ \A i \in DOMAIN cfgs :
            cfgs[i].how = "list" => Handed[cfgs[i].pname] = Applied(cfgs[i])
  BY <1>1, HandedIs
<1>8. \A i \in DOMAIN cfgs : cfgs'[i] = New(i)
  BY <1>3
<1>9. ASSUME NEW i \in DOMAIN cfgs, New(i).how = "list"
      PROVE  params'[New(i).pname] = Applied(New(i))
  <2>1. CASE target' = "mine"
    BY <1>4, <1>6, <1>7, <1>9, <2>1
  <2>2. CASE target' # "mine"
    BY <1>1, <1>4, <1>6, <1>9, <2>2 DEF Sound, Entry
  <2> QED
    BY <2>1, <2>2
<1>10. ASSUME NEW i \in DOMAIN cfgs, NEW j \in DOMAIN cfgs, i < j, New(i).pname = New(j).pname
       PROVE  New(j).how # "one" => New(i).how = "twice"
  BY <1>1, <1>4, <1>10 DEF Sound, Pair
<1>11. Sound(cfgs)'
  <2>1. \A i \in DOMAIN cfgs' :
          ~cfgs'[i].dirty /\ (cfgs'[i].how = "list" => params'[cfgs'[i].pname] = Applied(cfgs'[i]))
    BY <1>4, <1>5, <1>8, <1>9
  <2>2. \A i, j \in DOMAIN cfgs' :
           i < j /\ cfgs'[i].pname = cfgs'[j].pname
           => (cfgs'[j].how # "one" => cfgs'[i].how = "twice")
    BY <1>5, <1>8, <1>10
  <2> QED
    BY <2>1, <2>2 DEF Sound, Entry, Pair, Applied
<1>12. {bind_id', target'} \subseteq Textures \cup {"none"}
  <2>1. bind_id' = "mine" /\ target' \in {target, "mine"}
    BY Zenon DEF Update, BindTexture
  <2> QED
    BY <2>1 DEF ConfInv, Textures
<1>13. \A i \in DOMAIN cfgs' : ~cfgs'[i].dirty
  BY <1>4, <1>5, <1>8
<1> QED
  BY <1>3, <1>5, <1>6, <1>7, <1>11, <1>12, <1>13 DEF ConfInv

LEMMA ConfStep == ConfInv /\ [ConfNext]_confVars => ConfInv'
<1> SUFFICES ASSUME ConfInv, [ConfNext]_confVars PROVE ConfInv'
  OBVIOUS
<1>1. CASE UNCHANGED confVars
  BY <1>1 DEF ConfInv, confVars, Sound, Entry, Pair, Applied
<1>2. ASSUME NEW in \in Inputs, NEW i \in DOMAIN in, SetConfig(in[i]) PROVE ConfInv'
  <2>1. in[i] \in Asks
    BY <1>2, InputType
  <2> QED
    BY <1>2, <2>1, ConfSetConfig
<1>3. ASSUME NEW in \in Inputs, NEW policy \in Policies, SetConfigs(in, policy) PROVE ConfInv'
  BY <1>3, ConfSetConfigs
<1>4. ASSUME NEW t \in Textures, Bind(t) \/ Activate(t) PROVE ConfInv'
  BY <1>4, ConfBinds
<1>5. CASE Update
  BY <1>5, ConfUpdate
<1> QED
  BY <1>1, <1>2, <1>3, <1>4, <1>5 DEF ConfNext

LEMMA ConfGives == ConfInv => ConfTypeOK /\ Configured
<1> SUFFICES ASSUME ConfInv PROVE ConfTypeOK /\ Configured
  OBVIOUS
<1>1. ASSUME NEW i \in DOMAIN cfgs PROVE cfgs[i] \in Cfgs
  BY <1>1 DEF ConfInv
<1>2. ConfTypeOK
  BY <1>1 DEF ConfTypeOK, ConfInv, Cfgs, Hows
<1>3. ASSUME ~dirty, NEW i \in DOMAIN cfgs, cfgs[i].how = "list", Fits(cfgs[i])
      PROVE  LET call == [I1 |-> "i", F1 |-> "f", I4 |-> "Iiv", F4 |-> "fv"]
             IN  params[cfgs[i].pname] = <<call[cfgs[i].param.type], cfgs[i].param>>
  <2>1. params[cfgs[i].pname] = Applied(cfgs[i])
    BY <1>3 DEF ConfInv, Sound, Entry
  <2>2. cfgs[i].param.type \in (IF cfgs[i].pname = Border THEN {"I4", "F4"} ELSE {"I1", "F1"})
    BY <1>3 DEF Fits
  <2> QED
    BY <2>1, <2>2 DEF Applied
<1> QED
  BY <1>2, <1>3 DEF Configured

LEMMA ConfCorrect == LibSpec => []ConfInv
<1>1. LibInit => ConfInv
  BY ConfStart DEF LibInit
<1>2. ConfInv /\ [LibNext]_libVars => ConfInv'
  <2>1. [LibNext]_libVars => [ConfNext]_confVars
    BY DEF LibNext, libVars
  <2> QED
    BY <2>1, ConfStep
<1> QED
  BY <1>1, <1>2, PTL DEF LibSpec

(* After an update() GL has every parameter that was asked for in a list,  *)
(* for any names and any lists, however long, with names that come twice   *)
(* and types that do not fit, in whichever order they came; but for the    *)
(* entries that Configured leaves out.                                     *)
THEOREM ConfiguredCorrect == LibSpec => []Configured
<1>1. ConfInv => Configured
  BY ConfGives
<1> QED
  BY <1>1, ConfCorrect, PTL

(* The types of both sides of the library, copied models included: as many *)
(* vertex arrays as meshes, and never more than two for each model.        *)
THEOREM LibTypeCorrect == Few => (LibSpec => []LibTypeOK)
<1>1. TexInv /\ ArraysInv => TypeOK
  <2> SUFFICES ASSUME TexInv, ArraysInv PROVE TypeOK
    OBVIOUS
  <2>1. RM!TypeOK
    <3>1. RP!TypeOK
      BY DEF TexInv, PoolInv, RP!FewInv, RP!IInv
    <3> QED
      BY <3>1 DEF RP!TypeOK, RM!TypeOK, RP!Slots, RM!Slots, RP!Handles, RM!Handles,
                    RP!Errors, RM!Errors
  <2>2. cache \in [Models -> [Keys -> 0..MaxObj]]
    <3>1. \A x \in 0..made : x \in 0..MaxObj
      BY PoolTypes DEF TexInv
    <3> QED
      BY <3>1 DEF TexInv, ModelTypes
  <2>3. \A m \in Models : Handles(m) \subseteq Objects
    BY DEF TexInv, ModelTypes, Handles
  <2>4. bindId \in 0..MaxObj
    BY PoolConstants DEF TexInv, NamesInv, Objects
  <2>5. vaos \subseteq Arrays
    BY DEF ArraysInv, Owned
  <2> QED
    BY <2>1, <2>2, <2>3, <2>4, <2>5
       DEF TypeOK, ArraysInv, TexInv, GlTypes, ModelTypes, NamesInv, CallInv
<1>2. ConfInv => ConfTypeOK
  BY ConfGives
<1> QED
  BY <1>1, <1>2, TexCorrect, ArraysCorrect, ConfCorrect, LibraryIsModels, PTL DEF LibTypeOK
=============================================================================
