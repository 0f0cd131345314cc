--------------------------- MODULE ModelTextures ---------------------------
(***************************************************************************)
(* Models, the textures they load, and the two tables these are kept in:   *)
(* the handle pool (module ResourceManager, TextureMgr() in the code) and  *)
(* the texture units (TextureUnit).  One thread owns the GL context, so a  *)
(* load, a draw or a destruction runs to its end; its steps are separate   *)
(* actions because each uses the pool once.  The GL server is external:    *)
(* its names, its active unit, what is bound to each unit and which image  *)
(* a name holds.                                                           *)
(***************************************************************************)
EXTENDS Naturals, Sequences, FiniteSets

CONSTANTS
    Models,              \* Model objects
    Keys,                \* normalised texture paths
    Scenes,              \* scenes: sequences of meshes, sequences of keys
    NUnits,              \* TextureUnit::_maxUnits
    MaxObj, MaxSlots, GenMod,   \* bounds of the pool, see ResourceManager
    Copies,              \* the Models that may be made by copying (SKL_DEFAULT_COPYMOVE)
    Reloads              \* may a Model that is loaded be loaded again

ASSUME PoolAssumption ==
    /\ MaxSlots \in Nat /\ MaxObj \in Nat
    /\ GenMod \in Nat /\ \E k \in 1..GenMod : GenMod = 2 * k

ASSUME TexturesAssumption ==
    /\ NUnits \in Nat \ {0}
    /\ IsFiniteSet(Models) /\ IsFiniteSet(Keys)
    /\ \A sc \in Scenes : sc \in Seq(Seq(Keys)) /\ Len(sc) <= 2
    /\ Copies \subseteq Models /\ Reloads \in BOOLEAN

VARIABLES
    size, generation, pres, free, strong, ec, made, issued, bumps, stamp,
    id,          \* _tex.ID of texture o
    unit,        \* _unitPos of texture o, NoUnit for SIZE_T_MAX
    keyOf,       \* the path texture o was acquired for
    bindId,      \* Texture2D::_bind_id
    table,       \* TextureUnit::_units
    activePos,   \* TextureUnit::_activePos
    names,       \* GL: texture names in use
    image,       \* GL: the image each name holds
    active,      \* GL: the active texture unit
    bound,       \* GL: the name bound to each unit
    state,       \* life of each model
    cache,       \* _loadedTex: the handle cached for each key, 0 for none
    meshes,      \* _meshes: for each mesh its texture handles
    arrays,      \* _meshes: for each mesh the GL vertex array of its _res
    vaos,        \* GL: the vertex arrays in use
    copied,      \* history: the models made by copying, and their originals
    op, cur, rest, hs, h, todo    \* the running call and its locals

poolVars == <<size, generation, pres, free, strong, ec, made, issued, bumps, stamp>>
texVars == <<id, unit, keyOf>>
unitVars == <<table, activePos>>
glVars == <<names, image, active, bound>>
meshVars == <<meshes, arrays, vaos>>
modelVars == <<state, cache, meshVars, copied>>
callVars == <<op, cur, rest, hs, h, todo>>
vars == <<poolVars, texVars, bindId, unitVars, glVars, modelVars, callVars>>

RM == INSTANCE ResourceManager WITH Clients <- {"loader"}

Objects == 1..MaxObj
Units == 0..(NUnits - 1)
Arrays == 1..(2 * Cardinality(Models))     \* a scene has two meshes at most
NoUnit == NUnits
NoImage == "blank"
Empty == [k \in Keys |-> 0]
Valid(o) == RM!IsValid(issued[o])

(* What a finished step hands to the next one of the same call. *)
Goto(l) == op' = l

Init ==
    /\ RM!Init
    /\ id = [o \in Objects |-> 0]
    /\ unit = [o \in Objects |-> NoUnit]
    /\ keyOf = [o \in Objects |-> NoImage]
    /\ bindId = 0
    /\ table = [u \in Units |-> 0]
    /\ activePos = NoUnit
    /\ names = {}
    /\ image = [n \in Objects |-> NoImage]
    /\ active = 0
    /\ bound = [u \in Units |-> 0]
    /\ state = [m \in Models |-> "none"]
    /\ cache = [m \in Models |-> Empty]
    /\ meshes = [m \in Models |-> <<>>]
    /\ arrays = [m \in Models |-> <<>>] /\ vaos = {}
    /\ copied = {}
    /\ op = "idle" /\ cur = CHOOSE m \in Models : TRUE
    /\ rest = <<>> /\ hs = <<>> /\ h = 0 /\ todo = {}
-----------------------------------------------------------------------------
(* TextureUnit::release *)
ReleaseUnitSentinel(u) ==                  \* mutant: the wrong "free" value
    /\ table' = [table EXCEPT ![u] = MaxObj + 1]
    /\ activePos' = IF activePos = u THEN NoUnit ELSE activePos

ReleaseUnit(u) ==
    /\ table' = [table EXCEPT ![u] = 0]
    /\ activePos' = IF activePos = u THEN NoUnit ELSE activePos

(* glDeleteTextures: a deleted name is unbound from every unit. *)
DeleteName(n) ==
    /\ names' = names \ {n}
    /\ image' = [image EXCEPT ![n] = NoImage]
    /\ bound' = [u \in Units |-> IF bound[u] = n THEN 0 ELSE bound[u]]

BindKept(o) == UNCHANGED bindId            \* mutant of ForgetBind
ForgetBind(o) == bindId' = IF bindId = id[o] THEN 0 ELSE bindId

(* ~Texture2D for texture o, once nothing owns it any more.  A texture     *)
(* that never got a unit keeps its GL name.                                *)
DestroyTexture(o) ==
    /\ IF unit[o] = NoUnit
       THEN UNCHANGED <<unitVars, names, image, bound>>
       ELSE ReleaseUnit(unit[o]) /\ DeleteName(id[o])
    /\ ForgetBind(o)
    /\ UNCHANGED active
-----------------------------------------------------------------------------
(* ~Mesh2D for each mesh of m.  It deletes what is in _res, also if a copy *)
(* of the mesh has the same _res.                                          *)
ClearMeshes(m) ==
    /\ meshes' = [meshes EXCEPT ![m] = <<>>]
    /\ arrays' = [arrays EXCEPT ![m] = <<>>]
    /\ vaos' = vaos \ {arrays[m][i] : i \in DOMAIN arrays[m]}

(* Model::load: what was loaded before is forgotten, not released; a scene *)
(* that cannot be read is one without meshes.                              *)
StartLoad(m, scene) ==
    /\ op = "idle"
    /\ state[m] = "none" \/ (Reloads /\ state[m] = "ready")
    /\ made + Cardinality(Keys) <= MaxObj
    /\ state' = [state EXCEPT ![m] = "ready"]
    /\ cache' = [cache EXCEPT ![m] = Empty]
    /\ ClearMeshes(m)
    /\ Goto("next") /\ cur' = m /\ rest' = scene /\ hs' = <<>>
    /\ UNCHANGED <<poolVars, texVars, bindId, unitVars, glVars, copied, h, todo>>

(* The loop of loadMaterialTextures: a path seen before is not reloaded.   *)
CachedTexture ==
    /\ op = "next" /\ rest # <<>> /\ Head(rest) # <<>>
    /\ LET k == Head(Head(rest)) IN
       /\ cache[cur][k] # 0
       /\ hs' = Append(hs, cache[cur][k])
    /\ rest' = <<Tail(Head(rest))>> \o Tail(rest)
    /\ UNCHANGED <<poolVars, texVars, bindId, unitVars, glVars, modelVars, op, cur, h, todo>>

(* TextureMgr().acquire() makes a Texture2D, whose constructor takes a name.*)
AcquireTexture ==
    /\ op = "next" /\ rest # <<>> /\ Head(rest) # <<>>
    /\ cache[cur][Head(Head(rest))] = 0
    /\ RM!Acquire
    /\ h' = made + 1
    /\ LET n == CHOOSE x \in Objects \ names : \A y \in Objects \ names : x <= y IN
       /\ names' = names \cup {n}
       /\ id' = [id EXCEPT ![made + 1] = n]
    /\ keyOf' = [keyOf EXCEPT ![made + 1] = Head(Head(rest))]
    /\ Goto("acquired")
    /\ UNCHANGED <<unit, bindId, unitVars, image, active, bound, modelVars, cur, rest, hs, todo>>

FetchTexture ==
    /\ op = "acquired"
    /\ RM!Get("loader", issued[h])
    /\ Goto("fetched")
    /\ UNCHANGED <<texVars, bindId, unitVars, glVars, modelVars, cur, rest, hs, h, todo>>

(* Texture2D::load found the image; it binds and uploads to what is bound. *)
(* The bind() of the configuration chain that follows changes nothing.     *)
LoadImage ==
    /\ op = "fetched"
    /\ bindId' = id[h]
    /\ bound' = IF bindId = id[h] THEN bound ELSE [bound EXCEPT ![active] = id[h]]
    /\ image' = IF bound'[active] = 0 THEN image
                ELSE [image EXCEPT ![bound'[active]] = keyOf[h]]
    /\ Goto("loaded")
    /\ UNCHANGED <<poolVars, texVars, unitVars, names, active, modelVars, cur, rest, hs, h, todo>>

LoadFails ==
    /\ op = "fetched"
    /\ Goto("failing")
    /\ UNCHANGED <<poolVars, texVars, bindId, unitVars, glVars, modelVars, cur, rest, hs, h, todo>>

AnyUnits == Units                          \* mutant of FreeUnits
FreeUnits == {u \in Units : table[u] = 0}

(* TextureUnit::acquire with no position given, then the texture is cached.*)
AcquireUnit ==
    /\ op = "loaded" /\ FreeUnits # {}
    /\ LET u == CHOOSE x \in FreeUnits : \A y \in FreeUnits : x <= y IN
       /\ table' = [table EXCEPT ![u] = id[h]]
       /\ unit' = [unit EXCEPT ![h] = u]
    /\ cache' = [cache EXCEPT ![cur][keyOf[h]] = h]
    /\ hs' = Append(hs, h)
    /\ rest' = <<Tail(Head(rest))>> \o Tail(rest)
    /\ RM!Drop("loader")
    /\ Goto("next")
    /\ UNCHANGED <<id, keyOf, bindId, activePos, glVars, state, meshVars, copied, cur, h, todo>>

UnitsExhausted ==
    /\ op = "loaded" /\ FreeUnits = {}
    /\ Goto("failing")
    /\ UNCHANGED <<poolVars, texVars, bindId, unitVars, glVars, modelVars, cur, rest, hs, h, todo>>

ReleaseForgotten ==                        \* mutant of ReleaseFailed
    /\ op = "failing"
    /\ Goto("unwind")
    /\ UNCHANGED <<poolVars, texVars, bindId, unitVars, glVars, modelVars, cur, rest, hs, h, todo>>

ReleaseFailed ==
    /\ op = "failing"
    /\ RM!Release(issued[h])
    /\ Goto("unwind")
    /\ UNCHANGED <<texVars, bindId, unitVars, glVars, modelVars, cur, rest, hs, h, todo>>

(* The local shared_ptr goes out of scope and takes the texture with it;   *)
(* the error ends the load with the meshes finished so far.                *)
Unwind ==
    /\ op = "unwind"
    /\ RM!Drop("loader")
    /\ DestroyTexture(h)
    /\ Goto("idle") /\ rest' = <<>> /\ hs' = <<>>
    /\ UNCHANGED <<texVars, modelVars, cur, h, todo>>

FinishMesh ==
    /\ op = "next" /\ rest # <<>> /\ Head(rest) = <<>>
    /\ meshes' = [meshes EXCEPT ![cur] = Append(@, hs)]
    /\ LET n == CHOOSE x \in Arrays \ vaos : \A y \in Arrays \ vaos : x <= y IN
       /\ arrays' = [arrays EXCEPT ![cur] = Append(@, n)]
       /\ vaos' = vaos \cup {n}
    /\ hs' = <<>> /\ rest' = Tail(rest)
    /\ UNCHANGED <<poolVars, texVars, bindId, unitVars, glVars>>
    /\ UNCHANGED <<state, cache, copied, op, cur, h, todo>>

FinishLoad ==
    /\ op = "next" /\ rest = <<>>
    /\ Goto("idle")
    /\ UNCHANGED <<poolVars, texVars, bindId, unitVars, glVars, modelVars, cur, rest, hs, h, todo>>
-----------------------------------------------------------------------------
(* Model::Draw, then Mesh2D::Draw for each mesh. *)
StartDraw(m) ==
    /\ op = "idle" /\ state[m] = "ready"
    /\ Goto("draw") /\ cur' = m /\ rest' = meshes[m] /\ hs' = <<>>
    /\ UNCHANGED <<poolVars, texVars, bindId, unitVars, glVars, modelVars, h, todo>>

Drawing == op = "draw" /\ rest # <<>>

BindUnlessCached(o, u) ==                  \* mutant: binds through the cache
    IF bindId = id[o] THEN bound ELSE [bound EXCEPT ![u] = id[o]]
BindTo(o, u) == [bound EXCEPT ![u] = id[o]]

(* Texture2D::activate: selects the unit unless it believes it is selected *)
(* already, and binds, past the cache in bindId.                           *)
ActivateTexture ==
    /\ Drawing /\ Head(rest) # <<>>
    /\ LET o == Head(Head(rest))
           p == unit[o]
           known == activePos = p \/ table[p] = 0
       IN  /\ Valid(o) /\ p # NoUnit
           /\ activePos' = IF known THEN activePos ELSE p
           /\ active' = IF known THEN active ELSE p
           /\ bound' = BindTo(o, active')
           /\ hs' = Append(hs, o)
    /\ rest' = <<Tail(Head(rest))>> \o Tail(rest)
    /\ UNCHANGED <<poolVars, texVars, bindId, table, names, image, modelVars, op, cur, h, todo>>

(* A handle that leads nowhere ends the draw without resetting the unit.   *)
DrawFails ==
    /\ Drawing /\ Head(rest) # <<>>
    /\ LET o == Head(Head(rest)) IN ~Valid(o) \/ unit[o] = NoUnit
    /\ Goto("idle") /\ rest' = <<>> /\ hs' = <<>>
    /\ UNCHANGED <<poolVars, texVars, bindId, unitVars, glVars, modelVars, cur, h, todo>>

DrawElements ==
    /\ Drawing /\ Head(rest) = <<>>
    /\ active' = 0
    /\ rest' = Tail(rest) /\ hs' = <<>>
    /\ UNCHANGED <<poolVars, texVars, bindId, unitVars, names, image, bound, modelVars>>
    /\ UNCHANGED <<op, cur, h, todo>>

FinishDraw ==
    /\ op = "draw" /\ rest = <<>>
    /\ Goto("idle")
    /\ UNCHANGED <<poolVars, texVars, bindId, unitVars, glVars, modelVars, cur, rest, hs, h, todo>>
-----------------------------------------------------------------------------
(* ~Model: releaseOwnedTextures, then the members. *)
StartDestroy(m) ==
    /\ op = "idle" /\ state[m] = "ready"
    /\ Goto("release") /\ cur' = m
    /\ todo' = {k \in Keys : cache[m][k] # 0}
    /\ UNCHANGED <<poolVars, texVars, bindId, unitVars, glVars, modelVars, rest, hs, h>>

ReleaseOwned(k) ==
    /\ op = "release" /\ k \in todo
    /\ LET o == cache[cur][k] IN
       /\ RM!UseCount(issued[o]) <= 1
       /\ RM!Release(issued[o])
       /\ IF Valid(o)
          THEN DestroyTexture(o) /\ cache' = [cache EXCEPT ![cur][k] = 0]
          ELSE UNCHANGED <<bindId, unitVars, glVars, cache>>
    /\ todo' = todo \ {k}
    /\ UNCHANGED <<texVars, state, meshVars, copied, op, cur, rest, hs, h>>

FinishDestroy ==
    /\ op = "release" /\ todo = {}
    /\ Goto("idle")
    /\ state' = [state EXCEPT ![cur] = "dead"]
    /\ cache' = [cache EXCEPT ![cur] = Empty]
    /\ ClearMeshes(cur)
    /\ UNCHANGED <<poolVars, texVars, bindId, unitVars, glVars, copied, cur, rest, hs, h, todo>>

(* The defaulted copy constructor copies handles, not ownership. *)
CopyModel(m, n) ==
    /\ n \in Copies /\ op = "idle" /\ state[m] = "ready" /\ state[n] = "none"
    /\ state' = [state EXCEPT ![n] = "ready"]
    /\ cache' = [cache EXCEPT ![n] = cache[m]]
    /\ meshes' = [meshes EXCEPT ![n] = meshes[m]]
    /\ arrays' = [arrays EXCEPT ![n] = arrays[m]]
    /\ copied' = copied \cup {m, n}
    /\ UNCHANGED <<poolVars, texVars, bindId, unitVars, glVars, vaos, callVars>>
-----------------------------------------------------------------------------
Load ==
    \/ \E m \in Models, sc \in Scenes : StartLoad(m, sc)
    \/ CachedTexture \/ AcquireTexture \/ FetchTexture \/ LoadImage \/ LoadFails
    \/ AcquireUnit \/ UnitsExhausted \/ ReleaseFailed \/ Unwind
    \/ FinishMesh \/ FinishLoad

Draw ==
    \/ \E m \in Models : StartDraw(m)
    \/ ActivateTexture \/ DrawFails \/ DrawElements \/ FinishDraw

Destroy ==
    \/ \E m \in Models : StartDestroy(m)
    \/ \E k \in Keys : ReleaseOwned(k)
    \/ FinishDestroy

Next == Load \/ Draw \/ Destroy \/ \E m, n \in Models : CopyModel(m, n)

Spec == Init /\ [][Next]_vars
-----------------------------------------------------------------------------
Living == {m \in Models : state[m] = "ready"}
Cached(m) == {cache[m][k] : k \in Keys} \ {0}
Handles(m) == UNION {{meshes[m][i][j] : j \in DOMAIN meshes[m][i]} : i \in DOMAIN meshes[m]}
Alive(o) == Valid(o) \/ strong["loader"] = o

TypeOK ==
    /\ RM!TypeOK
    /\ id \in [Objects -> 0..MaxObj] /\ unit \in [Objects -> 0..NUnits]
    /\ bindId \in 0..MaxObj
    /\ table \in [Units -> 0..MaxObj] /\ activePos \in 0..NUnits
    /\ names \subseteq Objects /\ image \in [Objects -> Keys \cup {NoImage}]
    /\ active \in Units /\ bound \in [Units -> 0..MaxObj]
    /\ state \in [Models -> {"none", "ready", "dead"}]
    /\ cache \in [Models -> [Keys -> 0..MaxObj]]
    /\ \A m \in Models : Handles(m) \subseteq Objects
    /\ \A m \in Models : Len(arrays[m]) = Len(meshes[m])
    /\ vaos \subseteq Arrays
    /\ todo \subseteq Keys /\ copied \subseteq Models

(* A texture unit is taken exactly as long as a living texture believes it *)
(* owns it: units are neither leaked by a failed load or a destroyed model *)
(* nor given to two textures.                                              *)
UnitsOwned ==
    \A u \in Units :
        LET owners == {o \in 1..made : Alive(o) /\ unit[o] = u}
        IN  IF table[u] = 0 THEN owners = {}
            ELSE Cardinality(owners) = 1 /\ \A o \in owners : id[o] = table[u]

(* Whatever else was loaded, drawn, copied or destroyed, the meshes of a   *)
(* model that was not itself copied lead to textures that exist and hold   *)
(* the image the model asked for.  The vertex arrays that exist are those  *)
(* of the meshes, one for each, as long as no model was ever copied: a     *)
(* copy deletes its arrays twice, and the second time they may be those of *)
(* a model nobody copied.                                                  *)
ModelsIntact ==
    /\ copied = {} =>
          /\ vaos = UNION {{arrays[m][i] : i \in DOMAIN arrays[m]} : m \in Models}
          /\ \A m, n \in Models : \A i \in DOMAIN arrays[m], j \in DOMAIN arrays[n] :
                arrays[m][i] = arrays[n][j] => m = n /\ i = j
    /\ \A m \in Living \ copied : \A o \in Handles(m) :
          (op = "release" /\ cur = m) \/
          /\ Valid(o)
          /\ id[o] \in names
          /\ image[id[o]] = keyOf[o]

(* When a mesh is drawn each of its textures is bound to the unit its      *)
(* sampler reads, whatever the caches of the active unit and of the bound  *)
(* texture believed.                                                       *)
DrawSound ==
    (Drawing /\ Head(rest) = <<>>) =>
        \A i \in DOMAIN hs : bound[unit[hs[i]]] = id[hs[i]]

(* Between calls every texture in the pool is cached by a living model, so *)
(* it will be released with it (model.hpp: "avoid cache growth").          *)
NoOrphans ==
    op = "idle" =>
        \A o \in 1..made : Valid(o) => \E m \in Living : o \in Cached(m)

(* Destroying a model releases "texture handles that are exclusive to this *)
(* model" (model.hpp): none that another living model still draws with.    *)
ReleasesExclusive ==
    [][\A o \in 1..made :
         (op = "release" /\ Valid(o) /\ ~Valid(o)') =>
             \A m \in Living \ {cur} : o \notin Handles(m)]_vars
=============================================================================
