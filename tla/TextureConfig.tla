---------------------------- MODULE TextureConfig ----------------------------
(***************************************************************************)
(* The configuration of a Texture2D: the parameters a program asks for,    *)
(* one by one or as a list with an UpdateMode, and what update() hands on  *)
(* to GL.  GL's parameters belong to whichever texture is bound at that    *)
(* moment, so the other textures of the program matter: bind() goes by     *)
(* _bind_id, activate() binds past it.                                     *)
(***************************************************************************)
EXTENDS Naturals, Sequences, SequencesExt

CONSTANTS
    Pnames,      \* names of parameters of GL
    Inputs,      \* lists for set_config(): sequences of Asked(pname, param)
    MaxCfgs      \* bound on the length of _cfgs

VARIABLES
    cfgs,        \* _cfgs of the texture "mine"
    dirty,       \* its _dirty
    bind_id,     \* Texture2D::_bind_id: "mine", "other" or "none"
    target,      \* GL: the texture bound to the active unit
    params       \* GL: the parameters of "mine", by name

confVars == <<cfgs, dirty, bind_id, target, params>>

Textures == {"mine", "other"}
Policies == {"replace", "merge", "append", "update", "remove"}
Border == "GL_TEXTURE_BORDER_COLOR"

(* TexParam::set: the type goes with the value, and two parameters differ  *)
(* if either does.                                                         *)
Param(type, value) == [type |-> type, value |-> value]
Asked(pname, param) == [pname |-> pname, param |-> param]

Params == [type : {"I1", "F1", "I4", "F4"}, value : Nat]

(* Nothing is looked at in a list: it may be empty, have a name twice, or  *)
(* a value of a type that does not fit its name.                           *)
ASSUME ConfigAssumption ==
    /\ MaxCfgs \in Nat
    /\ \A in \in Inputs : in \in Seq([pname : Pnames, param : Params])

Fits(a) == a.param.type \in (IF a.pname = Border THEN {"I4", "F4"} ELSE {"I1", "F1"})

(* TexConfig.  "how" is history: asked for "one" by one, in a "list",      *)
(* handed on while another texture was bound ("astray"), or one of several *)
(* of its name in a list, and not the last one asked for ("twice").        *)
Config(a, isDirty, how) ==
    [pname |-> a.pname, param |-> a.param, dirty |-> isDirty, how |-> how]

ConfInit ==
    /\ cfgs = <<>> /\ dirty = FALSE
    /\ bind_id = "none" /\ target = "none"
    /\ params = [p \in Pnames |-> <<"default", Param("I1", 0)>>]
-----------------------------------------------------------------------------
Has(current, pname) == \E i \in DOMAIN current : current[i].pname = pname

(* The first entry of that name. *)
find_cfg_by_pname(current, pname) ==
    CHOOSE i \in DOMAIN current :
        /\ current[i].pname = pname
        /\ \A j \in DOMAIN current : current[j].pname = pname => i <= j

Put(current, a) == Append(current, Config(a, TRUE, "list"))

(* Of several entries of a name only the first is found and changed. *)
Outdated(c) == [c EXCEPT !.how = IF @ = "list" THEN "twice" ELSE @]

Change(current, a) ==
    LET i == find_cfg_by_pname(current, a.pname)
    IN  IF current[i].param = a.param THEN current
        ELSE [j \in DOMAIN current |->
                IF j = i
                THEN Config(a, TRUE, IF current[i].how = "twice" THEN "twice" ELSE "list")
                ELSE IF current[j].pname = a.pname THEN Outdated(current[j]) ELSE current[j]]

replace_cfgs(current, incoming) ==
    [i \in DOMAIN incoming |->
       Config(incoming[i], TRUE,
              IF \E j \in DOMAIN incoming : i < j /\ incoming[j].pname = incoming[i].pname
              THEN "twice" ELSE "list")]

merge_cfgs(current, incoming) ==
    FoldLeft(LAMBDA c, a : IF Has(c, a.pname) THEN Change(c, a) ELSE Put(c, a),
             current, incoming)

append_cfgs(current, incoming) ==
    FoldLeft(LAMBDA c, a : IF Has(c, a.pname) THEN c ELSE Put(c, a), current, incoming)

update_cfgs(current, incoming) ==
    FoldLeft(LAMBDA c, a : IF Has(c, a.pname) THEN Change(c, a) ELSE c, current, incoming)

remove_cfgs(current, incoming) ==
    FoldLeft(LAMBDA s, c : IF Has(incoming, c.pname) THEN s ELSE Append(s, c), <<>>, current)

(* Texture2D::apply: the function of GL that is called, and with what: if  *)
(* the type is another one, the bytes of param as that function reads them *)
Applied(c) ==
    IF c.pname = Border
    THEN <<IF c.param.type = "I4" THEN "Iiv" ELSE "fv", c.param>>
    ELSE <<IF c.param.type = "I1" THEN "i" ELSE "f", c.param>>
-----------------------------------------------------------------------------
(* set_config(pname, value): neither the entry nor the texture is marked.  *)
SetConfig(a) ==
    /\ Len(cfgs) < MaxCfgs
    /\ cfgs' = Append(cfgs, Config(a, FALSE, "one"))
    /\ UNCHANGED <<dirty, bind_id, target, params>>

(* set_config(cfgs, policy) *)
SetConfigs(incoming, policy) ==
    /\ incoming # <<>>
    /\ cfgs' = CASE policy = "replace" -> replace_cfgs(cfgs, incoming)
                 [] policy = "merge"   -> merge_cfgs(cfgs, incoming)
                 [] policy = "append"  -> append_cfgs(cfgs, incoming)
                 [] policy = "update"  -> update_cfgs(cfgs, incoming)
                 [] policy = "remove"  -> remove_cfgs(cfgs, incoming)
    /\ Len(cfgs') <= MaxCfgs
    /\ dirty' = TRUE
    /\ UNCHANGED <<bind_id, target, params>>

BindTexture(t) ==
    /\ bind_id' = t
    /\ target' = IF bind_id = t THEN target ELSE t

Bind(t) == BindTexture(t) /\ UNCHANGED <<cfgs, dirty, params>>

(* activate() leaves _bind_id as it was. *)
Activate(t) == target' = t /\ UNCHANGED <<cfgs, dirty, bind_id, params>>

UpdateForgets ==                \* mutant of Update: flags go before they are looked at
    /\ cfgs # <<>> /\ dirty
    /\ BindTexture("mine")
    /\ cfgs' = [i \in DOMAIN cfgs |-> [cfgs[i] EXCEPT !.dirty = FALSE]]
    /\ dirty' = FALSE
    /\ UNCHANGED params

(* update(): the marked entries in order, on what is bound then. *)
Update ==
    /\ cfgs # <<>> /\ dirty
    /\ BindTexture("mine")
    /\ params' = IF target' # "mine" THEN params
                 ELSE FoldLeft(LAMBDA p, c : IF c.dirty THEN [p EXCEPT ![c.pname] = Applied(c)]
                                             ELSE p,
                               params, cfgs)
    /\ cfgs' = [i \in DOMAIN cfgs |->
                  IF cfgs[i].dirty
                  THEN Config(cfgs[i], FALSE, IF target' # "mine" /\ cfgs[i].how = "list"
                                              THEN "astray" ELSE cfgs[i].how)
                  ELSE cfgs[i]]
    /\ dirty' = FALSE
-----------------------------------------------------------------------------
ConfNext ==
    \/ \E in \in Inputs : \/ \E i \in DOMAIN in : SetConfig(in[i])
                          \/ \E policy \in Policies : SetConfigs(in, policy)
    \/ \E t \in Textures : Bind(t) \/ Activate(t)
    \/ Update
-----------------------------------------------------------------------------
ConfTypeOK ==
    /\ \A i \in DOMAIN cfgs :
          cfgs[i] \in [pname : Pnames, param : Params, dirty : BOOLEAN,
                       how : {"one", "list", "astray", "twice"}]
    /\ Len(cfgs) <= MaxCfgs /\ dirty \in BOOLEAN
    /\ {bind_id, target} \subseteq Textures \cup {"none"}

(* Once update() has returned, GL has every parameter that was asked for   *)
(* in a list, whichever policies the lists came with, whatever was in them *)
(* and whatever was changed or removed between; the integers through the   *)
(* functions for integers.  Four kinds of entries are known to be left     *)
(* out: those asked for one by one, which nothing marks; those that went   *)
(* to another texture because it had been activated since; those of a type *)
(* that does not fit the name, which apply() reads as another type; and,   *)
(* of a name that came twice in a list that replaced all, every entry but  *)
(* the last, and the last as well once the name is asked for again.        *)
Configured ==
    ~dirty =>
        \A i \in DOMAIN cfgs :
            cfgs[i].how = "list" /\ Fits(cfgs[i]) =>
                LET call == [I1 |-> "i", F1 |-> "f", I4 |-> "Iiv", F4 |-> "fv"]
                IN  params[cfgs[i].pname] = <<call[cfgs[i].param.type], cfgs[i].param>>
=============================================================================
