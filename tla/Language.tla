------------------------------ MODULE Language ------------------------------
(***************************************************************************)
(* The messages of the errors of learn_gl: the language packs of           *)
(* utils/lang.cpp, the two error categories that ask them, and the two     *)
(* builds of demo/lang.cpp, one with the packs linked in and one that      *)
(* opens them as a library.  A pack, a message and a language are values;  *)
(* the JSON parser and the file system are external.                       *)
(***************************************************************************)
EXTENDS DynLib, Integers, Sequences

CONSTANTS
    Threads,       \* of the program; the first use of the packs may race
    Languages,     \* name |-> [whole |-> as it is, cut |-> without its charset]
    Environments,  \* SKL_LANG and LANG; "none" is unset or empty
    FileSystems,   \* [cwd, proc |-> whether there is one, at |-> what is at a candidate]
    Requests       \* what is asked: [via, module, code]

VARIABLES
    build,         \* "linked" or "dynamic"
    env,
    files,
    loader,        \* the object behind global_i18n_loader()
    asked,         \* what each thread waits for, or NoRequest
    got,           \* the last answer of each thread, or NoAnswer
    last_error,    \* g_last_i18n_error
    dead           \* std::terminate()

placeVars == <<build, files, env>>
talkVars == <<asked, got, last_error>>
langVars == <<placeVars, dynVars, loader, talkVars, dead>>

NoRequest == [via |-> "none", module |-> "none", code |-> 0]
NoAnswer == [to |-> NoRequest, rc |-> 0, text |-> <<>>]
NoLoader == [state |-> "none", by |-> "none", list |-> <<>>, at |-> 1, pack |-> <<>>]

(* SKL_LANG counts as it is; of LANG the charset is cut off.  Any kind of  *)
(* Chinese is zh-CN.                                                       *)
runtime_lang ==
    IF env.SKL_LANG # "none" THEN Languages[env.SKL_LANG].whole
    ELSE IF env.LANG # "none" THEN Languages[env.LANG].cut
    ELSE "zh-CN"

(* Where the program is, which is beneath the directory it was started in; *)
(* without /proc it is taken to be in that one.                            *)
exedir == IF files.proc THEN "inner" ELSE "outer"

(* Each directory once, those above before those in them. *)
search_roots == IF exedir = "inner" THEN <<"outer", "inner">> ELSE <<"outer">>

candidate_language_files ==
    [k \in 1..(2 * Len(search_roots)) |->
        <<search_roots[(k + 1) \div 2], IF k % 2 = 1 THEN runtime_lang ELSE "general">>]

Content(c) == IF c \in DOMAIN files.at THEN files.at[c] ELSE "missing"

(* The messages of what loads.  A pack whose modules have none loads all   *)
(* the same; what does not parse or has no module does not.                *)
Packs == [full |-> {"utils", "graphics"} \X {1}, part |-> {"graphics"} \X {1}, hollow |-> {}]
Loads(c) == Content(c) \in DOMAIN Packs
-----------------------------------------------------------------------------
LangInit ==
    /\ DynInit
    /\ build \in {"linked", "dynamic"}
    /\ env \in Environments /\ files \in FileSystems
    /\ loader = NoLoader
    /\ asked = [t \in Threads |-> NoRequest] /\ got = [t \in Threads |-> NoAnswer]
    /\ last_error = [t \in Threads |-> ""]
    /\ dead = FALSE

Quiet == ~dead /\ \A t \in Threads : asked[t] = NoRequest

(* set_runtime_lang() of the demo.                                         *)
SetLang(l) ==
    /\ Quiet
    /\ env' = [env EXCEPT !.SKL_LANG = l]
    /\ UNCHANGED <<build, files, dynVars, loader, talkVars, dead>>

(* A library that nobody else holds may be unloaded with its loader, even  *)
(* if it is opened again at once: what is unloaded starts afresh.          *)
MayUnload(o) ==
    \/ UNCHANGED <<loader, talkVars>>
    \/ /\ \E p \in Paths : handle[o] = p /\ refs[p] = 1
       /\ loader' = NoLoader
       /\ last_error' = [t \in Threads |-> ""] /\ got' = [t \in Threads |-> NoAnswer]
       /\ UNCHANGED asked

(* Opening and closing; nobody is in a library that goes, nor reads what   *)
(* it said.                                                                *)
Handle ==
    /\ build = "dynamic" /\ Quiet
    /\ \/ \E o \in Objects, p \in Paths \cup {"elsewhere"} : OpenLib(o, p) /\ MayUnload(o)
       \/ \E o \in Objects : CloseLib(o) /\ MayUnload(o)
       \/ \E o, q \in Objects : MoveLib(o, q) /\ MayUnload(o)
       \/ \E o \in Objects : LoadApi(o) /\ UNCHANGED <<loader, talkVars>>
    /\ UNCHANGED <<placeVars, dead>>

(* A message is asked of a category, or find_ex() is called: from outside  *)
(* the library through the table, while the library is there.  The message *)
(* dynamic demo/lang.cpp asks for when it gives up is left out.            *)
Ask(t, r) ==
    /\ ~dead /\ asked[t] = NoRequest
    /\ build = "dynamic" =>
           r.via = "find_ex" /\ api.find_ex # "null" /\ refs[api.find_ex] > 0
    /\ asked' = [asked EXCEPT ![t] = r] /\ got' = [got EXCEPT ![t] = NoAnswer]
    /\ UNCHANGED <<placeVars, dynVars, loader, last_error, dead>>

Pending(t) == ~dead /\ asked[t] # NoRequest
-----------------------------------------------------------------------------
(* The first to need the packs loads them, the others wait for it.  What   *)
(* throws in there, as current_path() and exists() do, ends the program.   *)
StartLoading(t) ==
    /\ Pending(t) /\ asked[t].module # "null" /\ loader.state = "none"
    /\ loader' = [NoLoader EXCEPT !.state = "loading", !.by = t,
                                  !.list = candidate_language_files]
    /\ dead' = ~files.cwd
    /\ UNCHANGED <<placeVars, dynVars, talkVars>>

(* mutant of Tried: is_loaded() is not looked at *)
TriedFirst(c) ==
    IF Content(c) = "missing" THEN [loader EXCEPT !.at = @ + 1]
    ELSE [loader EXCEPT !.state = "ready", !.pack = IF Loads(c) THEN c ELSE <<>>]

Tried(c) ==
    IF Loads(c) THEN [loader EXCEPT !.state = "ready", !.pack = c]
    ELSE [loader EXCEPT !.at = @ + 1]

TryNext(t) ==
    /\ Pending(t) /\ loader.state = "loading" /\ loader.by = t
    /\ IF loader.at > Len(loader.list)
       THEN loader' = [loader EXCEPT !.state = "ready"] /\ UNCHANGED dead
       ELSE LET c == loader.list[loader.at]
            IN  loader' = Tried(c) /\ dead' = (Content(c) = "denied")
    /\ UNCHANGED <<placeVars, dynVars, talkVars>>
-----------------------------------------------------------------------------
(* A message found carries the pack it is from. *)
find(module, code) ==
    IF loader.pack # <<>> /\ <<module, code>> \in Packs[Content(loader.pack)]
    THEN <<loader.pack, module, code>> ELSE <<>>

findError == "none"     \* what find() leaves in its ec, whatever it finds

English(r) == <<(<<>>), r.module, r.code>>

(* error_category::message() of the two modules *)
utilsMessage(r) ==
    IF find("utils", r.code) # <<>> /\ findError # "none"
    THEN find("utils", r.code) ELSE English(r)

graphicsMessage(r) ==
    IF find("graphics", r.code) # <<>> THEN find("graphics", r.code) ELSE English(r)

SetLastError(t, m) == [last_error EXCEPT ![t] = m]

Told(t, rc, text) ==
    /\ got' = [got EXCEPT ![t] = [to |-> asked[t], rc |-> rc, text |-> text]]
    /\ asked' = [asked EXCEPT ![t] = NoRequest]
    /\ UNCHANGED <<placeVars, dynVars, loader, dead>>

Localise(t) ==
    /\ Pending(t) /\ asked[t].via = "message" /\ loader.state = "ready"
    /\ Told(t, 0, IF asked[t].module = "utils" THEN utilsMessage(asked[t])
                                               ELSE graphicsMessage(asked[t]))
    /\ UNCHANGED last_error

BadArgument(t) ==
    /\ Pending(t) /\ asked[t].module = "null"
    /\ Told(t, -1, <<>>)
    /\ last_error' = SetLastError(t, "invalid argument")

(* The answer -3 cannot come: find() never fails. *)
FindEx(t) ==
    /\ Pending(t) /\ asked[t].via = "find_ex" /\ asked[t].module # "null"
    /\ loader.state = "ready"
    /\ LET found == find(asked[t].module, asked[t].code) IN
       \/ loader.pack = <<>> /\ Told(t, -2, <<>>) /\ last_error' = SetLastError(t, "not loaded")
       \/ /\ loader.pack # <<>> /\ found = <<>>
          /\ Told(t, 1, <<>>) /\ last_error' = SetLastError(t, "not found")
       \/ found # <<>> /\ Told(t, 0, found) /\ last_error' = SetLastError(t, "")
-----------------------------------------------------------------------------
LangNext ==
    \/ Handle
    \/ \E l \in DOMAIN Languages : SetLang(l)
    \/ \E t \in Threads :
          \/ StartLoading(t) \/ TryNext(t) \/ Localise(t) \/ BadArgument(t) \/ FindEx(t)
          \/ \E r \in Requests : Ask(t, r)

LangSpec == LangInit /\ [][LangNext]_langVars
-----------------------------------------------------------------------------
(* The packs are loaded once, from the first candidate that loads, and if  *)
(* any does; that need not be the language asked for: the general pack of  *)
(* an outer directory hides it, and so does a pack without messages.  What *)
(* a thread is told then, answers its own call: the code, the text and the *)
(* reason it is given afterwards fit each other and the pack, whatever     *)
(* other threads ask.  Only a missing directory or one that may not be     *)
(* read ends the program.                                                  *)
AnswersFit ==
    /\ loader.state = "ready" =>
          \A k \in DOMAIN loader.list :
              Loads(loader.list[k]) =>
                  loader.pack \in {loader.list[j] : j \in 1..k} \ {<<>>}
    /\ \A t \in Threads : got[t].to.via = "find_ex" =>
          LET r == got[t].to IN
          /\ (got[t].rc = 0) = (got[t].text # <<>>)
          /\ got[t].rc = 0 => got[t].text = <<loader.pack, r.module, r.code>>
          /\ last_error[t] = CASE got[t].rc = -1 -> "invalid argument"
                               [] got[t].rc = -2 -> "not loaded"
                               [] got[t].rc = 1 -> "not found"
                               [] got[t].rc = 0 -> ""
          /\ got[t].rc = -2 => \A k \in DOMAIN loader.list : ~Loads(loader.list[k])
    /\ dead => ~files.cwd \/ \E k \in 1..loader.at : Content(loader.list[k]) = "denied"

(* demo/lang.cpp: "Existing language pack/submodule -> localized message"; *)
(* a message the pack has is not told in English.                          *)
PackedIsLocalised ==
    \A t \in Threads :
        got[t].to.via = "message" /\ loader.pack # <<>>
        /\ <<got[t].to.module, got[t].to.code>> \in Packs[Content(loader.pack)]
            => got[t].text[1] = loader.pack
=============================================================================
