----------------------------- MODULE MCLanguage -----------------------------
EXTENDS Language, TLC

MCLanguages ==
    [zh_TW |-> [whole |-> "zh-CN", cut |-> "zh-CN"],
     en_US |-> [whole |-> "en-US.UTF-8", cut |-> "en-US"]]

MCEnvironments == [SKL_LANG : {"none"}, LANG : {"none", "en_US"}]

(* A pack at a place, and what stands before it; or one that is not found *)
(* without /proc.                                                          *)
MCFileSystems ==
    {[cwd |-> FALSE, proc |-> TRUE, at |-> <<>>],
     [cwd |-> TRUE, proc |-> FALSE, at |-> <<"inner", "zh-CN">> :> "full"]} \cup
    {[cwd |-> TRUE, proc |-> TRUE,
      at |-> (<<"outer", "general">> :> first) @@ (<<"inner", "zh-CN">> :> second)
               @@ (<<"inner", "en-US">> :> "part") @@ (<<"inner", "general">> :> "part")] :
        first \in {"missing", "broken", "hollow", "full"}, second \in {"full", "denied", "broken"}}

MCExports == ("whole" :> {"find_ex", "last_error"}) @@ ("half" :> {"find_ex"})
             @@ ("bare" :> {})

Request(via, module, code) == [via |-> via, module |-> module, code |-> code]
MCRequests ==
    {Request("message", "utils", 1), Request("message", "graphics", 1),
     Request("find_ex", "utils", 1), Request("find_ex", "graphics", 2),
     Request("find_ex", "null", 1)}
=============================================================================
