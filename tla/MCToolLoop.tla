----------------------------- MODULE MCToolLoop -----------------------------
(* Instances of ToolLoop for TLC: every protocol, streamed and not, with the   *)
(* searches on and off and the visual tools off, ready and without their       *)
(* vision client.  Streamed searches of several rounds have short arguments;   *)
(* those of a single round have arguments that repeat a letter or nest an      *)
(* object, cut in every way.                                                   *)
EXTENDS ToolLoop

\* two images that can be read, one of them in a tool result, and one that cannot
Pictures == <<Image("first"), Image(NoData), Result(<<Text, Image("second")>>)>>

Empty == <<"{", "}">>
Plain == <<"{", "a", "}">>
Doubled == <<"{", "b", "b", "}">>
Nested == <<"{", "{", "}", "}">>

Setting(p, s, k, v, c) ==
    [protocol |-> p, stream |-> s, mode |-> IF k = {} THEN "enabled" ELSE "injected",
     keys |-> k, visual |-> v, content |-> c,
     rounds |-> IF c = Pictures \/ k = {"tavily"} \/ (s /\ p = "openai-chat") THEN 2 ELSE 3,
     texts |-> {Empty}]

MCSettings ==
    {Setting(p, s, k, "off", <<Text>>) :
        p \in Protocols, s \in BOOLEAN, k \in {{}, {"firecrawl"}}}
    \union {Setting(p, s, {}, v, c) :
        p \in Protocols, s \in BOOLEAN, v \in {"ready", "unresolved"},
        c \in {<<Text>>, Pictures}}
    \union {Setting(p, s, {"tavily"}, v, <<Text>>) :
        p \in Protocols, s \in BOOLEAN, v \in {"ready", "unresolved"}}
    \union {[Setting("openai-chat", TRUE, {"firecrawl"}, "off", <<Text>>)
               EXCEPT !.rounds = 1, !.texts = texts] : texts \in {{Plain, Doubled}, {Plain, Nested}}}
=============================================================================
