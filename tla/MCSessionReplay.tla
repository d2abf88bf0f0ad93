-------------------------- MODULE MCSessionReplay --------------------------
(* An instance of SessionReplay for TLC. *)
EXTENDS SessionReplay

CONSTANTS t1, t2, t3, x1

Question(provider, stream, enabled) ==
    [provider |-> provider, stream |-> stream, enabled |-> enabled]
AnswerOf(tools, text, thinking) == [tools |-> tools, text |-> text, thinking |-> thinking]

MCQuestions == {Question("anthropic", TRUE, TRUE), Question("chat", FALSE, FALSE)}

(* The second answer has the tool call and the text of the first, and two  *)
(* more tool calls that fill the cache.                                    *)
MCAnswers == <<{AnswerOf(<<t1>>, x1, TRUE)}, {AnswerOf(<<t2, t3, t1>>, x1, TRUE)}>>

(* Three conversations contend for the pool; one has its caches used by two *)
(* handlers; conversations and requests without a key use the same ids in  *)
(* turn; one conversation is evicted by another while it is answered.      *)
World(rs, ks, n) == [requests |-> rs, keys |-> ks, turns |-> n]
MCWorlds == {World(Requests, Keys, 0)}
            \cup {World(Requests, {k}, 2) : k \in Keys}
            \cup {World(Requests, pair, 1) : pair \in kSubset(2, Keys)}
            \cup {World({r}, pair \cup {Ephemeral}, 2) : r \in Requests, pair \in kSubset(2, Keys)}

MCLimits == {[max |-> 1, ttl |-> 0], [max |-> 2, ttl |-> 1]}
MCSymmetry == Permutations(Requests) \cup Permutations(Keys)
=============================================================================
