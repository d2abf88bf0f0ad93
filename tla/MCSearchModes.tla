---------------------------- MODULE MCSearchModes ----------------------------
(* Instances of SearchModes for TLC: one provider set to auto with two models *)
(* and two routes, which share a model or not, beside a second provider of    *)
(* any protocol.                                                              *)
EXTENDS SearchModes

Section(support, key) == [support |-> support, key |-> key]
Provider(protocol, search, models) == [protocol |-> protocol, search |-> search, models |-> models]
RouteTo(p, m, search) == [provider |-> p, model |-> m, search |-> search]

OfRoute == {Section(support, FALSE) : support \in Supports \cup {""}} \cup {Section("auto", TRUE)}
OfModel == {Section("", FALSE), Section("disabled", FALSE), Section("auto", TRUE)}

\* The keys of a configuration: none, the first provider's, global ones.
Keyrings ==
    {[tavily |-> FALSE, key |-> FALSE, ofP |-> FALSE], [tavily |-> FALSE, key |-> FALSE, ofP |-> TRUE],
     [tavily |-> FALSE, key |-> TRUE, ofP |-> FALSE], [tavily |-> TRUE, key |-> TRUE, ofP |-> FALSE]}

Pairs(ofP) ==
    {[p |-> Provider("anthropic", Section("", ofP), [a |-> own, b |-> Section("", FALSE)]),
      q |-> Provider(protocol, Section(support, FALSE), [a |-> own])] :
        own \in OfModel, protocol \in {"anthropic", "openai-response", "openai-chat"},
        support \in {"auto", "injected"}}

MCConfigs ==
    UNION {{[support |-> "auto", tavily |-> keys.tavily, key |-> keys.key, providers |-> providers,
             routes |-> [r |-> RouteTo("p", "a", mine), s |-> RouteTo(to[1], to[2], Section(theirs, FALSE))]] :
               providers \in Pairs(keys.ofP), to \in {<<"p", "a">>, <<"p", "b">>, <<"q", "b">>},
               mine \in OfRoute, theirs \in {"", "enabled"}} :
           keys \in Keyrings}

\* A provider that lists nothing, beside one that states its setting.
Bare ==
    [support |-> "auto", tavily |-> FALSE, key |-> FALSE, routes |-> [r |-> RouteTo("q", "a", Section("", FALSE))],
     providers |-> [p |-> Provider("anthropic", Section("auto", FALSE), <<>>),
                    q |-> Provider("anthropic", Section("enabled", FALSE), [a |-> Section("", FALSE)])]]
MCBoots == MCConfigs \cup {Bare, [Bare EXCEPT !.tavily = TRUE, !.key = TRUE]}
=============================================================================
