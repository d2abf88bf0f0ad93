-------------------------- MODULE MCConfigControl --------------------------
(* Instances of ConfigControl for TLC: one model, one alias and the providers,  *)
(* of which p1 offers the model and serves the alias.                         *)
EXTENDS ConfigControl, TLC

CONSTANTS p1, p2, m1, a1, v1, v2

MCYaml == [settings  |-> [defaults |-> v1, server |-> v1],
           models    |-> {m1},
           providers |-> Providers,
           offers    |-> {<<p1, m1>>},
           routes    |-> [a \in Aliases |-> p1]]

HandlerSymmetry == Permutations(Handlers)
============================================================================
