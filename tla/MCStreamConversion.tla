-------------------------- MODULE MCStreamConversion --------------------------
(* Instances of StreamConversion for TLC: a Chat answer of a few chunks, and  *)
(* an Anthropic one long enough for two blocks with their starts and stops.   *)
EXTENDS StreamConversion

Bounds == [u \in Upstreams |-> CASE u = "anthropic" -> 9
                                 [] u \in {"native", "local"} -> 5
                                 [] OTHER -> 4]
=============================================================================
