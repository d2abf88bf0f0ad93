-------------------------- MODULE MCStreamPipeline --------------------------
(* Instances of StreamPipeline for TLC: every provider side under every       *)
(* ingress, traced where the trace can make the handler wait.                 *)
EXTENDS StreamPipeline

MCSetups == {s \in AllSetups : s.traced <=> s.ingress = "responses"}
=============================================================================
