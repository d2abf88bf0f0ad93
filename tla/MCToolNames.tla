----------------------------- MODULE MCToolNames -----------------------------
(* Instances of ToolNames for TLC: up to two tools of a pool, or three of     *)
(* those whose names collide, within a namespace, across namespaces and once  *)
(* they are joined, offered in either order.                                  *)
EXTENDS ToolNames

Pool == <<Namespace(<<"a">>, <<Function(<<"b", "c">>, {"x"}, {"x"}), Function(<<"go">>, {}, {})>>),
          Namespace(<<"a", "b">>, <<Function(<<"c">>, {"x"}, {})>>),
          Namespace(<<"n">>, <<Function(<<"go">>, {"x"}, {"x"})>>),
          Function(<<"go">>, {"x"}, {"x"}),
          Function(<<"a", "b", "c">>, {"x"}, {}),
          Offer("web_search", <<"web_search">>),
          Offer("custom", <<"raw">>),
          Offer("exec", <<"exec">>),
          Offer("local_shell", <<"local_shell">>),
          Offer("apply_patch", <<"apply_patch">>)>>

\* Those of the pool that come to one name in one form or another.
Colliding == 1..5

Picked(ks) == LET s == SetToSortSeq(ks, <) IN [n \in DOMAIN s |-> Pool[s[n]]]
MCOfferings ==
    LET picks == {ks \in SUBSET (1..Len(Pool)) :
                    \/ Cardinality(ks) \in 1..2
                    \/ Cardinality(ks) = 3 /\ ks \subseteq Colliding}
    IN {Picked(ks) : ks \in picks} \cup {Reverse(Picked(ks)) : ks \in picks}

=============================================================================
