------------------------- MODULE MCRequestDispatch -------------------------
(* Instances of RequestDispatch for TLC.  The snapshots differ in what makes  *)
(* a request change its course: which protocol the preferred provider speaks, *)
(* who takes images, which providers are gone and which keys were replaced.   *)
EXTENDS RequestDispatch

CONSTANTS p1, p2, p3, k1, k2

Def(protocol, key, image) == [protocol |-> protocol, key |-> key, image |-> image]
Snapshot(d1, d2, d3, offers) ==
    [defs |-> [p \in Providers |-> CASE p = p1 -> d1 [] p = p2 -> d2 [] OTHER -> d3],
     offers |-> offers]

MCBoot == Snapshot(Def("openai-response", k1, FALSE), Def("openai-response", k1, TRUE),
                   Def("openai-chat", k1, FALSE), <<p1, p2, p3>>)

MCChat == Snapshot(Def("openai-chat", k2, FALSE), Absent,
                   Def("openai-chat", k2, TRUE), <<p1, p3>>)

MCAnthropic == Snapshot(Absent, Def("anthropic", k2, TRUE), Absent, <<p2>>)

MCEmpty == Snapshot(Def("openai-response", k2, TRUE), Absent, Absent, <<>>)

MCResponse == Snapshot(Def("openai-response", k2, TRUE), Absent, Absent, <<p1>>)

MCReloads == {MCBoot, MCChat, MCAnthropic, MCEmpty, MCResponse}
=============================================================================
