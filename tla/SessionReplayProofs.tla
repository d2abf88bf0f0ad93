------------------------ MODULE SessionReplayProofs ------------------------
(***************************************************************************)
(* What holds of sessions and of the thinking they replay, for every set   *)
(* of requests, keys and sessions, every limit and any number of answers.  *)
(*                                                                         *)
(* A session has at most one key, whether it is in the pool or in the      *)
(* hands of handlers (OwnersInv).  So what its caches hold belongs to that *)
(* conversation (SessionInv), also after it was evicted, and a handler     *)
(* that replays from it cannot meet the thinking of another (HandlerInv).  *)
(***************************************************************************)
EXTENDS SessionReplay, SelectionProofs, FiniteSetTheorems

---------------------------------------------------------------------------
(* The inductive invariant *)

AnyAnswer == UNION {Answers[n] : n \in Blocks}
Turn == [key : Keys \cup {Ephemeral}, q : Questions, a : AnyAnswer]

StateInv ==
    /\ world \in Worlds /\ now \in 0..MaxTime /\ limits \in Limits
    /\ DOMAIN pool \subseteq Keys /\ IsFiniteSet(DOMAIN pool)
    /\ \A k \in DOMAIN pool : pool[k] \in [object : Objects, lastUsed : 0..MaxTime]
    /\ DOMAIN heap = Reachable(pool, h)
    /\ turns \in Seq(Turn) /\ Len(turns) <= Len(Answers)
    /\ shown \subseteq DOMAIN turns
    /\ h \in [Requests -> Handler]

\* Session o is the one of key k in the pool, or a handler for k works with it.
Holds(p, hs, o, k) == \/ k \in DOMAIN p /\ p[k].object = o
                      \/ \E r \in Requests : hs[r].object = o /\ hs[r].key = k

Owners(p, hs) ==
    /\ \A o \in Objects, j, k \in Keys \cup {Ephemeral} :
          Holds(p, hs, o, j) /\ Holds(p, hs, o, k) => j = k
    /\ \A r, s \in Requests :
          hs[r].object = hs[s].object /\ hs[r].object # NoObject /\ hs[r].key = Ephemeral => r = s

OwnersInv == Owners(pool, h)

\* The records of a cache are thinking of answers ts of the conversation k, and
\* each was put there for something the answer has.
RecordedTools(c, k, ts) ==
    \A i \in DOMAIN c.block :
        /\ c.block[i] \in DOMAIN ts
        /\ ts[c.block[i]].key = k /\ ts[c.block[i]].a.thinking = TRUE
        /\ i \in ToSet(ts[c.block[i]].a.tools)
RecordedTexts(c, k, ts) ==
    \A i \in DOMAIN c.block :
        /\ c.block[i] \in DOMAIN ts
        /\ ts[c.block[i]].key = k /\ ts[c.block[i]].a.thinking = TRUE
        /\ i = ts[c.block[i]].a.text

\* What remembering answer t leaves in a session while nothing was pushed out.
KeptTools(s, t) ==
    s.tools.full = FALSE /\ t.a.thinking = TRUE /\ (t.q.enabled = TRUE \/ t.q.provider = "chat")
    => ToSet(t.a.tools) \subseteq DOMAIN s.tools.block
KeptText(s, t) ==
    s.texts.full = FALSE /\ t.a.thinking = TRUE /\ t.q.enabled = TRUE /\ t.a.text # NoText
    => t.a.text \in DOMAIN s.texts.block

SessionInv(s, k, ts, sh) ==
    /\ IsSession(s) /\ s.served \subseteq DOMAIN ts
    /\ Consistent(s.tools) /\ Consistent(s.texts)
    /\ RecordedTools(s.tools, k, ts) /\ RecordedTexts(s.texts, k, ts)
    /\ \A n \in s.served \cap sh : ts[n].q.stream = FALSE => KeptTools(s, ts[n]) /\ KeptText(s, ts[n])

\* The steps that may be left before the answer, and after it.
Waits == {<<"touch", "lookup", "replay", "call">>, <<"lookup", "replay", "call">>,
          <<"replay", "call">>, <<"call">>,
          <<"touch", "lookup", "replay", "lookup", "call">>,
          <<"lookup", "replay", "lookup", "call">>, <<"replay", "lookup", "call">>,
          <<"lookup", "call">>,
          <<"touch", "lookup", "lookup", "replay", "call">>,
          <<"lookup", "lookup", "replay", "call">>}
Ends == {<<"tools", "texts">>, <<"tools">>, <<"texts">>,
         <<"tools", "texts", "tools">>, <<"texts", "tools">>,
         <<"tools", "texts", "write">>, <<"texts", "write">>, <<"write">>,
         <<"tools", "write">>, <<"tools", "tools", "texts", "write">>}

Waiting(x, hp, ts, sh) ==
    /\ x.todo \in Waits /\ x.turn = NoBlock
    /\ Head(x.todo) \in {"replay", "call"} => x.object # NoObject
    /\ x.key = Ephemeral /\ x.object # NoObject => hp[x.object] = NewSession
    /\ x.presented \subseteq sh /\ \A n \in x.presented : ts[n].key = x.key

Ending(x, hp, ts) ==
    /\ x.todo \in Ends /\ x.object # NoObject
    /\ x.turn \in DOMAIN ts /\ ts[x.turn].key = x.key /\ ts[x.turn].q = x.q
    /\ x.todo \in {<<"write">>, <<"texts", "write">>} => KeptTools(hp[x.object], ts[x.turn])
    /\ x.todo = <<"write">> => KeptText(hp[x.object], ts[x.turn])
    /\ x.todo = <<"tools", "write">> => x.q.enabled = FALSE

\* b may be replayed before n.
Own(b, n, ts) ==
    /\ b \in DOMAIN ts /\ n \in DOMAIN ts
    /\ ts[b].key = ts[n].key /\ ts[b].key # Ephemeral /\ ts[b].a.thinking = TRUE
    /\ \/ ToSet(ts[b].a.tools) \cap ToSet(ts[n].a.tools) # {}
       \/ ts[b].a.text # NoText /\ ts[b].a.text = ts[n].a.text

HandlerInv(x, hp, ts, sh) ==
    /\ x = Idle \/ Waiting(x, hp, ts, sh) \/ Ending(x, hp, ts)
    /\ \A n \in Blocks : x.replayed[n] # NoBlock => Own(x.replayed[n], n, ts)

\* An answer was received by the handler that works with the session it served.
ServedInv ==
    \A r \in Requests : \A o \in DOMAIN heap : h[r].turn \in heap[o].served => o = h[r].object

SessionsInv ==
    \A o \in Objects, k \in Keys \cup {Ephemeral} :
        Holds(pool, h, o, k) => SessionInv(heap[o], k, turns, shown)
HandlersInv == \A r \in Requests : HandlerInv(h[r], heap, turns, shown)

IInv == StateInv /\ OwnersInv /\ SessionsInv /\ HandlersInv /\ ServedInv

---------------------------------------------------------------------------
(* The steps of a handler *)

LEMMA LaterSteps ==
    /\ Tail(<<"call">>) = <<>> /\ Tail(<<"lookup", "call">>) = <<"call">>
    /\ Tail(<<"replay", "call">>) = <<"call">>
    /\ Tail(<<"lookup", "replay", "call">>) = <<"replay", "call">>
    /\ Tail(<<"replay", "lookup", "call">>) = <<"lookup", "call">>
    /\ Tail(<<"touch", "lookup", "replay", "call">>) = <<"lookup", "replay", "call">>
    /\ Tail(<<"lookup", "lookup", "replay", "call">>) = <<"lookup", "replay", "call">>
    /\ Tail(<<"lookup", "replay", "lookup", "call">>) = <<"replay", "lookup", "call">>
    /\ Tail(<<"touch", "lookup", "lookup", "replay", "call">>) = <<"lookup", "lookup", "replay", "call">>
    /\ Tail(<<"touch", "lookup", "replay", "lookup", "call">>) = <<"lookup", "replay", "lookup", "call">>
    /\ Tail(<<"tools">>) = <<>> /\ Tail(<<"texts">>) = <<>> /\ Tail(<<"write">>) = <<>>
    /\ Tail(<<"tools", "texts">>) = <<"texts">> /\ Tail(<<"texts", "tools">>) = <<"tools">>
    /\ Tail(<<"texts", "write">>) = <<"write">> /\ Tail(<<"tools", "write">>) = <<"write">>
    /\ Tail(<<"tools", "texts", "tools">>) = <<"texts", "tools">>
    /\ Tail(<<"tools", "texts", "write">>) = <<"texts", "write">>
    /\ Tail(<<"tools", "tools", "texts", "write">>) = <<"tools", "texts", "write">>
  OBVIOUS

LEMMA WaitsSteps ==
    \A w \in Waits :
        /\ w \in Seq(Phases) /\ w # <<>> /\ Head(w) \in {"touch", "lookup", "replay", "call"}
        /\ Head(w) # "call" => Tail(w) \in Waits
        /\ Head(w) = "touch" => Head(Tail(w)) = "lookup"
<1>1. /\ <<"touch", "lookup", "replay", "call">> \in Seq(Phases)
      /\ <<"lookup", "replay", "call">> \in Seq(Phases)
      /\ <<"replay", "call">> \in Seq(Phases) /\ <<"call">> \in Seq(Phases)
      /\ <<"touch", "lookup", "replay", "lookup", "call">> \in Seq(Phases)
      /\ <<"lookup", "replay", "lookup", "call">> \in Seq(Phases)
      /\ <<"replay", "lookup", "call">> \in Seq(Phases)
      /\ <<"lookup", "call">> \in Seq(Phases)
      /\ <<"touch", "lookup", "lookup", "replay", "call">> \in Seq(Phases)
      /\ <<"lookup", "lookup", "replay", "call">> \in Seq(Phases)
  BY DEF Phases
<1>2. \A w \in Waits : w \in Seq(Phases)
  BY <1>1, Zenon DEF Waits
<1>3. \A w \in Waits : w # <<>> /\ Head(w) \in {"touch", "lookup", "replay", "call"}
  BY DEF Waits
<1>4. \A w \in Waits : w = <<"call">> \/ Tail(w) \in Waits
  <2>1. /\ <<"call">> \in Waits /\ <<"lookup", "call">> \in Waits
        /\ <<"replay", "call">> \in Waits
        /\ <<"lookup", "replay", "call">> \in Waits
        /\ <<"replay", "lookup", "call">> \in Waits
        /\ <<"lookup", "lookup", "replay", "call">> \in Waits
        /\ <<"lookup", "replay", "lookup", "call">> \in Waits
    BY Zenon DEF Waits
  <2>2. SUFFICES ASSUME NEW w \in Waits, w # <<"call">> PROVE Tail(w) \in Waits
    OBVIOUS
  <2>3. \/ Tail(w) = <<"call">> \/ Tail(w) = <<"lookup", "call">>
        \/ Tail(w) = <<"replay", "call">>
        \/ Tail(w) = <<"lookup", "replay", "call">>
        \/ Tail(w) = <<"replay", "lookup", "call">>
        \/ Tail(w) = <<"lookup", "lookup", "replay", "call">>
        \/ Tail(w) = <<"lookup", "replay", "lookup", "call">>
    BY <2>2, LaterSteps, Zenon DEF Waits
  <2> QED BY <2>1, <2>3, Zenon
<1>5. \A w \in Waits : Head(w) = "touch" => Head(Tail(w)) = "lookup"
  <2>1. SUFFICES ASSUME NEW w \in Waits, Head(w) = "touch" PROVE Head(Tail(w)) = "lookup"
    OBVIOUS
  <2>2. \/ w = <<"touch", "lookup", "replay", "call">>
        \/ w = <<"touch", "lookup", "replay", "lookup", "call">>
        \/ w = <<"touch", "lookup", "lookup", "replay", "call">>
    BY <2>1 DEF Waits
  <2>3. \/ Tail(w) = <<"lookup", "replay", "call">>
        \/ Tail(w) = <<"lookup", "lookup", "replay", "call">>
        \/ Tail(w) = <<"lookup", "replay", "lookup", "call">>
    BY <2>2, LaterSteps, Zenon
  <2>4. /\ Head(<<"lookup", "replay", "call">>) = "lookup"
        /\ Head(<<"lookup", "lookup", "replay", "call">>) = "lookup"
        /\ Head(<<"lookup", "replay", "lookup", "call">>) = "lookup"
    OBVIOUS
  <2> QED BY <2>3, <2>4, Zenon
<1>6. Head(<<"call">>) = "call"
  OBVIOUS
<1> QED BY <1>2, <1>3, <1>4, <1>5, <1>6, Zenon

LEMMA EndsSteps ==
    \A w \in Ends :
        /\ w \in Seq(Phases) /\ w # <<>> /\ Head(w) \in {"tools", "texts", "write"}
        /\ Tail(w) = <<>> \/ Tail(w) \in Ends
        /\ Head(w) = "write" => w = <<"write">>
        /\ Head(w) = "write" => Tail(w) = <<>>
        /\ Tail(w) = <<"write">> => w \in {<<"texts", "write">>, <<"tools", "write">>}
        /\ Tail(w) = <<"texts", "write">> => Head(w) = "tools"
        /\ Tail(w) # <<"tools", "write">>
<1>1. /\ <<"tools">> \in Seq(Phases) /\ <<"texts">> \in Seq(Phases) /\ <<"write">> \in Seq(Phases)
      /\ <<"tools", "texts">> \in Seq(Phases) /\ <<"texts", "tools">> \in Seq(Phases)
      /\ <<"texts", "write">> \in Seq(Phases) /\ <<"tools", "write">> \in Seq(Phases)
      /\ <<"tools", "texts", "tools">> \in Seq(Phases)
      /\ <<"tools", "texts", "write">> \in Seq(Phases)
      /\ <<"tools", "tools", "texts", "write">> \in Seq(Phases)
  BY DEF Phases
<1>2. \A w \in Ends : w \in Seq(Phases)
  BY <1>1, Zenon DEF Ends
<1>3. \A w \in Ends : w # <<>> /\ Head(w) \in {"tools", "texts", "write"}
  BY DEF Ends
<1>4. /\ <<"write">> # <<"texts", "write">> /\ <<"write">> # <<"tools", "write">>
      /\ \A u \in {<<"texts">>, <<"tools">>, <<"texts", "tools">>, <<"tools", "texts", "write">>, <<>>} :
            /\ u # <<"write">> /\ u # <<"texts", "write">> /\ u # <<"tools", "write">>
      /\ <<"texts", "write">> # <<"tools", "write">>
  OBVIOUS
<1>5. /\ <<"texts">> \in Ends /\ <<"tools">> \in Ends /\ <<"texts", "tools">> \in Ends
      /\ <<"tools", "texts", "write">> \in Ends /\ <<"texts", "write">> \in Ends
      /\ <<"write">> \in Ends
  BY Zenon DEF Ends
<1>6. /\ Head(<<"tools", "texts", "write">>) = "tools"
  OBVIOUS
<1>7. ASSUME NEW w \in Ends
      PROVE  \/ Tail(w) \in {<<>>, <<"texts">>, <<"tools">>, <<"texts", "tools">>, <<"tools", "texts", "write">>}
             \/ w = <<"tools", "texts", "write">> /\ Tail(w) = <<"texts", "write">>
             \/ w \in {<<"texts", "write">>, <<"tools", "write">>} /\ Tail(w) = <<"write">>
  BY LaterSteps, Zenon DEF Ends
<1>8. ASSUME NEW w \in Ends, Head(w) = "write" PROVE w = <<"write">>
  BY <1>8 DEF Ends
<1>9. Tail(<<"write">>) = <<>>
  BY LaterSteps
<1>10. SUFFICES ASSUME NEW w \in Ends
      PROVE
        /\ Tail(w) = <<>> \/ Tail(w) \in Ends
        /\ Tail(w) = <<"write">> => w \in {<<"texts", "write">>, <<"tools", "write">>}
        /\ Tail(w) = <<"texts", "write">> => Head(w) = "tools"
        /\ Tail(w) # <<"tools", "write">>
  BY <1>2, <1>3, <1>8, <1>9, Zenon
<1>11. CASE Tail(w) \in {<<>>, <<"texts">>, <<"tools">>, <<"texts", "tools">>, <<"tools", "texts", "write">>}
  <2>1. Tail(w) # <<"write">> /\ Tail(w) # <<"texts", "write">> /\ Tail(w) # <<"tools", "write">>
    BY <1>4, <1>11, Zenon
  <2>2. Tail(w) = <<>> \/ Tail(w) \in Ends
    BY <1>5, <1>11, Zenon
  <2> QED BY <2>1, <2>2, Zenon
<1>12. CASE w = <<"tools", "texts", "write">> /\ Tail(w) = <<"texts", "write">>
  BY <1>4, <1>5, <1>6, <1>12, Zenon
<1>13. CASE w \in {<<"texts", "write">>, <<"tools", "write">>} /\ Tail(w) = <<"write">>
  BY <1>4, <1>5, <1>13, Zenon
<1> QED BY <1>7, <1>11, <1>12, <1>13

LEMMA ConcatIs ==
    ASSUME NEW S, NEW s \in Seq(S), NEW t \in Seq(S), NEW w \in Seq(S),
           Len(w) = Len(s) + Len(t),
           \A i \in 1..Len(s) : w[i] = s[i], \A i \in 1..Len(t) : w[Len(s) + i] = t[i]
    PROVE  s \o t = w
<1>1. PICK m \in Nat : m = Len(s)
  BY LenProperties
<1>2. PICK n \in Nat : n = Len(t)
  BY LenProperties
<1>3. /\ s \o t \in Seq(S) /\ Len(s \o t) = m + n
      /\ \A i \in 1..(m + n) : (s \o t)[i] = IF i <= m THEN s[i] ELSE t[i - m]
  BY <1>1, <1>2, ConcatProperties
<1>4. ASSUME NEW i \in 1..(m + n) PROVE (s \o t)[i] = w[i]
  <2>1. CASE i <= m
    BY <1>1, <1>3, <2>1
  <2>2. CASE ~(i <= m)
    <3>1. i - m \in 1..n /\ m + (i - m) = i
      BY <2>2
    <3> QED BY <1>1, <1>2, <1>3, <2>2, <3>1
  <2> QED BY <2>1, <2>2
<1> QED BY <1>1, <1>2, <1>3, <1>4, SeqEqual

LEMMA Concat11 ==
    ASSUME NEW a, NEW b
    PROVE  <<a>> \o <<b>> = <<a, b>>
<1> DEFINE S == {a, b}
           s == <<a>>
           t == <<b>>
           w == <<a, b>>
<1>1. s \in Seq(S) /\ t \in Seq(S) /\ w \in Seq(S)
  OBVIOUS
<1>2. Len(w) = Len(s) + Len(t)
  OBVIOUS
<1>3. \A i \in 1..Len(s) : w[i] = s[i]
  OBVIOUS
<1>4. \A i \in 1..Len(t) : w[Len(s) + i] = t[i]
  OBVIOUS
<1> HIDE DEF S, s, t, w
<1>5. s \o t = w
  BY <1>1, <1>2, <1>3, <1>4, ConcatIs
<1> QED BY <1>5 DEF s, t, w

LEMMA Concat21 ==
    ASSUME NEW a, NEW b, NEW c
    PROVE  <<a, b>> \o <<c>> = <<a, b, c>>
<1> DEFINE S == {a, b, c}
           s == <<a, b>>
           t == <<c>>
           w == <<a, b, c>>
<1>1. s \in Seq(S) /\ t \in Seq(S) /\ w \in Seq(S)
  OBVIOUS
<1>2. Len(w) = Len(s) + Len(t)
  OBVIOUS
<1>3. \A i \in 1..Len(s) : w[i] = s[i]
  OBVIOUS
<1>4. \A i \in 1..Len(t) : w[Len(s) + i] = t[i]
  OBVIOUS
<1> HIDE DEF S, s, t, w
<1>5. s \o t = w
  BY <1>1, <1>2, <1>3, <1>4, ConcatIs
<1> QED BY <1>5 DEF s, t, w

LEMMA Concat12 ==
    ASSUME NEW a, NEW b, NEW c
    PROVE  <<a>> \o <<b, c>> = <<a, b, c>>
<1> DEFINE S == {a, b, c}
           s == <<a>>
           t == <<b, c>>
           w == <<a, b, c>>
<1>1. s \in Seq(S) /\ t \in Seq(S) /\ w \in Seq(S)
  OBVIOUS
<1>2. Len(w) = Len(s) + Len(t)
  OBVIOUS
<1>3. \A i \in 1..Len(s) : w[i] = s[i]
  OBVIOUS
<1>4. \A i \in 1..Len(t) : w[Len(s) + i] = t[i]
  OBVIOUS
<1> HIDE DEF S, s, t, w
<1>5. s \o t = w
  BY <1>1, <1>2, <1>3, <1>4, ConcatIs
<1> QED BY <1>5 DEF s, t, w

LEMMA Concat31 ==
    ASSUME NEW a, NEW b, NEW c, NEW d
    PROVE  <<a, b, c>> \o <<d>> = <<a, b, c, d>>
<1> DEFINE S == {a, b, c, d}
           s == <<a, b, c>>
           t == <<d>>
           w == <<a, b, c, d>>
<1>1. s \in Seq(S) /\ t \in Seq(S) /\ w \in Seq(S)
  OBVIOUS
<1>2. Len(w) = Len(s) + Len(t)
  OBVIOUS
<1>3. \A i \in 1..Len(s) : w[i] = s[i]
  OBVIOUS
<1>4. \A i \in 1..Len(t) : w[Len(s) + i] = t[i]
  OBVIOUS
<1> HIDE DEF S, s, t, w
<1>5. s \o t = w
  BY <1>1, <1>2, <1>3, <1>4, ConcatIs
<1> QED BY <1>5 DEF s, t, w

LEMMA PreparationWaits == \A q : Preparation(q) \in Waits
<1>1. /\ <<"touch", "lookup", "replay", "call">> \in Waits
      /\ <<"touch", "lookup", "replay", "lookup", "call">> \in Waits
      /\ <<"touch", "lookup", "lookup", "replay", "call">> \in Waits
  BY Zenon DEF Waits
<1> QED BY <1>1, Zenon DEF Preparation

LEMMA FinishEnds ==
    ASSUME NEW q \in Questions, NEW complete \in BOOLEAN, complete = TRUE \/ q.stream = TRUE
    PROVE  /\ Finish(q, complete) = <<>> \/ Finish(q, complete) \in Ends
           /\ Finish(q, complete) # <<"texts", "write">>
           /\ Finish(q, complete) = <<"write">> => q.enabled = FALSE /\ q.provider # "chat"
           /\ Finish(q, complete) = <<"tools", "write">> => q.enabled = FALSE
<1>1. /\ q.stream \in BOOLEAN /\ q.enabled \in BOOLEAN /\ q.provider \in {"anthropic", "chat"}
  BY QuestionsAssumption DEF AllQuestions
<1>2. /\ <<>> \o <<"tools">> = <<"tools">> /\ <<>> \o <<"write">> = <<"write">>
      /\ <<>> \o <<>> = <<>> /\ <<"tools">> \o <<>> = <<"tools">>
      /\ <<"tools", "texts">> \o <<>> = <<"tools", "texts">>
      /\ <<>> \o <<"tools", "texts">> = <<"tools", "texts">>
  <2>1. /\ <<"tools">> \in Seq({"tools", "texts", "write"})
        /\ <<"write">> \in Seq({"tools", "texts", "write"})
        /\ <<>> \in Seq({"tools", "texts", "write"})
        /\ <<"tools", "texts">> \in Seq({"tools", "texts", "write"})
    OBVIOUS
  <2> QED BY <2>1, ConcatEmptySeq
<1>3. /\ <<"tools", "texts">> \o <<"tools">> = <<"tools", "texts", "tools">>
      /\ <<"tools", "texts">> \o <<"write">> = <<"tools", "texts", "write">>
      /\ <<"tools">> \o <<"tools", "texts">> = <<"tools", "tools", "texts">>
      /\ <<"tools", "tools", "texts">> \o <<"write">> = <<"tools", "tools", "texts", "write">>
      /\ <<"tools">> \o <<"write">> = <<"tools", "write">>
  BY Concat11, Concat21, Concat12, Concat31
<1>4. \/ Finish(q, complete) \in {<<>>, <<"tools", "texts">>, <<"tools">>,
                                  <<"tools", "texts", "tools">>}
      \/ q.enabled = TRUE /\ Finish(q, complete) \in {<<"tools", "tools", "texts", "write">>,
                                                      <<"tools", "texts", "write">>}
      \/ q.enabled = FALSE /\ Finish(q, complete) = <<"tools", "write">>
      \/ /\ q.enabled = FALSE /\ q.provider # "chat"
         /\ Finish(q, complete) = <<"write">>
  <2>1. CASE q.stream = TRUE
    <3>1. Plugin(q, complete) \in {<<>>, <<"tools", "texts">>, <<"tools">>}
      BY Zenon DEF Plugin
    <3>2. q.provider = "chat" => Plugin(q, complete) # <<"tools">>
      BY DEF Plugin
    <3>3. CASE q.provider = "chat"
      <4>1. Finish(q, complete) = Plugin(q, complete) \o <<"tools">>
        BY <2>1, <3>3, Zenon DEF Finish
      <4> QED BY <1>2, <1>3, <3>1, <3>2, <3>3, <4>1, Zenon
    <3>4. CASE q.provider # "chat"
      <4>1. Finish(q, complete) = Plugin(q, complete) \o <<>>
        BY <2>1, <3>4, Zenon DEF Finish
      <4> QED BY <1>2, <3>1, <4>1, Zenon
    <3> QED BY <3>3, <3>4
  <2>2. CASE q.stream # TRUE
    <3>1. \/ q.enabled = TRUE /\ Plugin(q, complete) = <<"tools", "texts">>
          \/ q.enabled = FALSE /\ Plugin(q, complete) = <<>>
      BY <1>1, <2>2 DEF Plugin
    <3>2. q.stream = FALSE
      BY <1>1, <2>2
    <3>3. CASE q.provider = "chat"
      <4>1. Finish(q, complete) = <<"tools">> \o Plugin(q, complete) \o <<"write">>
        BY <3>2, <3>3, Zenon DEF Finish
      <4> QED BY <1>2, <1>3, <3>1, <4>1, Zenon
    <3>4. CASE q.provider # "chat"
      <4>1. Finish(q, complete) = <<>> \o Plugin(q, complete) \o <<"write">>
        BY <3>2, <3>4, Zenon DEF Finish
      <4> QED BY <1>2, <1>3, <3>1, <3>4, <4>1, Zenon
    <3> QED BY <3>3, <3>4
  <2> QED BY <2>1, <2>2
<1>5. /\ \A u \in {<<>>, <<"tools", "texts">>, <<"tools">>, <<"tools", "texts", "tools">>,
                   <<"tools", "tools", "texts", "write">>, <<"tools", "texts", "write">>} :
            u # <<"texts", "write">> /\ u # <<"write">> /\ u # <<"tools", "write">>
      /\ <<"write">> # <<"texts", "write">> /\ <<"write">> # <<"tools", "write">>
      /\ <<"tools", "write">> # <<"texts", "write">>
  OBVIOUS
<1>6. /\ <<"tools", "texts">> \in Ends /\ <<"tools">> \in Ends
      /\ <<"tools", "texts", "tools">> \in Ends /\ <<"write">> \in Ends
      /\ <<"tools", "tools", "texts", "write">> \in Ends
      /\ <<"tools", "texts", "write">> \in Ends /\ <<"tools", "write">> \in Ends
  BY Zenon DEF Ends
<1> QED BY <1>4, <1>5, <1>6, Zenon

LEMMA IdleFacts ==
    /\ Idle \in Handler /\ Idle.todo = <<"idle">> /\ Idle.key = Ephemeral
    /\ Idle.object = NoObject /\ Idle.turn = NoBlock /\ Idle.presented = {}
    /\ Idle.replayed = [n \in Blocks |-> NoBlock]
<1>1. (CHOOSE q \in Questions : TRUE) \in Questions
  BY QuestionsAssumption
<1>2. <<"idle">> \in Seq(Phases) /\ 0 \in 0..MaxTime
  BY BoundsAssumption DEF Phases
<1> QED BY <1>1, <1>2 DEF Idle, Handler, NoBlock

---------------------------------------------------------------------------
(* The caches *)

LEMMA ToSetOf ==
    ASSUME NEW S, NEW s \in Seq(S)
    PROVE  /\ DOMAIN s = 1..Len(s) /\ Len(s) \in Nat
           /\ \A x : x \in ToSet(s) <=> \E i \in 1..Len(s) : s[i] = x
           /\ ToSet(s) \subseteq S
           /\ IsInjective(s) <=> \A i, j \in 1..Len(s) : s[i] = s[j] => i = j
<1>1. DOMAIN s = 1..Len(s) /\ Len(s) \in Nat /\ \A i \in 1..Len(s) : s[i] \in S
  BY LenProperties, ElementOfSeq
<1> QED BY <1>1 DEF ToSet, IsInjective

LEMMA InSet ==
    ASSUME NEW S, NEW s \in Seq(S)
    PROVE  \A x : x \in ToSet(s) <=> \E i \in 1..Len(s) : s[i] = x
  BY LenProperties DEF ToSet

\* A selection of different elements.
LEMMA SelectedInjective ==
    ASSUME NEW S, NEW s \in Seq(S), NEW A, IsInjective(s)
    PROVE  /\ Selected(s, A) \in Seq(S) /\ IsInjective(Selected(s, A))
           /\ \A x : x \in ToSet(Selected(s, A)) <=> x \in ToSet(s) /\ x \in A
<1>1. PICK n : n = Selected(s, A)
  OBVIOUS
<1>2. n \in Seq(S)
  BY <1>1, SelectedFacts
<1>3. \A i \in 1..Len(n) : n[i] \in A
  BY <1>1, SelectedFacts
<1>4. \A m \in 1..Len(s) : s[m] \in A => \E i \in 1..Len(n) : n[i] = s[m]
  BY <1>1, SelectedFacts
<1>5. \A i \in 1..Len(n) : \E m \in 1..Len(s) : n[i] = s[m]
  BY <1>1, SelectedFacts
<1>6. \A i, j \in 1..Len(n) :
         i < j => \E l, m \in 1..Len(s) : l < m /\ n[i] = s[l] /\ n[j] = s[m]
  <2>1. \A i, j \in 1..Len(Selected(s, A)) :
           i < j => \E l, m \in 1..Len(s) :
                       l < m /\ Selected(s, A)[i] = s[l] /\ Selected(s, A)[j] = s[m]
    BY SelectedFacts
  <2> QED BY <1>1, <2>1
<1>7. \A x : x \in ToSet(n) <=> x \in ToSet(s) /\ x \in A
  <2>1. \A x : x \in ToSet(n) <=> \E i \in 1..Len(n) : n[i] = x
    BY <1>2, InSet
  <2>2. \A x : x \in ToSet(s) <=> \E i \in 1..Len(s) : s[i] = x
    BY InSet
  <2> QED BY <1>3, <1>4, <1>5, <2>1, <2>2
<1>8. ASSUME NEW i \in 1..Len(n), NEW j \in 1..Len(n), i < j PROVE n[i] # n[j]
  <2>1. PICK l, m \in 1..Len(s) : l < m /\ n[i] = s[l] /\ n[j] = s[m]
    BY <1>6, <1>8
  <2>2. Len(s) \in Nat
    BY LenProperties
  <2>3. l # m
    BY <2>1, <2>2
  <2>4. \A x, y \in 1..Len(s) : s[x] = s[y] => x = y
    BY ToSetOf
  <2> QED BY <2>1, <2>3, <2>4
<1>9. Len(n) \in Nat /\ DOMAIN n = 1..Len(n)
  BY <1>2, LenProperties
<1>10. \A i, j \in 1..Len(n) : n[i] = n[j] => i = j
  BY <1>8, <1>9
<1>11. IsInjective(n)
  BY <1>9, <1>10 DEF IsInjective
<1> QED BY <1>1, <1>2, <1>7, <1>11

\* Two sequences of different elements.
LEMMA ConcatInjective ==
    ASSUME NEW S, NEW s \in Seq(S), NEW n \in Seq(S), IsInjective(s), IsInjective(n),
           \A x : x \in ToSet(n) => x \notin ToSet(s)
    PROVE  /\ s \o n \in Seq(S) /\ IsInjective(s \o n)
           /\ \A x : x \in ToSet(s \o n) <=> x \in ToSet(s) \/ x \in ToSet(n)
<1>1. PICK q : q = s \o n
  OBVIOUS
<1>3. PICK a \in Nat : a = Len(s)
  BY LenProperties
<1>4. PICK b \in Nat : b = Len(n)
  BY LenProperties
<1>5. /\ q \in Seq(S) /\ Len(q) = a + b
      /\ \A i \in 1..(a + b) : q[i] = IF i <= a THEN s[i] ELSE n[i - a]
  BY <1>1, <1>3, <1>4, ConcatProperties
<1>6. \A i \in 1..a : q[i] = s[i]
  BY <1>3, <1>4, <1>5
<1>7. ASSUME NEW i \in 1..b PROVE q[a + i] = n[i]
  <2>1. a + i \in 1..(a + b) /\ ~(a + i <= a) /\ (a + i) - a = i
    BY <1>3, <1>4
  <2> QED BY <1>5, <2>1
<1>8. \A i \in 1..(a + b) : i \in 1..a \/ \E j \in 1..b : i = a + j
  <2>1. ASSUME NEW i \in 1..(a + b), i \notin 1..a PROVE i - a \in 1..b /\ i = a + (i - a)
    BY <1>3, <1>4, <2>1
  <2> QED BY <2>1
<1>9. \A i, j \in 1..b : n[i] = n[j] => i = j
  BY <1>4, ToSetOf
<1>10. \A i, j \in 1..a : s[i] = s[j] => i = j
  BY <1>3, ToSetOf
<1>11. \A x : x \in ToSet(s) <=> \E i \in 1..a : s[i] = x
  BY <1>3, InSet
<1>12. \A x : x \in ToSet(n) <=> \E i \in 1..b : n[i] = x
  BY <1>4, InSet
<1>13. \A x : x \in ToSet(q) <=> \E i \in 1..(a + b) : q[i] = x
  <2>1. \A x : x \in ToSet(q) <=> \E i \in 1..Len(q) : q[i] = x
    BY <1>5, InSet
  <2> QED BY <1>5, <2>1
<1>14. /\ \A i \in 1..a : i \in 1..(a + b)
       /\ \A i \in 1..b : a + i \in 1..(a + b)
  BY <1>3, <1>4
<1>15. ASSUME NEW x PROVE x \in ToSet(q) <=> x \in ToSet(s) \/ x \in ToSet(n)
  <2>1. ASSUME x \in ToSet(q) PROVE x \in ToSet(s) \/ x \in ToSet(n)
    <3>1. PICK i \in 1..(a + b) : q[i] = x
      BY <1>13, <2>1
    <3>2. CASE i \in 1..a
      BY <1>6, <1>11, <3>1, <3>2
    <3>3. CASE i \notin 1..a
      <4>1. PICK j \in 1..b : i = a + j
        BY <1>8, <3>3
      <4> QED BY <1>7, <1>12, <3>1, <4>1
    <3> QED BY <3>2, <3>3
  <2>2. ASSUME x \in ToSet(s) PROVE x \in ToSet(q)
    BY <1>6, <1>11, <1>13, <1>14, <2>2
  <2>3. ASSUME x \in ToSet(n) PROVE x \in ToSet(q)
    BY <1>7, <1>12, <1>13, <1>14, <2>3
  <2> QED BY <2>1, <2>2, <2>3
<1>16. ASSUME NEW i \in 1..a, NEW j \in 1..b PROVE s[i] # n[j]
  BY <1>11, <1>12
<1>17. ASSUME NEW i \in 1..(a + b), NEW j \in 1..(a + b), q[i] = q[j] PROVE i = j
  <2>1. CASE i \in 1..a /\ j \in 1..a
    BY <1>6, <1>10, <1>17, <2>1
  <2>2. CASE i \in 1..a /\ j \notin 1..a
    <3>1. PICK l \in 1..b : j = a + l
      BY <1>8, <2>2
    <3> QED BY <1>6, <1>7, <1>16, <1>17, <2>2, <3>1
  <2>3. CASE i \notin 1..a /\ j \in 1..a
    <3>1. PICK l \in 1..b : i = a + l
      BY <1>8, <2>3
    <3> QED BY <1>6, <1>7, <1>16, <1>17, <2>3, <3>1
  <2>4. CASE i \notin 1..a /\ j \notin 1..a
    <3>1. PICK l \in 1..b : i = a + l
      BY <1>8, <2>4
    <3>2. PICK m \in 1..b : j = a + m
      BY <1>8, <2>4
    <3> QED BY <1>7, <1>9, <1>17, <3>1, <3>2
  <2> QED BY <2>1, <2>2, <2>3, <2>4
<1>18. IsInjective(q)
  <2>1. DOMAIN q = 1..(a + b)
    BY <1>5, LenProperties
  <2> QED BY <1>17, <2>1 DEF IsInjective
<1> QED BY <1>1, <1>5, <1>15, <1>18

LEMMA KeptFacts ==
    ASSUME NEW S, NEW order \in Seq(S), IsInjective(order), NEW L \in Nat, L = Len(order),
           NEW drop \in Nat, drop <= L, NEW m \in Int, m = drop + 1
    PROVE  LET kept == SubSeq(order, m, L) IN
           /\ kept \in Seq(S) /\ IsInjective(kept) /\ Len(kept) = L - drop
           /\ \A x : x \in ToSet(kept) => x \in ToSet(order)
           /\ ~(drop > 0) => \A x : x \in ToSet(order) => x \in ToSet(kept)
<1>k. PICK kept : kept = SubSeq(order, m, L)
  OBVIOUS
<1>0. L - drop \in Nat
  OBVIOUS
<1>1. PICK K \in Nat : K = L - drop
  BY <1>0
<1>3. \A i \in m..L : order[i] \in S
  <2>1. \A i \in m..L : i \in 1..Len(order)
    OBVIOUS
  <2> QED BY <2>1, ElementOfSeq
<1>5. /\ SubSeq(order, m, L) \in Seq(S)
      /\ Len(SubSeq(order, m, L)) = IF m <= L THEN L - m + 1 ELSE 0
      /\ \A i \in 1..(L - m + 1) : SubSeq(order, m, L)[i] = order[m + i - 1]
  BY <1>3, SubSeqProperties
<1>6. kept \in Seq(S)
  BY <1>k, <1>5
<1>7. L - m + 1 = K /\ (~(m <= L) => K = 0)
  BY <1>1
<1>8. Len(kept) = K
  BY <1>k, <1>5, <1>7
<1>9. ASSUME NEW i \in 1..K PROVE kept[i] = order[drop + i]
  <2>1. kept[i] = order[m + i - 1]
    BY <1>k, <1>5, <1>7
  <2>2. m + i - 1 = drop + i
    OBVIOUS
  <2> QED BY <2>1, <2>2
<1>10. \A i \in 1..K : drop + i \in 1..L
  BY <1>1
<1>11. \A x : x \in ToSet(order) <=> \E i \in 1..L : order[i] = x
  BY InSet
<1>12. \A x : x \in ToSet(kept) <=> \E i \in 1..K : kept[i] = x
  <2>1. \A x : x \in ToSet(kept) <=> \E i \in 1..Len(kept) : kept[i] = x
    BY <1>6, InSet
  <2> QED BY <1>8, <2>1
<1>13. \A x : x \in ToSet(kept) => x \in ToSet(order)
  <2>1. ASSUME NEW x, x \in ToSet(kept) PROVE x \in ToSet(order)
    <3>1. PICK i \in 1..K : kept[i] = x
      BY <1>12, <2>1
    <3>2. order[drop + i] = x /\ drop + i \in 1..L
      BY <1>9, <1>10, <3>1
    <3> QED BY <1>11, <3>2
  <2> QED BY <2>1
<1>14. ASSUME ~(drop > 0) PROVE \A x : x \in ToSet(order) => x \in ToSet(kept)
  <2>1. K = L /\ \A i \in 1..L : drop + i = i
    BY <1>1, <1>14
  <2>2. \A i \in 1..L : kept[i] = order[i]
    BY <1>9, <2>1
  <2>3. \A x : x \in ToSet(kept) <=> \E i \in 1..L : kept[i] = x
    BY <1>12, <2>1
  <2> QED BY <1>11, <2>2, <2>3
<1>15. IsInjective(kept)
  <2>1. \A i, j \in 1..L : order[i] = order[j] => i = j
    BY ToSetOf
  <2>2. ASSUME NEW i \in 1..K, NEW j \in 1..K, kept[i] = kept[j] PROVE i = j
    <3>1. order[drop + i] = order[drop + j]
      BY <1>9, <2>2
    <3>2. drop + i = drop + j
      BY <1>10, <2>1, <3>1
    <3> QED BY <3>2
  <2>3. \A i, j \in 1..Len(kept) : kept[i] = kept[j] => i = j
    BY <1>8, <2>2
  <2>4. DOMAIN kept = 1..Len(kept)
    BY <1>6, LenProperties
  <2> QED BY <2>3, <2>4 DEF IsInjective
<1> QED BY <1>k, <1>1, <1>6, <1>8, <1>13, <1>14, <1>15

\* The cache d holds the block b for some ids and those of c otherwise, and has lost
\* nothing unless it says so.
Remembers(d, c, ids, b) ==
    /\ \A i \in DOMAIN d.block :
          \/ i \in ToSet(ids) /\ d.block[i] = b
          \/ i \in DOMAIN c.block /\ d.block[i] = c.block[i]
    /\ d.full = FALSE => c.full = FALSE
    /\ d.full = FALSE => \A i : i \in DOMAIN c.block \/ i \in ToSet(ids) => i \in DOMAIN d.block

LEMMA RememberFacts ==
    ASSUME NEW Ids, NEW c, IsCache(c, Ids), Consistent(c),
           NEW ids \in Seq(Ids), IsInjective(ids), NEW b \in Blocks
    PROVE  LET d == Remember(c, ids, b) IN
           IsCache(d, Ids) /\ Consistent(d) /\ Remembers(d, c, ids, b)
<1>d. PICK d : d = Remember(c, ids, b)
  OBVIOUS
<1>1. /\ c.order \in Seq(Ids) /\ c.full \in BOOLEAN /\ DOMAIN c.block \subseteq Ids
      /\ \A i \in DOMAIN c.block : c.block[i] \in Blocks
      /\ DOMAIN c.block = ToSet(c.order) /\ IsInjective(c.order)
  BY DEF IsCache, Consistent
<1>2. PICK q : q = c.order \o Selected(ids, ToSet(ids) \ DOMAIN c.block)
  OBVIOUS
<1>3. /\ q \in Seq(Ids) /\ IsInjective(q)
      /\ \A x : x \in ToSet(q) <=> x \in ToSet(c.order) \/ x \in ToSet(ids)
  <2>1. PICK o \in Seq(Ids) : o = c.order
    BY <1>1
  <2>2. PICK n : n = Selected(ids, ToSet(ids) \ DOMAIN c.block)
    OBVIOUS
  <2>3. n \in Seq(Ids) /\ IsInjective(n)
    BY <2>2, SelectedInjective
  <2>4. \A x : x \in ToSet(n) <=> x \in ToSet(ids) /\ x \notin ToSet(o)
    <3>1. PICK A : A = ToSet(ids) \ DOMAIN c.block
      OBVIOUS
    <3>2. n = Selected(ids, A)
      BY <2>2, <3>1
    <3>3. \A x : x \in ToSet(Selected(ids, A)) <=> x \in ToSet(ids) /\ x \in A
      BY SelectedInjective
    <3>4. \A x : x \in A <=> x \in ToSet(ids) /\ x \notin ToSet(o)
      BY <1>1, <2>1, <3>1
    <3> QED BY <3>2, <3>3, <3>4
  <2>5. IsInjective(o) /\ q = o \o n
    BY <1>1, <1>2, <2>1, <2>2
  <2>6. /\ o \o n \in Seq(Ids) /\ IsInjective(o \o n)
        /\ \A x : x \in ToSet(o \o n) <=> x \in ToSet(o) \/ x \in ToSet(n)
    BY <2>1, <2>3, <2>4, <2>5, ConcatInjective
  <2> QED BY <2>1, <2>4, <2>5, <2>6
<1>4. PICK drop : drop = IF Len(q) > Limit THEN Len(q) - Limit ELSE 0
  OBVIOUS
<1>5. PICK kept : kept = SubSeq(q, drop + 1, Len(q))
  OBVIOUS
<1>6. /\ kept \in Seq(Ids) /\ IsInjective(kept) /\ Len(kept) <= Limit
      /\ \A x : x \in ToSet(kept) => x \in ToSet(q)
      /\ ~(drop > 0) => \A x : x \in ToSet(q) => x \in ToSet(kept)
  <2>1. PICK L \in Nat : L = Len(q)
    BY <1>3, LenProperties
  <2>2. drop \in Nat /\ drop <= L /\ L - drop <= Limit
    BY <1>4, <2>1, LimitAssumption
  <2>3. PICK m \in Int : m = drop + 1
    BY <2>2
  <2>4. kept = SubSeq(q, m, L)
    BY <1>5, <2>1, <2>3
  <2>5. q \in Seq(Ids) /\ IsInjective(q)
    BY <1>3
  <2>6. /\ SubSeq(q, m, L) \in Seq(Ids) /\ IsInjective(SubSeq(q, m, L))
        /\ Len(SubSeq(q, m, L)) = L - drop
        /\ \A x : x \in ToSet(SubSeq(q, m, L)) => x \in ToSet(q)
        /\ ~(drop > 0) => \A x : x \in ToSet(q) => x \in ToSet(SubSeq(q, m, L))
    BY <2>1, <2>2, <2>3, <2>5, KeptFacts
  <2> QED BY <2>2, <2>4, <2>6
<1>7. d = [order |-> kept,
           block |-> [i \in ToSet(kept) |-> IF i \in ToSet(ids) THEN b ELSE c.block[i]],
           full |-> c.full \/ drop > 0]
  BY <1>d, <1>2, <1>4, <1>5 DEF Remember, Pruned
<1>8. /\ DOMAIN d = {"order", "block", "full"} /\ d.order = kept
      /\ d.block = [i \in ToSet(kept) |-> IF i \in ToSet(ids) THEN b ELSE c.block[i]]
      /\ d.full = (c.full \/ drop > 0)
  BY <1>7
<1>9. /\ DOMAIN d.block = ToSet(kept)
      /\ \A i \in ToSet(kept) : d.block[i] = IF i \in ToSet(ids) THEN b ELSE c.block[i]
  BY <1>8
<1>10. \A i \in ToSet(kept) : i \in ToSet(ids) \/ i \in DOMAIN c.block
  BY <1>1, <1>3, <1>6
<1>11. \A i \in DOMAIN d.block : \/ i \in ToSet(ids) /\ d.block[i] = b
                                 \/ i \in DOMAIN c.block /\ d.block[i] = c.block[i]
  BY <1>9, <1>10
<1>12. d.full \in BOOLEAN /\ (d.full = FALSE => c.full = FALSE /\ ~(drop > 0))
  BY <1>1, <1>8, Zenon
<1>13. ToSet(kept) \subseteq Ids
  BY <1>6, ToSetOf
<1>14. IsCache(d, Ids)
  BY <1>1, <1>6, <1>8, <1>9, <1>11, <1>12, <1>13 DEF IsCache
<1>15. Consistent(d)
  BY <1>6, <1>8, <1>9 DEF Consistent
<1>16. Remembers(d, c, ids, b)
  BY <1>1, <1>3, <1>6, <1>9, <1>11, <1>12 DEF Remembers
<1> QED BY <1>d, <1>14, <1>15, <1>16

---------------------------------------------------------------------------
(* One session *)

\* What t still knows of what s knew, if nothing was pushed out.
Grows(s, t) ==
    /\ t.tools.full = FALSE =>
          s.tools.full = FALSE /\ DOMAIN s.tools.block \subseteq DOMAIN t.tools.block
    /\ t.texts.full = FALSE =>
          s.texts.full = FALSE /\ DOMAIN s.texts.block \subseteq DOMAIN t.texts.block

LEMMA GrowsKeeps ==
    ASSUME NEW s, NEW t, Grows(s, t), NEW x
    PROVE  /\ KeptTools(s, x) => KeptTools(t, x)
           /\ KeptText(s, x) => KeptText(t, x)
  BY DEF Grows, KeptTools, KeptText

\* The answers of ts are those of ts2 as well.
Extends(ts, ts2) == \A n \in DOMAIN ts : n \in DOMAIN ts2 /\ ts2[n] = ts[n]

LEMMA NewSessionFacts ==
    /\ \A k, ts, sh : SessionInv(NewSession, k, ts, sh)
    /\ \A i : i \notin DOMAIN NewSession.tools.block /\ i \notin DOMAIN NewSession.texts.block
    /\ NewSession.served = {}
<1>1. /\ EmptyCache.order = <<>> /\ EmptyCache.block = <<>> /\ EmptyCache.full = FALSE
      /\ DOMAIN EmptyCache = {"order", "block", "full"}
  BY DEF EmptyCache
<1>2. /\ NewSession.tools = EmptyCache /\ NewSession.texts = EmptyCache /\ NewSession.served = {}
      /\ DOMAIN NewSession = {"tools", "texts", "served"}
  BY DEF NewSession
<1>3. DOMAIN EmptyCache.block = {}
  <2>1. DOMAIN <<>> = {}
    OBVIOUS
  <2> QED BY <1>1, <2>1
<1>4. ASSUME NEW S PROVE IsCache(EmptyCache, S)
  <2>1. <<>> \in Seq(S)
    OBVIOUS
  <2> QED BY <1>1, <1>3, <2>1 DEF IsCache
<1>5. Consistent(EmptyCache)
  <2>1. <<>> \in Seq({}) /\ Len(<<>>) = 0 /\ DOMAIN <<>> = {}
    BY EmptySeq
  <2>2. ToSet(<<>>) = {} /\ IsInjective(<<>>)
    BY <2>1 DEF ToSet, IsInjective
  <2>3. 0 <= Limit
    BY LimitAssumption
  <2> QED BY <1>1, <1>3, <2>1, <2>2, <2>3 DEF Consistent
<1>6. IsSession(NewSession)
  BY <1>2, <1>4 DEF IsSession
<1>7. ASSUME NEW k, NEW ts, NEW sh PROVE SessionInv(NewSession, k, ts, sh)
  <2>1. RecordedTools(EmptyCache, k, ts) /\ RecordedTexts(EmptyCache, k, ts)
    BY <1>3 DEF RecordedTools, RecordedTexts
  <2> QED BY <1>2, <1>5, <1>6, <2>1 DEF SessionInv
<1> QED BY <1>2, <1>3, <1>7

\* A session when there is one more answer or a client has got one.
LEMMA SessionAges ==
    ASSUME NEW s, NEW k, NEW ts, NEW sh, SessionInv(s, k, ts, sh),
           NEW ts2, NEW sh2, Extends(ts, ts2),
           \A n \in s.served \cap sh2 :
               n \in sh \/ ts2[n].q.stream # FALSE \/ (KeptTools(s, ts2[n]) /\ KeptText(s, ts2[n]))
    PROVE  SessionInv(s, k, ts2, sh2)
<1>1. /\ IsSession(s) /\ s.served \subseteq DOMAIN ts
      /\ Consistent(s.tools) /\ Consistent(s.texts)
  BY DEF SessionInv
<1>2. RecordedTools(s.tools, k, ts2)
  <2>1. RecordedTools(s.tools, k, ts)
    BY DEF SessionInv
  <2> QED BY <2>1 DEF RecordedTools, Extends
<1>3. RecordedTexts(s.texts, k, ts2)
  <2>1. RecordedTexts(s.texts, k, ts)
    BY DEF SessionInv
  <2> QED BY <2>1 DEF RecordedTexts, Extends
<1>4. s.served \subseteq DOMAIN ts2
  BY <1>1 DEF Extends
<1>5. ASSUME NEW n \in s.served \cap sh2, ts2[n].q.stream = FALSE
      PROVE  KeptTools(s, ts2[n]) /\ KeptText(s, ts2[n])
  <2>1. CASE n \in sh
    <3>1. ts2[n] = ts[n]
      BY <1>1 DEF Extends
    <3>2. ts[n].q.stream = FALSE => KeptTools(s, ts[n]) /\ KeptText(s, ts[n])
      BY <2>1 DEF SessionInv
    <3> QED BY <1>5, <3>1, <3>2
  <2> QED BY <1>5, <2>1
<1> QED BY <1>1, <1>2, <1>3, <1>4, <1>5 DEF SessionInv

\* A session that serves answer n, which nobody has got yet.
LEMMA SessionServes ==
    ASSUME NEW s, NEW k, NEW ts, NEW sh, SessionInv(s, k, ts, sh),
           NEW n \in DOMAIN ts, n \in Blocks, n \in sh => ts[n].q.stream # FALSE,
           NEW u, u = [s EXCEPT !.served = @ \cup {n}]
    PROVE  SessionInv(u, k, ts, sh) /\ Grows(s, u)
<1>1. /\ IsSession(s) /\ s.served \subseteq DOMAIN ts
      /\ Consistent(s.tools) /\ Consistent(s.texts)
      /\ RecordedTools(s.tools, k, ts) /\ RecordedTexts(s.texts, k, ts)
  BY DEF SessionInv
<1>2. DOMAIN s = {"tools", "texts", "served"}
  BY <1>1 DEF IsSession
<1>3. /\ DOMAIN u = {"tools", "texts", "served"} /\ u.tools = s.tools /\ u.texts = s.texts
      /\ u.served = s.served \cup {n}
  BY <1>2
<1>4. IsSession(u)
  BY <1>1, <1>3 DEF IsSession
<1>5. ASSUME NEW m \in u.served \cap sh, ts[m].q.stream = FALSE
      PROVE  KeptTools(u, ts[m]) /\ KeptText(u, ts[m])
  <2>1. m \in s.served \cap sh
    BY <1>3, <1>5
  <2>2. KeptTools(s, ts[m]) /\ KeptText(s, ts[m])
    BY <1>5, <2>1 DEF SessionInv
  <2> QED BY <1>3, <2>2 DEF KeptTools, KeptText
<1>6. Grows(s, u)
  BY <1>3 DEF Grows
<1> QED BY <1>1, <1>3, <1>4, <1>5, <1>6 DEF SessionInv

\* A session that remembers answer n by its tool calls.
LEMMA SessionRemembersTools ==
    ASSUME NEW s, NEW k, NEW ts, NEW sh, SessionInv(s, k, ts, sh),
           NEW n \in DOMAIN ts, n \in Blocks, IsAnswer(ts[n].a),
           ts[n].key = k, ts[n].a.thinking = TRUE,
           NEW u, u = [s EXCEPT !.tools = Remember(@, ts[n].a.tools, n)]
    PROVE  SessionInv(u, k, ts, sh) /\ Grows(s, u) /\ KeptTools(u, ts[n])
<1>1. /\ IsSession(s) /\ s.served \subseteq DOMAIN ts
      /\ Consistent(s.tools) /\ Consistent(s.texts)
      /\ RecordedTools(s.tools, k, ts) /\ RecordedTexts(s.texts, k, ts)
  BY DEF SessionInv
<1>2. DOMAIN s = {"tools", "texts", "served"} /\ IsCache(s.tools, ToolIds)
  BY <1>1 DEF IsSession
<1>3. PICK ids : ids = ts[n].a.tools
  OBVIOUS
<1>4. ids \in Seq(ToolIds) /\ IsInjective(ids)
  BY <1>3 DEF IsAnswer
<1>5. PICK d : d = Remember(s.tools, ids, n)
  OBVIOUS
<1>6. /\ DOMAIN u = {"tools", "texts", "served"} /\ u.tools = d /\ u.texts = s.texts
      /\ u.served = s.served
  BY <1>2, <1>3, <1>5
<1>7. /\ IsCache(d, ToolIds) /\ Consistent(d)
      /\ \A i \in DOMAIN d.block :
            \/ i \in ToSet(ids) /\ d.block[i] = n
            \/ i \in DOMAIN s.tools.block /\ d.block[i] = s.tools.block[i]
      /\ d.full = FALSE => s.tools.full = FALSE
      /\ d.full = FALSE =>
            \A i : i \in DOMAIN s.tools.block \/ i \in ToSet(ids) => i \in DOMAIN d.block
  <2>1. PICK c : c = s.tools
    OBVIOUS
  <2>2. IsCache(c, ToolIds) /\ Consistent(c) /\ d = Remember(c, ids, n)
    BY <1>1, <1>2, <1>5, <2>1
  <2>3. ids \in Seq(ToolIds) /\ IsInjective(ids) /\ n \in Blocks
    BY <1>4
  <2>4. IsCache(d, ToolIds) /\ Consistent(d) /\ Remembers(d, c, ids, n)
    BY <2>2, <2>3, RememberFacts
  <2> QED BY <2>1, <2>4 DEF Remembers
<1>8. IsSession(u)
  BY <1>1, <1>6, <1>7 DEF IsSession
<1>9. Grows(s, u)
  BY <1>6, <1>7 DEF Grows
<1>10. KeptTools(u, ts[n])
  BY <1>3, <1>6, <1>7 DEF KeptTools
<1>11. RecordedTools(d, k, ts)
  BY <1>1, <1>3, <1>7 DEF RecordedTools
<1>12. ASSUME NEW m \in u.served \cap sh, ts[m].q.stream = FALSE
       PROVE  KeptTools(u, ts[m]) /\ KeptText(u, ts[m])
  <2>1. KeptTools(s, ts[m]) /\ KeptText(s, ts[m])
    BY <1>6, <1>12 DEF SessionInv
  <2> QED BY <1>9, <2>1, GrowsKeeps
<1> QED BY <1>1, <1>6, <1>7, <1>8, <1>9, <1>10, <1>11, <1>12 DEF SessionInv

\* The same by its text.
LEMMA SessionRemembersText ==
    ASSUME NEW s, NEW k, NEW ts, NEW sh, SessionInv(s, k, ts, sh),
           NEW n \in DOMAIN ts, n \in Blocks, IsAnswer(ts[n].a),
           ts[n].key = k, ts[n].a.thinking = TRUE, ts[n].a.text # NoText,
           NEW u, u = [s EXCEPT !.texts = Remember(@, <<ts[n].a.text>>, n)]
    PROVE  SessionInv(u, k, ts, sh) /\ Grows(s, u) /\ KeptText(u, ts[n])
<1>1. /\ IsSession(s) /\ s.served \subseteq DOMAIN ts
      /\ Consistent(s.tools) /\ Consistent(s.texts)
      /\ RecordedTools(s.tools, k, ts) /\ RecordedTexts(s.texts, k, ts)
  BY DEF SessionInv
<1>2. DOMAIN s = {"tools", "texts", "served"} /\ IsCache(s.texts, Texts)
  BY <1>1 DEF IsSession
<1>3. PICK x : x = ts[n].a.text
  OBVIOUS
<1>4. x \in Texts
  BY <1>3 DEF IsAnswer
<1>5. PICK ids : ids = <<x>>
  OBVIOUS
<1>6. ids \in Seq(Texts) /\ IsInjective(ids) /\ \A i : i \in ToSet(ids) <=> i = x
  BY <1>4, <1>5 DEF IsInjective, ToSet
<1>7. PICK d : d = Remember(s.texts, ids, n)
  OBVIOUS
<1>8. /\ DOMAIN u = {"tools", "texts", "served"} /\ u.texts = d /\ u.tools = s.tools
      /\ u.served = s.served
  BY <1>2, <1>3, <1>5, <1>7
<1>9. /\ IsCache(d, Texts) /\ Consistent(d)
      /\ \A i \in DOMAIN d.block :
            \/ i \in ToSet(ids) /\ d.block[i] = n
            \/ i \in DOMAIN s.texts.block /\ d.block[i] = s.texts.block[i]
      /\ d.full = FALSE => s.texts.full = FALSE
      /\ d.full = FALSE =>
            \A i : i \in DOMAIN s.texts.block \/ i \in ToSet(ids) => i \in DOMAIN d.block
  <2>1. PICK c : c = s.texts
    OBVIOUS
  <2>2. IsCache(c, Texts) /\ Consistent(c) /\ d = Remember(c, ids, n)
    BY <1>1, <1>2, <1>7, <2>1
  <2>3. ids \in Seq(Texts) /\ IsInjective(ids) /\ n \in Blocks
    BY <1>6
  <2>4. IsCache(d, Texts) /\ Consistent(d) /\ Remembers(d, c, ids, n)
    BY <2>2, <2>3, RememberFacts
  <2> QED BY <2>1, <2>4 DEF Remembers
<1>10. IsSession(u)
  BY <1>1, <1>8, <1>9 DEF IsSession
<1>11. Grows(s, u)
  BY <1>8, <1>9 DEF Grows
<1>12. KeptText(u, ts[n])
  BY <1>3, <1>6, <1>8, <1>9 DEF KeptText
<1>13. RecordedTexts(d, k, ts)
  BY <1>1, <1>3, <1>6, <1>9 DEF RecordedTexts
<1>14. ASSUME NEW m \in u.served \cap sh, ts[m].q.stream = FALSE
       PROVE  KeptTools(u, ts[m]) /\ KeptText(u, ts[m])
  <2>1. KeptTools(s, ts[m]) /\ KeptText(s, ts[m])
    BY <1>8, <1>14 DEF SessionInv
  <2> QED BY <1>11, <2>1, GrowsKeeps
<1> QED BY <1>1, <1>8, <1>9, <1>10, <1>11, <1>12, <1>13, <1>14 DEF SessionInv

---------------------------------------------------------------------------
(* Handlers and the sessions they hold *)

LEMMA HandlerTypes ==
    ASSUME NEW x \in Handler
    PROVE  /\ x.todo \in Seq(Phases) /\ x.key \in Keys \cup {Ephemeral} /\ x.q \in Questions
           /\ x.since \in 0..MaxTime /\ x.object \in Objects \cup {NoObject}
           /\ x.turn \in {NoBlock} \cup Blocks /\ x.presented \subseteq Blocks
           /\ x.replayed \in [Blocks -> {NoBlock} \cup Blocks]
  BY DEF Handler

LEMMA Phase ==
    ASSUME NEW x, NEW hp, NEW ts, NEW sh, HandlerInv(x, hp, ts, sh)
    PROVE  /\ Head(x.todo) = "idle" => x = Idle
           /\ Head(x.todo) \in {"touch", "lookup", "replay", "call"} => Waiting(x, hp, ts, sh)
           /\ Head(x.todo) \in {"tools", "texts", "write"} => Ending(x, hp, ts)
<1>1. x = Idle => Head(x.todo) = "idle"
  BY IdleFacts
<1>2. Waiting(x, hp, ts, sh) => Head(x.todo) \in {"touch", "lookup", "replay", "call"}
  BY WaitsSteps DEF Waiting
<1>3. Ending(x, hp, ts) => Head(x.todo) \in {"tools", "texts", "write"}
  BY EndsSteps DEF Ending
<1>4. x = Idle \/ Waiting(x, hp, ts, sh) \/ Ending(x, hp, ts)
  BY DEF HandlerInv
<1> QED BY <1>1, <1>2, <1>3, <1>4

LEMMA GotoFacts ==
    ASSUME NEW x \in Handler, NEW steps \in Seq(Phases), now \in 0..MaxTime
    PROVE  /\ Goto(x, steps) \in Handler
           /\ steps = <<>> => Goto(x, steps) = Idle
           /\ steps # <<>> =>
                 /\ Goto(x, steps).todo = steps
                 /\ Goto(x, steps).key = x.key /\ Goto(x, steps).q = x.q
                 /\ Goto(x, steps).object = x.object /\ Goto(x, steps).turn = x.turn
                 /\ Goto(x, steps).presented = x.presented
                 /\ Goto(x, steps).replayed = x.replayed
<1>1. CASE steps = <<>>
  BY <1>1, IdleFacts DEF Goto
<1>2. CASE steps # <<>>
  <2>1. PICK t : t = IF Looks(steps) THEN now ELSE 0
    OBVIOUS
  <2>2. t \in 0..MaxTime
    BY <2>1, BoundsAssumption
  <2>3. Goto(x, steps) = [x EXCEPT !.todo = steps, !.since = t]
    BY <1>2, <2>1 DEF Goto
  <2> QED BY <1>2, <2>2, <2>3 DEF Handler
<1> QED BY <1>1, <1>2

\* What a handler is assured of, after sessions of others have changed.
LEMMA HandlerAges ==
    ASSUME NEW x, NEW hp, NEW ts, NEW sh, HandlerInv(x, hp, ts, sh), sh \subseteq DOMAIN ts,
           NEW hp2, NEW ts2, NEW sh2, Extends(ts, ts2), sh \subseteq sh2,
           x.object # NoObject => Grows(hp[x.object], hp2[x.object]),
           x.object # NoObject /\ x.key = Ephemeral /\ x.turn = NoBlock
               => hp2[x.object] = hp[x.object]
    PROVE  HandlerInv(x, hp2, ts2, sh2)
<1>1. ASSUME NEW n \in Blocks, x.replayed[n] # NoBlock PROVE Own(x.replayed[n], n, ts2)
  <2>1. Own(x.replayed[n], n, ts)
    BY <1>1 DEF HandlerInv
  <2>2. /\ x.replayed[n] \in DOMAIN ts2 /\ ts2[x.replayed[n]] = ts[x.replayed[n]]
        /\ n \in DOMAIN ts2 /\ ts2[n] = ts[n]
    BY <2>1 DEF Own, Extends
  <2> QED BY <2>1, <2>2 DEF Own
<1>2. CASE x = Idle
  BY <1>1, <1>2 DEF HandlerInv
<1>3. CASE Waiting(x, hp, ts, sh)
  <2>1. x.presented \subseteq sh2 /\ \A n \in x.presented : ts2[n].key = x.key
    BY <1>3 DEF Waiting, Extends
  <2>2. Waiting(x, hp2, ts2, sh2)
    BY <1>3, <2>1 DEF Waiting
  <2> QED BY <1>1, <2>2 DEF HandlerInv
<1>4. CASE Ending(x, hp, ts)
  <2>1. x.object # NoObject /\ x.turn \in DOMAIN ts2 /\ ts2[x.turn] = ts[x.turn]
    BY <1>4 DEF Ending, Extends
  <2>2. /\ KeptTools(hp[x.object], ts[x.turn]) => KeptTools(hp2[x.object], ts[x.turn])
        /\ KeptText(hp[x.object], ts[x.turn]) => KeptText(hp2[x.object], ts[x.turn])
    BY <2>1, GrowsKeeps
  <2>3. Ending(x, hp2, ts2)
    BY <1>4, <2>1, <2>2 DEF Ending
  <2> QED BY <1>1, <2>3 DEF HandlerInv
<1> QED BY <1>2, <1>3, <1>4 DEF HandlerInv

LEMMA Holders ==
    ASSUME NEW p, NEW hs, DOMAIN p \subseteq Keys, \A k \in DOMAIN p : p[k].object \in Objects,
           hs \in [Requests -> Handler]
    PROVE  /\ \A o, k : Holds(p, hs, o, k) /\ o # NoObject =>
                 /\ k \in Keys \cup {Ephemeral} /\ o \in Objects /\ o \in Reachable(p, hs)
           /\ \A o \in Reachable(p, hs) : \E k \in Keys \cup {Ephemeral} : Holds(p, hs, o, k)
           /\ Reachable(p, hs) \subseteq Objects
<1>1. \A r \in Requests : hs[r] \in Handler
  OBVIOUS
<1>2. \A r \in Requests : /\ hs[r].object \in Objects \cup {NoObject}
                          /\ hs[r].key \in Keys \cup {Ephemeral}
  BY <1>1, HandlerTypes
<1>3. ASSUME NEW o, NEW k, Holds(p, hs, o, k), o # NoObject
      PROVE  k \in Keys \cup {Ephemeral} /\ o \in Objects /\ o \in Reachable(p, hs)
  BY <1>2, <1>3 DEF Holds, Reachable
<1>4. ASSUME NEW o \in Reachable(p, hs)
      PROVE  o \in Objects /\ \E k \in Keys \cup {Ephemeral} : Holds(p, hs, o, k)
  BY <1>2 DEF Holds, Reachable
<1> QED BY <1>3, <1>4

LEMMA StateTypes ==
    ASSUME StateInv
    PROVE  /\ DOMAIN pool \subseteq Keys /\ \A k \in DOMAIN pool : pool[k].object \in Objects
           /\ \A k \in DOMAIN pool : pool[k].lastUsed \in 0..MaxTime
           /\ h \in [Requests -> Handler] /\ now \in 0..MaxTime /\ MaxTime \in Nat
           /\ limits.max \in Nat /\ limits.ttl \in Nat
<1>1. limits \in [max : Nat, ttl : Nat]
  BY LimitsAssumption DEF StateInv
<1>2. \A k \in DOMAIN pool : pool[k] \in [object : Objects, lastUsed : 0..MaxTime]
  BY DEF StateInv
<1> QED BY <1>1, <1>2, BoundsAssumption DEF StateInv

LEMMA TurnTypes ==
    ASSUME StateInv, NEW n \in DOMAIN turns
    PROVE  /\ n \in Blocks /\ n # NoBlock /\ turns[n] \in Turn /\ IsTurn(turns[n])
           /\ IsAnswer(turns[n].a) /\ DOMAIN turns = 1..Len(turns) /\ Len(turns) \in Nat
<1>1. turns \in Seq(Turn) /\ Len(turns) <= Len(Answers) /\ Len(Answers) \in Nat
  BY BoundsAssumption DEF StateInv
<1>2. DOMAIN turns = 1..Len(turns) /\ Len(turns) \in Nat
  BY <1>1, LenProperties
<1>3. n \in Blocks /\ n # NoBlock
  BY <1>1, <1>2 DEF Blocks, NoBlock
<1>4. turns[n] \in Turn
  BY <1>1, <1>2, ElementOfSeq
<1>5. turns[n].a \in AnyAnswer
  BY <1>4 DEF Turn
<1>6. PICK m \in Blocks : turns[n].a \in Answers[m]
  BY <1>5 DEF AnyAnswer
<1>7. m \in DOMAIN Answers
  BY BoundsAssumption DEF Blocks
<1>8. IsAnswer(turns[n].a)
  BY <1>6, <1>7, AnswersAssumption
<1>9. IsTurn(turns[n])
  BY <1>4, <1>8 DEF Turn, IsTurn
<1> QED BY <1>2, <1>3, <1>4, <1>8, <1>9

\* What the sessions that are still held say after a step.
LEMMA Held ==
    ASSUME IInv, NEW o \in Objects, NEW k \in Keys \cup {Ephemeral}, Holds(pool, h, o, k)
    PROVE  /\ SessionInv(heap[o], k, turns, shown) /\ o \in DOMAIN heap
           /\ \A j \in Keys \cup {Ephemeral} : Holds(pool, h, o, j) => j = k
           /\ heap[o].served \subseteq DOMAIN turns
<1>1. SessionInv(heap[o], k, turns, shown)
  BY DEF IInv, SessionsInv
<1>2. o \in Reachable(pool, h)
  <2>1. o # NoObject
    BY NamesAssumption
  <2>2. /\ DOMAIN pool \subseteq Keys /\ \A i \in DOMAIN pool : pool[i].object \in Objects
        /\ h \in [Requests -> Handler]
    BY StateTypes DEF IInv
  <2> QED BY <2>1, <2>2, Holders
<1>3. \A j \in Keys \cup {Ephemeral} : Holds(pool, h, o, j) => j = k
  BY DEF IInv, OwnersInv, Owners
<1> QED BY <1>1, <1>2, <1>3 DEF IInv, StateInv, SessionInv

\* A handler holds its session.
LEMMA HandlerHolds ==
    ASSUME IInv, NEW r \in Requests, h[r].object # NoObject
    PROVE  /\ h[r].object \in Objects /\ h[r].key \in Keys \cup {Ephemeral}
           /\ Holds(pool, h, h[r].object, h[r].key) /\ h[r].object \in DOMAIN heap
<1>1. h[r] \in Handler
  BY DEF IInv, StateInv
<1>2. h[r].object \in Objects /\ h[r].key \in Keys \cup {Ephemeral}
  BY <1>1, HandlerTypes
<1>3. Holds(pool, h, h[r].object, h[r].key)
  BY DEF Holds
<1> QED BY <1>2, <1>3, Held

---------------------------------------------------------------------------
(* The steps that leave the sessions alone *)

LEMMA QuietStep ==
    ASSUME IInv, UNCHANGED <<world, turns>>, now' \in 0..MaxTime, limits' \in Limits,
           shown \subseteq shown', shown' \subseteq DOMAIN turns,
           DOMAIN pool' \subseteq DOMAIN pool, \A k \in DOMAIN pool' : pool'[k] = pool[k],
           h' \in [Requests -> Handler],
           \A s \in Requests :
               /\ h'[s].object # NoObject => h'[s].object = h[s].object /\ h'[s].key = h[s].key
               /\ h'[s].turn # NoBlock => h'[s].turn = h[s].turn /\ h'[s].object = h[s].object,
           DOMAIN heap' = Reachable(pool', h'), \A o \in DOMAIN heap' : heap'[o] = heap[o],
           \A o \in Objects, k \in Keys \cup {Ephemeral} :
               Holds(pool, h, o, k) => SessionInv(heap[o], k, turns, shown'),
           \A s \in Requests : HandlerInv(h'[s], heap, turns, shown')
    PROVE  IInv'
<1>1. /\ DOMAIN pool \subseteq Keys /\ \A k \in DOMAIN pool : pool[k].object \in Objects
      /\ h \in [Requests -> Handler]
  BY StateTypes DEF IInv
<1>2. DOMAIN pool' \subseteq Keys /\ \A k \in DOMAIN pool' : pool'[k].object \in Objects
  BY <1>1
<1>3. StateInv'
  <2>1. IsFiniteSet(DOMAIN pool')
    BY FS_Subset DEF IInv, StateInv
  <2>2. \A k \in DOMAIN pool' : pool'[k] \in [object : Objects, lastUsed : 0..MaxTime]
    BY DEF IInv, StateInv
  <2>3. world' \in Worlds /\ turns' \in Seq(Turn) /\ Len(turns') <= Len(Answers)
    BY DEF IInv, StateInv
  <2>4. shown' \subseteq DOMAIN turns'
    OBVIOUS
  <2> QED BY <1>2, <2>1, <2>2, <2>3, <2>4 DEF StateInv
<1>4. \A o, k : Holds(pool', h', o, k) /\ o \in Objects => Holds(pool, h, o, k)
  <2>1. ASSUME NEW o \in Objects, NEW k, k \in DOMAIN pool' /\ pool'[k].object = o
        PROVE  Holds(pool, h, o, k)
    BY <2>1 DEF Holds
  <2>2. ASSUME NEW o \in Objects, NEW k, NEW r \in Requests, h'[r].object = o /\ h'[r].key = k
        PROVE  Holds(pool, h, o, k)
    <3>1. o # NoObject
      BY NamesAssumption
    <3> QED BY <2>2, <3>1 DEF Holds
  <2> QED BY <2>1, <2>2 DEF Holds
<1>5. OwnersInv'
  <2>1. Owners(pool, h)
    BY DEF IInv, OwnersInv
  <2>2. \A r, s \in Requests :
           h'[r].object = h'[s].object /\ h'[r].object # NoObject /\ h'[r].key = Ephemeral => r = s
    BY <2>1 DEF Owners
  <2>3. \A o \in Objects, j, k \in Keys \cup {Ephemeral} :
           Holds(pool', h', o, j) /\ Holds(pool', h', o, k) => j = k
    BY <1>4, <2>1 DEF Owners
  <2>4. Owners(pool', h')
    BY <2>2, <2>3 DEF Owners
  <2> QED BY <2>4 DEF OwnersInv
<1>6. \A o \in Objects, k \in Keys \cup {Ephemeral} :
         Holds(pool', h', o, k) => o \in DOMAIN heap'
  <2>1. \A o \in Objects : o # NoObject
    BY NamesAssumption
  <2> QED BY <1>2, <2>1, Holders
<1>7. SessionsInv'
  <2>1. ASSUME NEW o \in Objects, NEW k \in Keys \cup {Ephemeral}, Holds(pool', h', o, k)
        PROVE  SessionInv(heap'[o], k, turns', shown')
    <3>1. heap'[o] = heap[o]
      BY <1>6, <2>1
    <3>2. SessionInv(heap[o], k, turns, shown')
      BY <1>4, <2>1
    <3> QED BY <3>1, <3>2
  <2> QED BY <2>1 DEF SessionsInv
<1>8. \A s \in Requests : h'[s].object # NoObject => h'[s].object \in DOMAIN heap'
  BY DEF Reachable
<1>9. HandlersInv'
  <2>1. ASSUME NEW s \in Requests PROVE HandlerInv(h'[s], heap', turns', shown')
    <3>1. h'[s].object # NoObject => heap'[h'[s].object] = heap[h'[s].object]
      BY <1>8
    <3>2. PICK x : x = h'[s]
      OBVIOUS
    <3>3. HandlerInv(x, heap, turns, shown')
      BY <3>2
    <3>4. x.object # NoObject => Grows(heap[x.object], heap'[x.object])
      BY <3>1, <3>2 DEF Grows
    <3>5. x.object # NoObject /\ x.key = Ephemeral /\ x.turn = NoBlock
             => heap'[x.object] = heap[x.object]
      BY <3>1, <3>2
    <3>6. Extends(turns, turns') /\ shown' \subseteq shown'
      BY DEF Extends
    <3>7. HandlerInv(x, heap', turns', shown')
      BY <3>3, <3>4, <3>5, <3>6, HandlerAges
    <3> QED BY <3>2, <3>7
  <2> QED BY <2>1 DEF HandlersInv
<1>10. ServedInv'
  <2>1. ASSUME NEW s \in Requests, NEW o \in DOMAIN heap', h'[s].turn \in heap'[o].served
        PROVE  o = h'[s].object
    <3>1. o \in Objects /\ \E k \in Keys \cup {Ephemeral} : Holds(pool', h', o, k)
      BY <1>2, Holders
    <3>2. PICK k \in Keys \cup {Ephemeral} : Holds(pool, h, o, k)
      BY <1>4, <3>1
    <3>3. o \in DOMAIN heap /\ heap[o].served \subseteq DOMAIN turns
      BY <3>1, <3>2, Held
    <3>4. heap'[o] = heap[o]
      BY <2>1
    <3>5. h'[s].turn # NoBlock
      BY <2>1, <3>3, <3>4, TurnTypes DEF IInv
    <3>6. h'[s].turn = h[s].turn /\ h'[s].object = h[s].object
      BY <3>5
    <3>7. ServedInv
      BY DEF IInv
    <3> QED BY <2>1, <3>3, <3>4, <3>6, <3>7 DEF ServedInv
  <2> QED BY <2>1 DEF ServedInv
<1> QED BY <1>3, <1>5, <1>7, <1>9, <1>10 DEF IInv

\* The handler of one request goes on, and others and the sessions stay.
LEMMA HandlerStep ==
    ASSUME IInv, NEW r \in Requests, NEW x \in Handler, h' = [h EXCEPT ![r] = x],
           UNCHANGED <<world, now, limits, pool, turns, shown>>,
           x.object # NoObject => x.object = h[r].object /\ x.key = h[r].key,
           x.turn # NoBlock => x.turn = h[r].turn /\ x.object = h[r].object,
           DOMAIN heap' = Reachable(pool', h'), \A o \in DOMAIN heap' : heap'[o] = heap[o],
           HandlerInv(x, heap, turns, shown)
    PROVE  IInv'
<1>1. h \in [Requests -> Handler]
  BY DEF IInv, StateInv
<1>2. h' \in [Requests -> Handler] /\ h'[r] = x /\ \A s \in Requests : s # r => h'[s] = h[s]
  BY <1>1
<1>3. now' \in 0..MaxTime /\ limits' \in Limits /\ shown' \subseteq DOMAIN turns
  BY DEF IInv, StateInv
<1>4. \A s \in Requests : HandlerInv(h'[s], heap, turns, shown')
  BY <1>2 DEF IInv, HandlersInv
<1>5. \A s \in Requests :
         /\ h'[s].object # NoObject => h'[s].object = h[s].object /\ h'[s].key = h[s].key
         /\ h'[s].turn # NoBlock => h'[s].turn = h[s].turn /\ h'[s].object = h[s].object
  BY <1>2
<1>6. \A o \in Objects, k \in Keys \cup {Ephemeral} :
         Holds(pool, h, o, k) => SessionInv(heap[o], k, turns, shown')
  BY DEF IInv, SessionsInv
<1>7. DOMAIN pool' \subseteq DOMAIN pool /\ \A k \in DOMAIN pool' : pool'[k] = pool[k]
  OBVIOUS
<1> QED BY <1>2, <1>3, <1>4, <1>5, <1>6, <1>7, QuietStep

LEMMA ReturnStep ==
    ASSUME IInv, NEW r \in Requests, Return(r)
    PROVE  IInv'
<1>1. HandlerInv(Idle, heap, turns, shown)
  BY IdleFacts DEF HandlerInv
<1>2. /\ h' = [h EXCEPT ![r] = Idle] /\ UNCHANGED <<world, now, limits, pool, turns, shown>>
      /\ heap' = [o \in Reachable(pool', h') |-> heap[o]]
  BY DEF Return, Heap
<1>3. Idle.object = NoObject /\ Idle.turn = NoBlock /\ Idle \in Handler
  BY IdleFacts
<1> QED BY <1>1, <1>2, <1>3, HandlerStep

LEMMA SameReachable ==
    ASSUME IInv, NEW r \in Requests, NEW x, x.object = h[r].object, h' = [h EXCEPT ![r] = x],
           pool' = pool
    PROVE  Reachable(pool', h') = Reachable(pool, h)
<1>1. h \in [Requests -> Handler]
  BY DEF IInv, StateInv
<1>2. \A s \in Requests : h'[s].object = h[s].object
  BY <1>1
<1> QED BY <1>2 DEF Reachable

LEMMA ArriveStep ==
    ASSUME IInv, NEW r \in Requests, NEW k \in Keys \cup {Ephemeral}, NEW q \in Questions,
           Arrive(r, k, q)
    PROVE  IInv'
<1>1. PICK x : x = [Idle EXCEPT !.todo = Preparation(q), !.key = k, !.q = q,
                                !.presented = Presented(k), !.since = now]
  OBVIOUS
<1>2. h' = [h EXCEPT ![r] = x] /\ UNCHANGED <<world, now, limits, pool, heap, turns, shown>>
      /\ h[r].todo = h[r].todo /\ Head(h[r].todo) = "idle"
  BY <1>1 DEF Arrive, At
<1>3. HandlerInv(h[r], heap, turns, shown)
  BY DEF IInv, HandlersInv
<1>4. h[r] = Idle
  BY <1>2, <1>3, Phase
<1>5. Preparation(q) \in Waits /\ Preparation(q) \in Seq(Phases)
  BY PreparationWaits, WaitsSteps
<1>6. Presented(k) \subseteq shown /\ \A n \in Presented(k) : turns[n].key = k
  BY DEF Presented
<1>7. shown \subseteq Blocks /\ now \in 0..MaxTime
  BY TurnTypes DEF IInv, StateInv
<1>8. /\ x \in Handler /\ x.todo = Preparation(q) /\ x.key = k /\ x.presented = Presented(k)
      /\ x.object = NoObject /\ x.turn = NoBlock /\ x.replayed = [n \in Blocks |-> NoBlock]
  BY <1>1, <1>5, <1>6, <1>7, IdleFacts DEF Handler
<1>9. Head(Preparation(q)) \notin {"replay", "call"}
  BY DEF Preparation
<1>10. HandlerInv(x, heap, turns, shown)
  <2>1. Waiting(x, heap, turns, shown)
    BY <1>5, <1>6, <1>8, <1>9 DEF Waiting
  <2> QED BY <1>8, <2>1 DEF HandlerInv
<1>11. DOMAIN heap' = Reachable(pool', h') /\ \A o \in DOMAIN heap' : heap'[o] = heap[o]
  <2>1. x.object = h[r].object
    BY <1>4, <1>8, IdleFacts
  <2>2. Reachable(pool', h') = Reachable(pool, h)
    BY <1>2, <2>1, SameReachable
  <2> QED BY <1>2, <2>2 DEF IInv, StateInv
<1> QED BY <1>2, <1>8, <1>10, <1>11, HandlerStep

LEMMA PruneStep ==
    ASSUME IInv, Prune
    PROVE  IInv'
<1>1. /\ pool' = [k \in Unexpired(now) |-> pool[k]]
      /\ UNCHANGED <<world, now, limits, turns, shown, h>>
      /\ heap' = [o \in Reachable(pool', h') |-> heap[o]]
  BY DEF Prune, Sessions, Heap
<1>2. Unexpired(now) \subseteq DOMAIN pool
  BY DEF Unexpired
<1>3. /\ DOMAIN pool' \subseteq DOMAIN pool /\ \A k \in DOMAIN pool' : pool'[k] = pool[k]
  BY <1>1, <1>2
<1>4. /\ h' \in [Requests -> Handler] /\ now' \in 0..MaxTime /\ limits' \in Limits
      /\ shown' \subseteq DOMAIN turns /\ shown \subseteq shown'
  BY <1>1 DEF IInv, StateInv
<1>5. \A s \in Requests : HandlerInv(h'[s], heap, turns, shown')
  BY <1>1 DEF IInv, HandlersInv
<1>6. \A o \in Objects, k \in Keys \cup {Ephemeral} :
         Holds(pool, h, o, k) => SessionInv(heap[o], k, turns, shown')
  BY <1>1 DEF IInv, SessionsInv
<1> QED BY <1>1, <1>3, <1>4, <1>5, <1>6, QuietStep

LEMMA ClockStep ==
    ASSUME IInv, Tick \/ Reconfigure
    PROVE  IInv'
<1>1. UNCHANGED <<world, pool, heap, turns, shown, h>>
  BY DEF Tick, Reconfigure
<1>2. now' \in 0..MaxTime /\ limits' \in Limits
  <2>1. CASE Tick
    BY <2>1, BoundsAssumption DEF Tick, IInv, StateInv
  <2>2. CASE Reconfigure
    BY <2>2 DEF Reconfigure, IInv, StateInv
  <2> QED BY <2>1, <2>2
<1>3. /\ h' \in [Requests -> Handler] /\ shown' \subseteq DOMAIN turns /\ shown \subseteq shown'
      /\ DOMAIN heap' = Reachable(pool', h')
  <2>1. Reachable(pool', h') = Reachable(pool, h)
    BY <1>1
  <2> QED BY <1>1, <2>1 DEF IInv, StateInv
<1>4. \A s \in Requests : HandlerInv(h'[s], heap, turns, shown')
  BY <1>1 DEF IInv, HandlersInv
<1>5. \A o \in Objects, k \in Keys \cup {Ephemeral} :
         Holds(pool, h, o, k) => SessionInv(heap[o], k, turns, shown')
  BY <1>1 DEF IInv, SessionsInv
<1> QED BY <1>1, <1>2, <1>3, <1>4, <1>5, QuietStep

---------------------------------------------------------------------------
(* Replaying *)

\* The first element that is kept.
LEMMA FirstSelected ==
    ASSUME NEW S, NEW s \in Seq(S), NEW A, NEW f, f = Selected(s, A)
    PROVE  /\ f # <<>> => Head(f) \in A /\ Head(f) \in ToSet(s)
           /\ f = <<>> => \A x \in ToSet(s) : x \notin A
<1>1. /\ f \in Seq(S) /\ \A i \in 1..Len(f) : f[i] \in A
  BY SelectedFacts
<1>2. \A m \in 1..Len(s) : s[m] \in A => \E i \in 1..Len(f) : f[i] = s[m]
  BY SelectedFacts
<1>3. \A i \in 1..Len(f) : \E m \in 1..Len(s) : f[i] = s[m]
  BY SelectedFacts
<1>4. \A x : x \in ToSet(s) <=> \E i \in 1..Len(s) : s[i] = x
  BY InSet
<1>5. ASSUME f # <<>> PROVE Head(f) \in A /\ Head(f) \in ToSet(s)
  <2>1. 1 \in 1..Len(f) /\ Head(f) = f[1]
    BY <1>1, <1>5
  <2> QED BY <1>1, <1>3, <1>4, <2>1
<1>6. ASSUME f = <<>>, NEW x \in ToSet(s), x \in A PROVE FALSE
  <2>1. PICK m \in 1..Len(s) : s[m] = x
    BY <1>4, <1>6
  <2>2. PICK i \in 1..Len(f) : f[i] = s[m]
    BY <1>2, <1>6, <2>1
  <2>3. Len(f) = 0
    BY <1>6
  <2> QED BY <2>2, <2>3
<1> QED BY <1>5, <1>6

\* What a session of key k gives for an answer of that key.
LEMMA RestoredFacts ==
    ASSUME StateInv, NEW s, NEW k, SessionInv(s, k, turns, shown), NEW q,
           NEW n \in DOMAIN turns, turns[n].key = k, NEW b, b = Restored(q, s, n)
    PROVE  /\ b \in {NoBlock} \cup Blocks
           /\ b # NoBlock /\ k # Ephemeral => Own(b, n, turns)
<1>1. PICK ids : ids = turns[n].a.tools
  OBVIOUS
<1>2. ids \in Seq(ToolIds)
  BY <1>1, TurnTypes DEF IsAnswer
<1>3. PICK f : f = Selected(ids, DOMAIN s.tools.block)
  OBVIOUS
<1>4. f # <<>> => Head(f) \in DOMAIN s.tools.block /\ Head(f) \in ToSet(ids)
  BY <1>2, <1>3, FirstSelected
<1>5. b = IF f # <<>> THEN Cached(s.tools, Head(f))
          ELSE IF q.provider = "anthropic" THEN Cached(s.texts, turns[n].a.text)
          ELSE NoBlock
  BY <1>1, <1>3 DEF Restored
<1>6. /\ RecordedTools(s.tools, k, turns) /\ RecordedTexts(s.texts, k, turns)
      /\ IsCache(s.tools, ToolIds) /\ IsCache(s.texts, Texts)
  BY DEF SessionInv, IsSession
<1>7. CASE f # <<>>
  <2>1. PICK i : i = Head(f)
    OBVIOUS
  <2>2. i \in DOMAIN s.tools.block /\ i \in ToSet(ids)
    BY <1>4, <1>7, <2>1
  <2>3. b = s.tools.block[i]
    BY <1>5, <1>7, <2>1, <2>2 DEF Cached
  <2>4. /\ b \in DOMAIN turns /\ turns[b].key = k /\ turns[b].a.thinking = TRUE
        /\ i \in ToSet(turns[b].a.tools)
    BY <1>6, <2>2, <2>3 DEF RecordedTools
  <2>5. b \in Blocks
    BY <2>4, TurnTypes
  <2> QED BY <1>1, <2>2, <2>4, <2>5 DEF Own
<1>8. CASE f = <<>> /\ b # NoBlock
  <2>1. PICK i : i = turns[n].a.text
    OBVIOUS
  <2>2. b = Cached(s.texts, i)
    BY <1>5, <1>8, <2>1
  <2>3. i \in DOMAIN s.texts.block /\ b = s.texts.block[i]
    BY <1>8, <2>2 DEF Cached
  <2>4. /\ b \in DOMAIN turns /\ turns[b].key = k /\ turns[b].a.thinking = TRUE
        /\ i = turns[b].a.text
    BY <1>6, <2>3 DEF RecordedTexts
  <2>5. i # NoText
    BY <1>6, <2>3, NamesAssumption DEF IsCache
  <2>6. b \in Blocks
    BY <2>4, TurnTypes
  <2> QED BY <2>1, <2>4, <2>5, <2>6 DEF Own
<1> QED BY <1>7, <1>8

LEMMA RestoredFromNew ==
    ASSUME StateInv, NEW q, NEW n \in DOMAIN turns
    PROVE  Restored(q, NewSession, n) = NoBlock
<1>1. PICK s : s = NewSession
  OBVIOUS
<1>2. PICK ids : ids = turns[n].a.tools
  OBVIOUS
<1>3. ids \in Seq(ToolIds)
  BY <1>2, TurnTypes DEF IsAnswer
<1>4. PICK f : f = Selected(ids, DOMAIN s.tools.block)
  OBVIOUS
<1>5. f # <<>> => Head(f) \in DOMAIN s.tools.block
  BY <1>3, <1>4, FirstSelected
<1>6. \A i : i \notin DOMAIN s.tools.block /\ i \notin DOMAIN s.texts.block
  BY <1>1, NewSessionFacts
<1>7. f = <<>>
  BY <1>5, <1>6
<1>8. Restored(q, s, n) = IF q.provider = "anthropic" THEN Cached(s.texts, turns[n].a.text)
                          ELSE NoBlock
  BY <1>2, <1>4, <1>7 DEF Restored
<1> QED BY <1>1, <1>6, <1>8 DEF Cached

LEMMA ReplayStep ==
    ASSUME IInv, NEW r \in Requests, Replay(r)
    PROVE  IInv'
<1>1. PICK y : y = Advance(h[r])
  OBVIOUS
<1>2. PICK f : f = [n \in Blocks |-> IF n \in h[r].presented
                                     THEN Restored(h[r].q, heap[h[r].object], n) ELSE NoBlock]
  OBVIOUS
<1>3. PICK x : x = [y EXCEPT !.replayed = f]
  OBVIOUS
<1>4. h' = [h EXCEPT ![r] = x] /\ UNCHANGED <<world, now, limits, pool, heap, turns, shown>>
      /\ Head(h[r].todo) = "replay"
  BY <1>1, <1>2, <1>3 DEF Replay, At
<1>5. h[r] \in Handler /\ now \in 0..MaxTime /\ StateInv /\ HandlerInv(h[r], heap, turns, shown)
  BY DEF IInv, StateInv, HandlersInv
<1>6. Waiting(h[r], heap, turns, shown)
  BY <1>4, <1>5, Phase
<1>7. /\ h[r].todo \in Waits /\ h[r].turn = NoBlock /\ h[r].object # NoObject
      /\ h[r].key = Ephemeral => heap[h[r].object] = NewSession
      /\ h[r].presented \subseteq shown /\ \A n \in h[r].presented : turns[n].key = h[r].key
  BY <1>4, <1>6 DEF Waiting
<1>8. Tail(h[r].todo) \in Waits /\ Tail(h[r].todo) \in Seq(Phases) /\ Tail(h[r].todo) # <<>>
  BY <1>4, <1>7, WaitsSteps
<1>9. /\ y \in Handler /\ y.todo = Tail(h[r].todo) /\ y.key = h[r].key /\ y.object = h[r].object
      /\ y.turn = h[r].turn /\ y.presented = h[r].presented
  BY <1>1, <1>5, <1>8, GotoFacts DEF Advance
<1>10. Holds(pool, h, h[r].object, h[r].key) /\ h[r].object \in Objects
       /\ h[r].key \in Keys \cup {Ephemeral}
  BY <1>7, HandlerHolds
<1>11. SessionInv(heap[h[r].object], h[r].key, turns, shown)
  BY <1>10, Held
<1>12. \A n \in h[r].presented : n \in DOMAIN turns
  BY <1>5, <1>7 DEF StateInv
<1>13. ASSUME NEW n \in Blocks
       PROVE  f[n] \in {NoBlock} \cup Blocks /\ (f[n] # NoBlock => Own(f[n], n, turns))
  <2>1. CASE n \in h[r].presented
    <3>1. PICK b : b = Restored(h[r].q, heap[h[r].object], n)
      OBVIOUS
    <3>2. f[n] = b
      BY <1>2, <2>1, <3>1
    <3>3. b \in {NoBlock} \cup Blocks /\ (b # NoBlock /\ h[r].key # Ephemeral => Own(b, n, turns))
      <4>1. PICK s : s = heap[h[r].object]
        OBVIOUS
      <4>2. PICK k : k = h[r].key
        OBVIOUS
      <4>3. PICK q : q = h[r].q
        OBVIOUS
      <4>4. /\ SessionInv(s, k, turns, shown) /\ b = Restored(q, s, n)
            /\ n \in DOMAIN turns /\ turns[n].key = k
        BY <1>7, <1>11, <1>12, <2>1, <3>1, <4>1, <4>2, <4>3
      <4> QED BY <1>5, <4>2, <4>4, RestoredFacts
    <3>4. b # NoBlock => h[r].key # Ephemeral
      BY <1>5, <1>7, <1>12, <2>1, <3>1, RestoredFromNew
    <3> QED BY <3>2, <3>3, <3>4
  <2>2. CASE n \notin h[r].presented
    BY <1>2, <2>2
  <2> QED BY <2>1, <2>2
<1>14. f \in [Blocks -> {NoBlock} \cup Blocks]
  BY <1>2, <1>13
<1>15. /\ x \in Handler /\ x.todo = y.todo /\ x.key = y.key /\ x.object = y.object
       /\ x.turn = y.turn /\ x.presented = y.presented /\ x.replayed = f
  BY <1>3, <1>9, <1>14 DEF Handler
<1>16. HandlerInv(x, heap, turns, shown)
  <2>1. Waiting(x, heap, turns, shown)
    BY <1>7, <1>8, <1>9, <1>15 DEF Waiting
  <2> QED BY <1>13, <1>15, <2>1 DEF HandlerInv
<1>17. DOMAIN heap' = Reachable(pool', h') /\ \A o \in DOMAIN heap' : heap'[o] = heap[o]
  <2>1. x.object = h[r].object
    BY <1>9, <1>15
  <2>2. Reachable(pool', h') = Reachable(pool, h)
    BY <1>4, <2>1, SameReachable
  <2> QED BY <1>4, <1>5, <2>2 DEF StateInv
<1> QED BY <1>4, <1>7, <1>9, <1>15, <1>16, <1>17, HandlerStep

LEMMA WriteStep ==
    ASSUME IInv, NEW r \in Requests, Write(r)
    PROVE  IInv'
<1>1. /\ h' = [h EXCEPT ![r] = Advance(h[r])] /\ shown' = shown \cup {h[r].turn}
      /\ UNCHANGED <<world, now, limits, pool, turns>> /\ Head(h[r].todo) = "write"
      /\ heap' = [o \in Reachable(pool', h') |-> heap[o]]
  BY DEF Write, Heap, At
<1>2. /\ h \in [Requests -> Handler] /\ now \in 0..MaxTime /\ shown \subseteq DOMAIN turns
      /\ StateInv /\ HandlersInv /\ ServedInv
  BY DEF IInv, StateInv
<1>3. Ending(h[r], heap, turns)
  BY <1>1, <1>2, Phase DEF HandlersInv
<1>4. /\ h[r].todo \in Ends /\ h[r].turn \in DOMAIN turns /\ h[r].object # NoObject
      /\ h[r].todo = <<"write">> => /\ KeptTools(heap[h[r].object], turns[h[r].turn])
                                    /\ KeptText(heap[h[r].object], turns[h[r].turn])
  BY <1>3, Zenon DEF Ending
<1>5. h[r].todo = <<"write">> /\ Tail(h[r].todo) = <<>>
  BY <1>1, <1>4, EndsSteps
<1>6. Advance(h[r]) = Idle
  BY <1>5 DEF Advance, Goto
<1>7. /\ h' \in [Requests -> Handler] /\ h'[r] = Idle /\ \A s \in Requests : s # r => h'[s] = h[s]
  BY <1>1, <1>2, <1>6, IdleFacts
<1>8. shown' \subseteq DOMAIN turns /\ shown \subseteq shown' /\ now' \in 0..MaxTime /\ limits' \in Limits
  BY <1>1, <1>2, <1>4 DEF StateInv
<1>9. ASSUME NEW o \in Objects, NEW k \in Keys \cup {Ephemeral}, Holds(pool, h, o, k)
      PROVE  SessionInv(heap[o], k, turns, shown')
  <2>1. SessionInv(heap[o], k, turns, shown) /\ o \in DOMAIN heap
    BY <1>9, Held
  <2>2. PICK c : c = heap[o]
    OBVIOUS
  <2>3. ASSUME NEW n \in c.served \cap shown', n \notin shown
        PROVE  KeptTools(c, turns[n]) /\ KeptText(c, turns[n])
    <3>1. n = h[r].turn
      BY <1>1, <2>3
    <3>2. o = h[r].object
      BY <1>2, <2>1, <2>2, <3>1 DEF ServedInv
    <3> QED BY <1>4, <1>5, <2>2, <3>1, <3>2
  <2>4. \A n \in c.served \cap shown' :
           n \in shown \/ turns[n].q.stream # FALSE \/ (KeptTools(c, turns[n]) /\ KeptText(c, turns[n]))
    BY <2>3
  <2>5. Extends(turns, turns)
    BY DEF Extends
  <2>6. SessionInv(c, k, turns, shown')
    BY <2>1, <2>2, <2>4, <2>5, SessionAges
  <2> QED BY <2>2, <2>6
<1>10. ASSUME NEW s \in Requests PROVE HandlerInv(h'[s], heap, turns, shown')
  <2>1. CASE s = r
    BY <1>7, <2>1, IdleFacts DEF HandlerInv
  <2>2. CASE s # r
    <3>1. PICK x : x = h[s]
      OBVIOUS
    <3>2. HandlerInv(x, heap, turns, shown)
      BY <1>2, <3>1 DEF HandlersInv
    <3>3. Extends(turns, turns) /\ Grows(heap[x.object], heap[x.object])
      BY DEF Extends, Grows
    <3>4. HandlerInv(x, heap, turns, shown')
      BY <1>2, <1>8, <3>2, <3>3, HandlerAges
    <3> QED BY <1>7, <2>2, <3>1, <3>4
  <2> QED BY <2>1, <2>2
<1>11. \A s \in Requests :
         /\ h'[s].object # NoObject => h'[s].object = h[s].object /\ h'[s].key = h[s].key
         /\ h'[s].turn # NoBlock => h'[s].turn = h[s].turn /\ h'[s].object = h[s].object
  BY <1>7, IdleFacts
<1>12. /\ DOMAIN pool' \subseteq DOMAIN pool /\ \A k \in DOMAIN pool' : pool'[k] = pool[k]
       /\ DOMAIN heap' = Reachable(pool', h') /\ \A o \in DOMAIN heap' : heap'[o] = heap[o]
  BY <1>1
<1> QED BY <1>1, <1>7, <1>8, <1>9, <1>10, <1>11, <1>12, QuietStep

---------------------------------------------------------------------------
(* Lookups *)

LEMMA HoldingFacts ==
    ASSUME NEW x \in Handler, NEW o \in Objects, now \in 0..MaxTime,
           x.todo \in Waits, Looks(x.todo)
    PROVE  /\ Holding(x, o) \in Handler /\ Holding(x, o).todo = Tail(x.todo)
           /\ Tail(x.todo) \in Waits
           /\ Holding(x, o).key = x.key /\ Holding(x, o).turn = x.turn
           /\ Holding(x, o).presented = x.presented /\ Holding(x, o).replayed = x.replayed
           /\ \/ Holding(x, o).object = o
              \/ Holding(x, o).object = x.object /\ Head(Tail(x.todo)) = "lookup"
<1>1. Head(x.todo) \in {"touch", "lookup"}
  BY DEF Looks
<1>2. Tail(x.todo) \in Waits /\ Tail(x.todo) \in Seq(Phases) /\ Tail(x.todo) # <<>>
  BY <1>1, WaitsSteps
<1>3. PICK y : y = Advance(x)
  OBVIOUS
<1>4. /\ y \in Handler /\ y.todo = Tail(x.todo) /\ y.key = x.key /\ y.object = x.object
      /\ y.turn = x.turn /\ y.presented = x.presented /\ y.replayed = x.replayed
  BY <1>2, <1>3, GotoFacts DEF Advance
<1>5. CASE Head(x.todo) = "touch"
  <2>1. Holding(x, o) = y
    BY <1>3, <1>5 DEF Holding
  <2>2. Head(Tail(x.todo)) = "lookup"
    BY <1>5, WaitsSteps
  <2> QED BY <1>2, <1>4, <2>1, <2>2
<1>6. CASE Head(x.todo) # "touch"
  <2>1. Holding(x, o) = [y EXCEPT !.object = o]
    BY <1>3, <1>6 DEF Holding
  <2>2. PICK z : z = [y EXCEPT !.object = o]
    OBVIOUS
  <2>3. /\ z \in Handler /\ z.todo = y.todo /\ z.key = y.key /\ z.object = o
        /\ z.turn = y.turn /\ z.presented = y.presented /\ z.replayed = y.replayed
    BY <1>4, <2>2 DEF Handler
  <2> QED BY <1>2, <1>4, <2>1, <2>2, <2>3
<1> QED BY <1>5, <1>6

\* Session o with content c is the one of the handler x, or a new one.
Available(x, o, c) ==
    \/ x.key \in Keys /\ Holds(pool, h, o, x.key) /\ c = heap[o]
    \/ o \notin Reachable(pool, h) /\ c = NewSession

\* The pool p keeps some sessions, and has o for key k if that is not one of them.
PoolWith(p, k, o) ==
    /\ DOMAIN p \subseteq Keys /\ IsFiniteSet(DOMAIN p)
    /\ \A j \in DOMAIN p :
          /\ p[j] \in [object : Objects, lastUsed : 0..MaxTime]
          /\ \/ j \in DOMAIN pool /\ p[j].object = pool[j].object
             \/ j = k /\ p[j].object = o

HeapWith(hp, o, c) == \A x \in DOMAIN hp : hp[x] = IF x = o THEN c ELSE heap[x]

LEMMA LookupStep ==
    ASSUME IInv, NEW r \in Requests, Looking(r), NEW o \in Objects, NEW new,
           Available(h[r], o, new),
           h' = [h EXCEPT ![r] = Holding(h[r], o)],
           world' = world, now' = now, limits' \in Limits, turns' = turns, shown' = shown,
           PoolWith(pool', h[r].key, o),
           DOMAIN heap' = Reachable(pool', h'), HeapWith(heap', o, new)
    PROVE  IInv'
<1>a. \/ h[r].key \in Keys /\ Holds(pool, h, o, h[r].key) /\ new = heap[o]
      \/ o \notin Reachable(pool, h) /\ new = NewSession
  BY DEF Available
<1>b. /\ DOMAIN pool' \subseteq Keys /\ IsFiniteSet(DOMAIN pool')
      /\ \A k \in DOMAIN pool' :
            /\ pool'[k] \in [object : Objects, lastUsed : 0..MaxTime]
            /\ \/ k \in DOMAIN pool /\ pool'[k].object = pool[k].object
               \/ k = h[r].key /\ pool'[k].object = o
  BY DEF PoolWith
<1>c. \A x \in DOMAIN heap' : heap'[x] = IF x = o THEN new ELSE heap[x]
  BY DEF HeapWith
<1>1. /\ h \in [Requests -> Handler] /\ now \in 0..MaxTime /\ shown \subseteq DOMAIN turns
      /\ StateInv /\ OwnersInv /\ SessionsInv /\ HandlersInv /\ ServedInv
      /\ DOMAIN heap = Reachable(pool, h)
  BY DEF IInv, StateInv
<1>2. /\ DOMAIN pool \subseteq Keys /\ \A k \in DOMAIN pool : pool[k].object \in Objects
  BY <1>1, StateTypes
<1>3. h[r] \in Handler /\ h[r].key \in Keys \cup {Ephemeral}
  BY <1>1, HandlerTypes
<1>4. Waiting(h[r], heap, turns, shown)
  <2>1. Head(h[r].todo) \in {"touch", "lookup"} /\ HandlerInv(h[r], heap, turns, shown)
    BY <1>1 DEF Looking, Looks, HandlersInv
  <2> QED BY <2>1, Phase
<1>5. PICK y : y = Holding(h[r], o)
  OBVIOUS
<1>6. /\ y \in Handler /\ y.todo = Tail(h[r].todo) /\ Tail(h[r].todo) \in Waits
      /\ y.key = h[r].key /\ y.turn = h[r].turn /\ y.presented = h[r].presented
      /\ y.replayed = h[r].replayed
      /\ \/ y.object = o
         \/ y.object = h[r].object /\ Head(Tail(h[r].todo)) = "lookup"
  <2>1. PICK x : x = h[r]
    OBVIOUS
  <2>2. x \in Handler /\ x.todo \in Waits /\ Looks(x.todo) /\ y = Holding(x, o)
    BY <1>3, <1>4, <1>5, <2>1 DEF Waiting, Looking
  <2>3. /\ y \in Handler /\ y.todo = Tail(x.todo) /\ Tail(x.todo) \in Waits
        /\ y.key = x.key /\ y.turn = x.turn /\ y.presented = x.presented
        /\ y.replayed = x.replayed
        /\ \/ y.object = o
           \/ y.object = x.object /\ Head(Tail(x.todo)) = "lookup"
    BY <1>1, <2>2, HoldingFacts
  <2> QED BY <2>1, <2>3
<1>7. h' \in [Requests -> Handler] /\ h'[r] = y /\ \A s \in Requests : s # r => h'[s] = h[s]
  BY <1>1, <1>5, <1>6
<1>8. \A x : x \in Objects => x # NoObject
  BY NamesAssumption
<1>9. \A k : \A x \in Objects : Holds(pool', h', x, k) => Holds(pool, h, x, k) \/ (x = o /\ k = h[r].key)
  <2>1. ASSUME NEW x \in Objects, NEW k, k \in DOMAIN pool' /\ pool'[k].object = x
        PROVE  Holds(pool, h, x, k) \/ (x = o /\ k = h[r].key)
    BY <1>b, <2>1 DEF Holds
  <2>2. ASSUME NEW x \in Objects, NEW k, NEW s \in Requests, h'[s].object = x /\ h'[s].key = k
        PROVE  Holds(pool, h, x, k) \/ (x = o /\ k = h[r].key)
    <3>1. CASE s = r
      <4>1. y.object = x /\ k = h[r].key
        BY <1>6, <1>7, <2>2, <3>1
      <4>2. x = o \/ h[r].object = x
        BY <1>6, <4>1
      <4> QED BY <4>1, <4>2 DEF Holds
    <3>2. CASE s # r
      BY <1>7, <2>2, <3>2 DEF Holds
    <3> QED BY <3>1, <3>2
  <2> QED BY <2>1, <2>2 DEF Holds
<1>10. o \notin Reachable(pool, h) => \A k : ~Holds(pool, h, o, k)
  BY <1>8 DEF Holds, Reachable
<1>11. \A j \in Keys \cup {Ephemeral} : Holds(pool, h, o, j) => j = h[r].key /\ h[r].key \in Keys
  BY <1>1, <1>3, <1>10, <1>a DEF OwnersInv, Owners
<1>12. DOMAIN pool' \subseteq Keys /\ \A k \in DOMAIN pool' : pool'[k].object \in Objects
  BY <1>b
<1>13. StateInv'
  <2>1. \A k \in DOMAIN pool' : pool'[k] \in [object : Objects, lastUsed : 0..MaxTime]
    BY <1>b
  <2> QED BY <1>1, <1>7, <1>b, <2>1 DEF StateInv
<1>14. OwnersInv'
  <2>1. ASSUME NEW x \in Objects, NEW j \in Keys \cup {Ephemeral}, NEW k \in Keys \cup {Ephemeral},
               Holds(pool', h', x, j), Holds(pool', h', x, k)
        PROVE  j = k
    <3>1. Holds(pool, h, x, j) \/ (x = o /\ j = h[r].key)
      BY <1>9, <2>1
    <3>2. Holds(pool, h, x, k) \/ (x = o /\ k = h[r].key)
      BY <1>9, <2>1
    <3>3. Holds(pool, h, x, j) /\ Holds(pool, h, x, k) => j = k
      BY <1>1 DEF OwnersInv, Owners
    <3> QED BY <1>11, <3>1, <3>2, <3>3
  <2>2. ASSUME NEW s \in Requests, NEW t \in Requests, h'[s].object = h'[t].object,
               h'[s].object # NoObject, h'[s].key = Ephemeral
        PROVE  s = t
    <3>1. \A u \in Requests : h'[u].object = h[u].object \/ (u = r /\ h'[u].object = o)
      BY <1>6, <1>7
    <3>2. \A u \in Requests : h'[u].key = h[u].key
      BY <1>6, <1>7
    <3>3. \A u \in Requests : h[u].object = o => h[u].key = h[r].key /\ h[r].key \in Keys
      <4>1. \A u \in Requests : h[u].object = o => Holds(pool, h, o, h[u].key)
        BY DEF Holds
      <4>2. \A u \in Requests : h[u].key \in Keys \cup {Ephemeral}
        BY <1>1, HandlerTypes
      <4> QED BY <1>11, <4>1, <4>2
    <3>4. CASE h'[s].object = h[s].object /\ h'[t].object = h[t].object
      BY <1>1, <2>2, <3>2, <3>4 DEF OwnersInv, Owners
    <3>5. CASE s = r /\ h'[s].object = o
      <4>1. t = r \/ h[t].object = o
        BY <1>7, <2>2, <3>5
      <4> QED BY <2>2, <3>2, <3>3, <3>5, <4>1, NamesAssumption
    <3>6. CASE t = r /\ h'[t].object = o
      <4>1. s = r \/ h[s].object = o
        BY <1>7, <2>2, <3>6
      <4> QED BY <2>2, <3>2, <3>3, <3>6, <4>1, NamesAssumption
    <3> QED BY <3>1, <3>4, <3>5, <3>6
  <2>3. Owners(pool', h')
    BY <2>1, <2>2 DEF Owners
  <2> QED BY <2>3 DEF OwnersInv
<1>15. \A x \in Objects, k \in Keys \cup {Ephemeral} : Holds(pool', h', x, k) => x \in DOMAIN heap'
  BY <1>7, <1>8, <1>12, Holders
\* A session is new, or is as it was.
<1>16. ASSUME NEW x \in Objects, NEW k \in Keys \cup {Ephemeral}, Holds(pool', h', x, k)
       PROVE  heap'[x] = NewSession \/ (heap'[x] = heap[x] /\ Holds(pool, h, x, k))
  <2>1. heap'[x] = IF x = o THEN new ELSE heap[x]
    BY <1>15, <1>16, <1>c
  <2>2. Holds(pool, h, x, k) \/ (x = o /\ k = h[r].key)
    BY <1>9, <1>16
  <2>3. CASE new = NewSession /\ x = o
    BY <2>1, <2>3
  <2>4. CASE new = heap[o] /\ Holds(pool, h, o, h[r].key)
    BY <2>1, <2>2, <2>4
  <2>5. CASE x # o
    BY <2>1, <2>2, <2>5
  <2> QED BY <1>a, <2>3, <2>4, <2>5
<1>17. SessionsInv'
  <2>1. ASSUME NEW x \in Objects, NEW k \in Keys \cup {Ephemeral}, Holds(pool', h', x, k)
        PROVE  SessionInv(heap'[x], k, turns', shown')
    <3>1. CASE heap'[x] = NewSession
      BY <3>1, NewSessionFacts
    <3>2. CASE heap'[x] = heap[x] /\ Holds(pool, h, x, k)
      <4>1. SessionInv(heap[x], k, turns, shown)
        BY <3>2, Held
      <4> QED BY <3>2, <4>1
    <3> QED BY <1>16, <2>1, <3>1, <3>2
  <2> QED BY <2>1 DEF SessionsInv
\* What handlers held before is as it was.
<1>18. ASSUME NEW s \in Requests, h[s].object # NoObject, h'[s].object = h[s].object
       PROVE  heap'[h'[s].object] = heap[h[s].object]
  <2>1. h[s].object \in Reachable(pool, h) /\ h'[s].object \in Reachable(pool', h')
    BY <1>18 DEF Reachable
  <2>2. h[s].object = o => new = heap[o]
    BY <1>a, <2>1
  <2> QED BY <1>18, <1>c, <2>1, <2>2
<1>19. HandlersInv'
  <2>1. ASSUME NEW s \in Requests, s # r PROVE HandlerInv(h'[s], heap', turns', shown')
    <3>1. PICK x : x = h[s]
      OBVIOUS
    <3>2. HandlerInv(x, heap, turns, shown) /\ h'[s] = x
      BY <1>1, <1>7, <2>1, <3>1 DEF HandlersInv
    <3>3. x.object # NoObject => heap'[x.object] = heap[x.object]
      BY <1>7, <1>18, <2>1, <3>1
    <3>4. x.object # NoObject => Grows(heap[x.object], heap'[x.object])
      BY <3>3 DEF Grows
    <3>5. Extends(turns, turns') /\ shown \subseteq shown'
      BY DEF Extends
    <3>6. HandlerInv(x, heap', turns', shown')
      BY <1>1, <3>2, <3>3, <3>4, <3>5, HandlerAges
    <3> QED BY <3>2, <3>6
  <2>2. HandlerInv(y, heap', turns', shown')
    <3>1. /\ h[r].turn = NoBlock /\ h[r].presented \subseteq shown
          /\ \A n \in h[r].presented : turns[n].key = h[r].key
          /\ h[r].key = Ephemeral /\ h[r].object # NoObject => heap[h[r].object] = NewSession
      BY <1>4 DEF Waiting
    <3>2. Head(y.todo) \in {"replay", "call"} => y.object # NoObject
      BY <1>6, <1>8
    <3>3. y.key = Ephemeral /\ y.object # NoObject => heap'[y.object] = NewSession
      <4>1. SUFFICES ASSUME y.key = Ephemeral, y.object # NoObject
                     PROVE  heap'[y.object] = NewSession
        OBVIOUS
      <4>2. new = NewSession
        BY <1>6, <1>a, <4>1, NamesAssumption
      <4>3. y.object \in DOMAIN heap'
        BY <1>7, <4>1 DEF Reachable
      <4>4. CASE y.object = o
        BY <1>c, <4>2, <4>3, <4>4
      <4>5. CASE y.object # o
        <5>1. y.object = h[r].object
          BY <1>6, <4>5
        <5> QED BY <1>6, <1>7, <1>18, <3>1, <4>1, <5>1
      <4> QED BY <4>4, <4>5
    <3>4. Waiting(y, heap', turns', shown')
      BY <1>6, <3>1, <3>2, <3>3 DEF Waiting
    <3>5. HandlerInv(h[r], heap, turns, shown)
      BY <1>1 DEF HandlersInv
    <3> QED BY <1>6, <3>4, <3>5 DEF HandlerInv
  <2> QED BY <1>7, <2>1, <2>2 DEF HandlersInv
<1>20. ServedInv'
  <2>1. ASSUME NEW s \in Requests, NEW x \in DOMAIN heap', h'[s].turn \in heap'[x].served
        PROVE  x = h'[s].object
    <3>1. x \in Objects /\ \E k \in Keys \cup {Ephemeral} : Holds(pool', h', x, k)
      BY <1>7, <1>12, Holders
    <3>2. PICK k \in Keys \cup {Ephemeral} : Holds(pool', h', x, k)
      BY <3>1
    <3>3. heap'[x] # NewSession
      BY <2>1, NewSessionFacts
    <3>4. heap'[x] = heap[x] /\ Holds(pool, h, x, k)
      BY <1>16, <3>1, <3>2, <3>3
    <3>5. x \in DOMAIN heap /\ heap[x].served \subseteq DOMAIN turns
      BY <3>1, <3>2, <3>4, Held
    <3>6. h'[s].turn # NoBlock /\ h'[s].turn = h[s].turn
      BY <1>1, <1>6, <1>7, <2>1, <3>4, <3>5, TurnTypes
    <3>7. s # r
      BY <1>4, <3>6 DEF Waiting
    <3> QED BY <1>1, <1>7, <2>1, <3>4, <3>5, <3>7 DEF ServedInv
  <2> QED BY <2>1 DEF ServedInv
<1> QED BY <1>13, <1>14, <1>17, <1>19, <1>20 DEF IInv

LEMMA FindStep ==
    ASSUME IInv, NEW r \in Requests, NEW t \in h[r].since..now, Find(r, t)
    PROVE  IInv'
<1>1. PICK k : k = h[r].key
  OBVIOUS
<1>2. PICK o : o = pool[k].object
  OBVIOUS
<1>3. /\ Looking(r) /\ k \in Unexpired(t)
      /\ pool' = [Sessions(Unexpired(t)) EXCEPT ![k].lastUsed = t]
      /\ h' = [h EXCEPT ![r] = Holding(h[r], o)]
      /\ heap' = [x \in Reachable(pool', h') |-> heap[x]]
      /\ UNCHANGED <<world, now, limits, turns, shown>>
  BY <1>1, <1>2 DEF Find, Heap
<1>4. Unexpired(t) \subseteq DOMAIN pool
  BY DEF Unexpired
<1>5. /\ DOMAIN pool \subseteq Keys /\ IsFiniteSet(DOMAIN pool)
      /\ \A j \in DOMAIN pool : pool[j] \in [object : Objects, lastUsed : 0..MaxTime]
      /\ h[r] \in Handler /\ now \in 0..MaxTime /\ MaxTime \in Nat /\ limits \in Limits
  BY StateTypes DEF IInv, StateInv
<1>6. t \in 0..MaxTime
  <2>1. h[r].since \in 0..MaxTime
    BY <1>5, HandlerTypes
  <2> QED BY <1>5, <2>1
<1>7. o \in Objects /\ k \in Keys /\ Holds(pool, h, o, k)
  BY <1>2, <1>3, <1>4, <1>5 DEF Holds
<1>8. /\ DOMAIN pool' = Unexpired(t)
      /\ \A j \in Unexpired(t) :
            pool'[j] = IF j = k THEN [pool[k] EXCEPT !.lastUsed = t] ELSE pool[j]
  BY <1>3 DEF Sessions
<1>9. PoolWith(pool', h[r].key, o)
  <2>1. ASSUME NEW j \in DOMAIN pool'
        PROVE  /\ pool'[j] \in [object : Objects, lastUsed : 0..MaxTime]
               /\ j \in DOMAIN pool /\ pool'[j].object = pool[j].object
    <3>1. j \in DOMAIN pool /\ pool[j] \in [object : Objects, lastUsed : 0..MaxTime]
      BY <1>4, <1>5, <1>8
    <3> QED BY <1>6, <1>8, <3>1
  <2>2. IsFiniteSet(DOMAIN pool')
    BY <1>4, <1>5, <1>8, FS_Subset
  <2> QED BY <1>4, <1>5, <1>8, <2>1, <2>2 DEF PoolWith
<1>10. DOMAIN heap' = Reachable(pool', h') /\ HeapWith(heap', o, heap[o])
  BY <1>3 DEF HeapWith
<1>11. Available(h[r], o, heap[o])
  BY <1>1, <1>7 DEF Available
<1> QED BY <1>3, <1>5, <1>7, <1>9, <1>10, <1>11, LookupStep

\* A session with a free address.
LEMMA FreshStep ==
    ASSUME IInv, NEW r \in Requests, Looking(r), HasRoom, NEW t \in 0..MaxTime,
           h' = [h EXCEPT ![r] = Holding(h[r], Fresh)],
           limits' \in Limits, UNCHANGED <<world, now, turns, shown>>,
           DOMAIN pool' \subseteq Keys, IsFiniteSet(DOMAIN pool'),
           \A k \in DOMAIN pool' :
               \/ k \in DOMAIN pool /\ pool'[k] = pool[k]
               \/ k = h[r].key /\ pool'[k] = [object |-> Fresh, lastUsed |-> t],
           heap' = [o \in Reachable(pool', h') |-> With(Fresh, NewSession)[o]]
    PROVE  IInv'
<1>1. PICK o : o = Fresh
  OBVIOUS
<1>2. /\ DOMAIN pool \subseteq Keys
      /\ \A j \in DOMAIN pool : pool[j] \in [object : Objects, lastUsed : 0..MaxTime]
      /\ h \in [Requests -> Handler] /\ DOMAIN heap = Reachable(pool, h)
      /\ now \in 0..MaxTime
  BY DEF IInv, StateInv
<1>3. o \in Objects /\ o \notin Reachable(pool, h)
  <2>1. Reachable(pool, h) \subseteq Objects
    BY <1>2, Holders
  <2>2. \E x \in Objects : x \notin Reachable(pool, h)
    BY <2>1 DEF HasRoom
  <2> QED BY <1>1, <2>2 DEF Fresh
<1>4. PoolWith(pool', h[r].key, o)
  BY <1>1, <1>2, <1>3 DEF PoolWith
<1>5. Reachable(pool', h') \subseteq {o} \cup DOMAIN heap
  <2>1. ASSUME NEW s \in Requests, h'[s].object # NoObject
        PROVE  h'[s].object = o \/ h'[s].object \in Reachable(pool, h)
    <3>1. CASE s # r
      BY <1>2, <2>1, <3>1 DEF Reachable
    <3>2. CASE s = r
      <4>1. PICK x : x = h[r]
        OBVIOUS
      <4>2. HandlerInv(x, heap, turns, shown) /\ x \in Handler
            /\ Head(x.todo) \in {"touch", "lookup"} /\ Looks(x.todo)
        BY <1>2, <4>1 DEF IInv, HandlersInv, Looking, Looks
      <4>3. x.todo \in Waits
        BY <4>2, Phase DEF Waiting
      <4>4. Holding(x, o).object = o \/ Holding(x, o).object = x.object
        BY <1>2, <1>3, <4>2, <4>3, HoldingFacts
      <4>5. h'[s].object = o \/ h'[s].object = h[r].object
        BY <1>1, <1>2, <3>2, <4>1, <4>4
      <4> QED BY <2>1, <4>5 DEF Reachable
    <3> QED BY <3>1, <3>2
  <2>2. ASSUME NEW k \in DOMAIN pool' PROVE pool'[k].object = o \/ pool'[k].object \in Reachable(pool, h)
    BY <1>4 DEF PoolWith, Reachable
  <2>3. \A x \in Reachable(pool', h') : x = o \/ x \in Reachable(pool, h)
    BY <2>1, <2>2 DEF Reachable
  <2> QED BY <1>2, <2>3
<1>6. DOMAIN heap' = Reachable(pool', h') /\ HeapWith(heap', o, NewSession)
  BY <1>1, <1>5 DEF With, HeapWith
<1>7. h' = [h EXCEPT ![r] = Holding(h[r], o)]
  BY <1>1
<1>8. Available(h[r], o, NewSession)
  BY <1>3 DEF Available
<1> QED BY <1>3, <1>4, <1>6, <1>7, <1>8, LookupStep

LEMMA CreateStep ==
    ASSUME IInv, NEW r \in Requests, NEW t \in h[r].since..now, Create(r, t)
    PROVE  IInv'
<1>1. /\ Looking(r) /\ HasRoom /\ h[r].key \in Keys
      /\ h' = [h EXCEPT ![r] = Holding(h[r], Fresh)]
      /\ heap' = [o \in Reachable(pool', h') |-> With(Fresh, NewSession)[o]]
      /\ limits' \in Limits /\ UNCHANGED <<world, now, turns, shown>>
  BY DEF Create, Heap
<1>2. PICK left \in SUBSET Unexpired(t) : pool' = Pooled(left, h[r].key, Fresh, t)
  BY DEF Create
<1>3. /\ DOMAIN pool \subseteq Keys /\ IsFiniteSet(DOMAIN pool) /\ left \subseteq DOMAIN pool
      /\ h[r] \in Handler /\ now \in 0..MaxTime /\ MaxTime \in Nat
  BY StateTypes DEF IInv, StateInv, Unexpired
<1>4. t \in 0..MaxTime
  <2>1. h[r].since \in 0..MaxTime
    BY <1>3, HandlerTypes
  <2> QED BY <1>3, <2>1
<1>5. /\ DOMAIN pool' = left \cup {h[r].key}
      /\ \A k \in left \cup {h[r].key} :
            pool'[k] = IF k = h[r].key THEN [object |-> Fresh, lastUsed |-> t] ELSE pool[k]
  BY <1>2 DEF Pooled
<1>6. DOMAIN pool' \subseteq Keys /\ IsFiniteSet(DOMAIN pool')
  <2>1. IsFiniteSet(left)
    BY <1>3, FS_Subset
  <2>2. IsFiniteSet(left \cup {h[r].key})
    BY <2>1, FS_AddElement
  <2> QED BY <1>1, <1>3, <1>5, <2>2
<1>7. \A k \in DOMAIN pool' :
         \/ k \in DOMAIN pool /\ pool'[k] = pool[k]
         \/ k = h[r].key /\ pool'[k] = [object |-> Fresh, lastUsed |-> t]
  BY <1>3, <1>5
<1> QED BY <1>1, <1>4, <1>6, <1>7, FreshStep

LEMMA CreateEphemeralStep ==
    ASSUME IInv, NEW r \in Requests, CreateEphemeral(r)
    PROVE  IInv'
<1>1. /\ Looking(r) /\ HasRoom
      /\ h' = [h EXCEPT ![r] = Holding(h[r], Fresh)]
      /\ heap' = [o \in Reachable(pool', h') |-> With(Fresh, NewSession)[o]]
      /\ UNCHANGED <<world, now, limits, pool, turns, shown>>
  BY DEF CreateEphemeral, Heap
<1>2. DOMAIN pool \subseteq Keys /\ IsFiniteSet(DOMAIN pool) /\ 0 \in 0..MaxTime
  BY BoundsAssumption DEF IInv, StateInv
<1>3. limits' \in Limits
  BY <1>1 DEF IInv, StateInv
<1> QED BY <1>1, <1>2, <1>3, FreshStep

---------------------------------------------------------------------------
(* The steps that change a session *)

\* A handler changes the session it works with, and answers may be added.
LEMMA SessionStep ==
    ASSUME IInv, NEW r \in Requests, h[r].object # NoObject, NEW x \in Handler, NEW u,
           h' = [h EXCEPT ![r] = x], world' = world, now' = now, limits' = limits, pool' = pool,
           x.object # NoObject => x.object = h[r].object /\ x.key = h[r].key,
           x.turn # NoBlock => x.object = h[r].object,
           x.turn # NoBlock => x.turn = h[r].turn \/ x.turn \notin DOMAIN turns,
           turns' \in Seq(Turn), Len(turns') <= Len(Answers), Extends(turns, turns'),
           shown \subseteq shown', shown' \subseteq DOMAIN turns',
           \A n \in shown' : n \in shown \/ n \notin DOMAIN turns,
           SessionInv(u, h[r].key, turns', shown'), Grows(heap[h[r].object], u),
           \A n \in u.served : n \in heap[h[r].object].served \/ n \notin DOMAIN turns,
           DOMAIN heap' = Reachable(pool', h'), HeapWith(heap', h[r].object, u),
           HandlerInv(x, heap', turns', shown')
    PROVE  IInv'
<1>1. /\ h \in [Requests -> Handler] /\ shown \subseteq DOMAIN turns
      /\ StateInv /\ OwnersInv /\ SessionsInv /\ HandlersInv /\ ServedInv
  BY DEF IInv, StateInv
<1>2. DOMAIN pool \subseteq Keys /\ \A k \in DOMAIN pool : pool[k].object \in Objects
  BY <1>1, StateTypes
<1>3. h' \in [Requests -> Handler] /\ h'[r] = x /\ \A s \in Requests : s # r => h'[s] = h[s]
  BY <1>1
<1>4. PICK o : o = h[r].object
  OBVIOUS
<1>5. o \in Objects /\ Holds(pool, h, o, h[r].key) /\ h[r].key \in Keys \cup {Ephemeral}
  BY <1>4, HandlerHolds
<1>6. \A z \in DOMAIN heap' : heap'[z] = IF z = o THEN u ELSE heap[z]
  BY <1>4 DEF HeapWith
<1>7. \A z \in Objects : z # NoObject
  BY NamesAssumption
<1>8. \A k : \A z \in Objects : Holds(pool', h', z, k) => Holds(pool, h, z, k)
  BY <1>3, <1>7 DEF Holds
<1>9. \A z \in Objects, k \in Keys \cup {Ephemeral} : Holds(pool', h', z, k) => z \in DOMAIN heap'
  <2>1. DOMAIN pool' \subseteq Keys /\ \A k \in DOMAIN pool' : pool'[k].object \in Objects
    BY <1>2
  <2> QED BY <1>3, <1>7, <2>1, Holders
<1>10. StateInv'
  BY <1>1, <1>3 DEF StateInv
<1>11. OwnersInv'
  <2>1. Owners(pool, h)
    BY <1>1 DEF OwnersInv
  <2>2. \A s, t \in Requests :
           h'[s].object = h'[t].object /\ h'[s].object # NoObject /\ h'[s].key = Ephemeral => s = t
    BY <1>3, <2>1 DEF Owners
  <2>3. \A z \in Objects, j, k \in Keys \cup {Ephemeral} :
           Holds(pool', h', z, j) /\ Holds(pool', h', z, k) => j = k
    BY <1>8, <2>1 DEF Owners
  <2>4. Owners(pool', h')
    BY <2>2, <2>3 DEF Owners
  <2> QED BY <2>4 DEF OwnersInv
<1>12. SessionsInv'
  <2>1. ASSUME NEW z \in Objects, NEW k \in Keys \cup {Ephemeral}, Holds(pool', h', z, k)
        PROVE  SessionInv(heap'[z], k, turns', shown')
    <3>1. Holds(pool, h, z, k) /\ z \in DOMAIN heap'
      BY <1>8, <1>9, <2>1
    <3>2. CASE z = o
      <4>1. k = h[r].key
        BY <1>1, <1>5, <3>1, <3>2 DEF OwnersInv, Owners
      <4>2. heap'[z] = u
        BY <1>6, <3>1, <3>2
      <4> QED BY <4>1, <4>2
    <3>3. CASE z # o
      <4>1. PICK c : c = heap[z]
        OBVIOUS
      <4>2. SessionInv(c, k, turns, shown) /\ c.served \subseteq DOMAIN turns
        BY <3>1, <4>1, Held
      <4>3. \A n \in c.served \cap shown' :
               n \in shown \/ turns'[n].q.stream # FALSE \/ (KeptTools(c, turns'[n]) /\ KeptText(c, turns'[n]))
        BY <4>2
      <4>4. SessionInv(c, k, turns', shown')
        BY <4>2, <4>3, SessionAges
      <4>5. heap'[z] = c
        BY <1>6, <3>1, <3>3, <4>1
      <4> QED BY <4>4, <4>5
    <3> QED BY <3>2, <3>3
  <2> QED BY <2>1 DEF SessionsInv
<1>13. ASSUME NEW s \in Requests, s # r PROVE HandlerInv(h'[s], heap', turns', shown')
  <2>1. PICK y : y = h[s]
    OBVIOUS
  <2>2. HandlerInv(y, heap, turns, shown) /\ h'[s] = y
    BY <1>1, <1>3, <1>13, <2>1 DEF HandlersInv
  <2>3. y.object # NoObject => y.object \in DOMAIN heap'
    BY <1>3, <1>13, <2>1 DEF Reachable
  <2>4. y.object # NoObject => Grows(heap[y.object], heap'[y.object])
    <3>1. CASE y.object = o /\ y.object # NoObject
      BY <1>4, <1>6, <2>3, <3>1
    <3>2. CASE y.object # o /\ y.object # NoObject
      <4>1. heap'[y.object] = heap[y.object]
        BY <1>6, <2>3, <3>2
      <4> QED BY <4>1 DEF Grows
    <3> QED BY <3>1, <3>2
  <2>5. y.object # NoObject /\ y.key = Ephemeral /\ y.turn = NoBlock => heap'[y.object] = heap[y.object]
    <3>1. SUFFICES ASSUME y.object # NoObject, y.key = Ephemeral PROVE heap'[y.object] = heap[y.object]
      OBVIOUS
    <3>2. y.object # o
      BY <1>1, <1>4, <1>13, <2>1, <3>1 DEF OwnersInv, Owners
    <3> QED BY <1>6, <2>3, <3>1, <3>2
  <2>6. HandlerInv(y, heap', turns', shown')
    BY <1>1, <2>2, <2>4, <2>5, HandlerAges
  <2> QED BY <2>2, <2>6
<1>14. HandlersInv'
  BY <1>3, <1>13 DEF HandlersInv
<1>15. ServedInv'
  <2>1. ASSUME NEW s \in Requests, NEW z \in DOMAIN heap', h'[s].turn \in heap'[z].served
        PROVE  z = h'[s].object
    <3>1. z \in Objects /\ \E k \in Keys \cup {Ephemeral} : Holds(pool', h', z, k)
      BY <1>2, <1>3, Holders
    <3>2. PICK k \in Keys \cup {Ephemeral} : Holds(pool, h, z, k) /\ Holds(pool', h', z, k)
      BY <1>8, <3>1
    <3>3. z \in DOMAIN heap /\ heap[z].served \subseteq DOMAIN turns
      BY <3>1, <3>2, Held
    <3>4. h'[s].turn \in heap[z].served \/ (z = o /\ h'[s].turn \notin DOMAIN turns)
      BY <1>4, <1>6, <2>1
    <3>5. SessionInv(heap'[z], k, turns', shown')
      BY <1>12, <3>1, <3>2 DEF SessionsInv
    <3>6. h'[s].turn # NoBlock
      <4>1. h'[s].turn \in DOMAIN turns'
        BY <2>1, <3>5 DEF SessionInv
      <4>2. DOMAIN turns' = 1..Len(turns') /\ Len(turns') \in Nat
        BY LenProperties
      <4> QED BY <4>1, <4>2 DEF NoBlock
    <3>7. CASE s = r
      <4>1. x.object = o
        BY <1>3, <1>4, <3>6, <3>7
      <4>2. CASE x.turn = h[r].turn
        BY <1>1, <1>3, <1>4, <3>3, <3>4, <3>7, <4>1, <4>2 DEF ServedInv
      <4>3. CASE x.turn \notin DOMAIN turns
        BY <1>3, <3>3, <3>4, <3>7, <4>1, <4>3
      <4> QED BY <1>3, <3>6, <3>7, <4>2, <4>3
    <3>8. CASE s # r
      <4>1. HandlerInv(h[s], heap, turns, shown) /\ h'[s] = h[s]
        BY <1>1, <1>3, <3>8 DEF HandlersInv
      <4>2. h[s].turn \in DOMAIN turns
        BY <3>6, <4>1, IdleFacts DEF HandlerInv, Waiting, Ending
      <4> QED BY <1>1, <3>3, <3>4, <4>1, <4>2 DEF ServedInv
    <3> QED BY <3>7, <3>8
  <2> QED BY <2>1 DEF ServedInv
<1> QED BY <1>10, <1>11, <1>12, <1>14, <1>15 DEF IInv

\* A handler that keeps or gives up its session reaches no other.
LEMMA NotMore ==
    ASSUME IInv, NEW r \in Requests, NEW x, x.object # NoObject => x.object = h[r].object,
           h' = [h EXCEPT ![r] = x], pool' = pool, NEW o, o \in Reachable(pool', h')
    PROVE  o \in DOMAIN heap
<1>1. h \in [Requests -> Handler] /\ DOMAIN heap = Reachable(pool, h)
  BY DEF IInv, StateInv
<1>2. \A s \in Requests : h'[s].object # NoObject => h'[s].object = h[s].object
  BY <1>1
<1> QED BY <1>1, <1>2 DEF Reachable

LEMMA AppendFacts ==
    ASSUME NEW S, NEW s \in Seq(S), NEW t \in S
    PROVE  /\ Append(s, t) \in Seq(S) /\ Len(Append(s, t)) = Len(s) + 1
           /\ Append(s, t)[Len(s) + 1] = t
           /\ Extends(s, Append(s, t))
           /\ DOMAIN Append(s, t) = DOMAIN s \cup {Len(s) + 1}
           /\ Len(s) + 1 \notin DOMAIN s
<1>1. Len(s) \in Nat /\ DOMAIN s = 1..Len(s)
  BY LenProperties
<1>2. /\ Append(s, t) \in Seq(S) /\ Len(Append(s, t)) = Len(s) + 1
      /\ \A i \in 1..Len(s) : Append(s, t)[i] = s[i]
      /\ Append(s, t)[Len(s) + 1] = t
  BY AppendProperties
<1>3. DOMAIN Append(s, t) = 1..(Len(s) + 1)
  BY <1>2, LenProperties
<1>4. DOMAIN Append(s, t) = DOMAIN s \cup {Len(s) + 1} /\ Len(s) + 1 \notin DOMAIN s
  BY <1>1, <1>3
<1>5. Extends(s, Append(s, t))
  BY <1>1, <1>2, <1>4 DEF Extends
<1> QED BY <1>2, <1>4, <1>5

LEMMA AnswerStep ==
    ASSUME IInv, NEW r \in Requests, NEW a, NEW complete \in BOOLEAN, Answer(r, a, complete)
    PROVE  IInv'
<1>1. PICK n : n = Len(turns) + 1
  OBVIOUS
<1>2. PICK q : q = h[r].q
  OBVIOUS
<1>3. PICK o : o = h[r].object
  OBVIOUS
<1>4. PICK t : t = [key |-> h[r].key, q |-> q, a |-> a]
  OBVIOUS
<1>5. PICK y : y = [h[r] EXCEPT !.turn = n, !.presented = {}, !.replayed = Idle.replayed]
  OBVIOUS
<1>6. PICK x : x = Goto(y, Finish(q, complete))
  OBVIOUS
<1>7. PICK u : u = [heap[o] EXCEPT !.served = @ \cup {n}]
  OBVIOUS
<1>8. /\ Head(h[r].todo) = "call" /\ Len(turns) < world.turns
      /\ complete = TRUE \/ q.stream = TRUE
      /\ a \in Answers[n] /\ turns' = Append(turns, t)
      /\ h' = [h EXCEPT ![r] = x]
      /\ shown' = IF q.stream /\ complete THEN shown \cup {n} ELSE shown
      /\ UNCHANGED <<world, now, limits, pool>>
      /\ heap' = [z \in Reachable(pool', h') |-> [heap EXCEPT ![o].served = @ \cup {n}][z]]
  BY <1>1, <1>2, <1>3, <1>4, <1>5, <1>6 DEF Answer, Heap, At
<1>9. /\ h[r] \in Handler /\ now \in 0..MaxTime /\ world \in Worlds /\ turns \in Seq(Turn)
      /\ shown \subseteq DOMAIN turns /\ StateInv /\ SessionsInv /\ HandlersInv
  BY DEF IInv, StateInv
<1>10. Waiting(h[r], heap, turns, shown)
  BY <1>8, <1>9, Phase DEF HandlersInv
<1>11. o # NoObject /\ h[r].turn = NoBlock
  BY <1>3, <1>8, <1>10 DEF Waiting
<1>12. /\ o \in Objects /\ h[r].key \in Keys \cup {Ephemeral} /\ o \in DOMAIN heap
       /\ Holds(pool, h, o, h[r].key)
  BY <1>3, <1>11, HandlerHolds
<1>13. n \in Nat /\ n \in Blocks /\ n # NoBlock
  <2>1. world.turns \in 0..Len(Answers) /\ Len(Answers) \in Nat
    BY <1>9, BoundsAssumption
  <2>2. Len(turns) \in Nat
    BY <1>9, LenProperties
  <2> QED BY <1>1, <1>8, <2>1, <2>2 DEF Blocks, NoBlock
<1>14. q \in Questions
  BY <1>2, <1>9, HandlerTypes
<1>15. t \in Turn /\ t.key = h[r].key /\ t.q = q
  <2>1. a \in AnyAnswer
    BY <1>8, <1>13 DEF AnyAnswer
  <2> QED BY <1>4, <1>12, <1>14, <2>1 DEF Turn
<1>16. /\ turns' \in Seq(Turn) /\ Len(turns') = n /\ turns'[n] = t /\ Extends(turns, turns')
       /\ DOMAIN turns' = DOMAIN turns \cup {n} /\ n \notin DOMAIN turns
  BY <1>1, <1>8, <1>9, <1>15, AppendFacts
<1>17. Len(turns') <= Len(Answers)
  BY <1>13, <1>16, BoundsAssumption DEF Blocks
<1>18. /\ shown \subseteq shown' /\ shown' \subseteq DOMAIN turns'
       /\ \A m \in shown' : m \in shown \/ m \notin DOMAIN turns
       /\ n \in shown' => turns'[n].q.stream # FALSE
  <2>1. \A m \in shown' : m \in shown \/ (m = n /\ q.stream # FALSE)
    BY <1>8
  <2>2. shown \subseteq shown'
    BY <1>8
  <2> QED BY <1>9, <1>15, <1>16, <2>1, <2>2
<1>19. SessionInv(u, h[r].key, turns', shown') /\ Grows(heap[o], u)
  <2>1. PICK c : c = heap[o]
    OBVIOUS
  <2>2. PICK k : k = h[r].key
    OBVIOUS
  <2>3. SessionInv(c, k, turns, shown) /\ c.served \subseteq DOMAIN turns
    BY <1>12, <2>1, <2>2, Held
  <2>4. \A m \in c.served \cap shown' :
           m \in shown \/ turns'[m].q.stream # FALSE \/ (KeptTools(c, turns'[m]) /\ KeptText(c, turns'[m]))
    BY <1>18, <2>3
  <2>5. SessionInv(c, k, turns', shown')
    BY <1>16, <2>3, <2>4, SessionAges
  <2>6. n \in DOMAIN turns'
    BY <1>16
  <2>7. u = [c EXCEPT !.served = @ \cup {n}]
    BY <1>7, <2>1
  <2>8. SessionInv(u, k, turns', shown') /\ Grows(c, u)
    BY <1>13, <1>18, <2>5, <2>6, <2>7, SessionServes
  <2> QED BY <2>1, <2>2, <2>8
<1>20. \A m \in u.served : m \in heap[o].served \/ m \notin DOMAIN turns
  <2>1. PICK c : c = heap[o]
    OBVIOUS
  <2>2. "served" \in DOMAIN c
    <3>1. SessionInv(c, h[r].key, turns, shown)
      BY <1>12, <2>1, Held
    <3> QED BY <3>1 DEF SessionInv, IsSession
  <2>3. u.served = c.served \cup {n}
    BY <1>7, <2>1, <2>2
  <2> QED BY <1>16, <2>1, <2>3
<1>21. /\ y \in Handler /\ y.key = h[r].key /\ y.q = q /\ y.object = o /\ y.turn = n
       /\ y.replayed = [m \in Blocks |-> NoBlock]
  <2>1. Idle.replayed = [m \in Blocks |-> NoBlock]
    BY IdleFacts
  <2> QED BY <1>2, <1>3, <1>5, <1>9, <1>13, <2>1 DEF Handler
<1>22. /\ Finish(q, complete) = <<>> \/ Finish(q, complete) \in Ends
       /\ Finish(q, complete) # <<"texts", "write">>
       /\ Finish(q, complete) = <<"write">> => q.enabled = FALSE /\ q.provider # "chat"
       /\ Finish(q, complete) = <<"tools", "write">> => q.enabled = FALSE
  BY <1>8, <1>14, FinishEnds
<1>23. PICK steps : steps = Finish(q, complete)
  OBVIOUS
<1>24. steps \in Seq(Phases)
  <2>1. <<>> \in Seq(Phases)
    BY EmptySeq
  <2> QED BY <1>22, <1>23, <2>1, EndsSteps
<1>25. /\ x \in Handler
       /\ steps = <<>> => x = Idle
       /\ steps # <<>> => /\ x.todo = steps /\ x.key = h[r].key /\ x.q = q /\ x.object = o
                          /\ x.turn = n /\ x.replayed = [m \in Blocks |-> NoBlock]
  <2>1. x = Goto(y, steps)
    BY <1>6, <1>23
  <2> QED BY <1>9, <1>21, <1>24, <2>1, GotoFacts
<1>26. /\ x \in Handler
       /\ x.object # NoObject => x.object = o /\ x.key = h[r].key
       /\ x.turn # NoBlock => x.object = o /\ x.turn \notin DOMAIN turns
  <2>1. CASE steps = <<>>
    BY <1>25, <2>1, IdleFacts
  <2>2. CASE steps # <<>>
    BY <1>16, <1>25, <2>2
  <2> QED BY <2>1, <2>2
<1>27. HeapWith(heap', o, u) /\ DOMAIN heap' = Reachable(pool', h')
  <2>1. DOMAIN heap' = Reachable(pool', h')
    BY <1>8
  <2>2. ASSUME NEW z \in DOMAIN heap' PROVE heap'[z] = IF z = o THEN u ELSE heap[z]
    <3>1. z \in DOMAIN heap
      BY <1>3, <1>8, <1>26, <2>1, NotMore
    <3>2. heap'[z] = [heap EXCEPT ![o].served = @ \cup {n}][z]
      BY <1>8, <2>1
    <3> QED BY <1>7, <3>1, <3>2
  <2> QED BY <2>1, <2>2 DEF HeapWith
<1>28. HandlerInv(x, heap', turns', shown')
  <2>1. CASE steps = <<>>
    BY <1>25, <2>1, IdleFacts DEF HandlerInv
  <2>2. CASE steps # <<>>
    <3>1. steps \in Ends
      BY <1>22, <1>23, <2>2
    <3>2. /\ x.turn \in DOMAIN turns' /\ turns'[x.turn].key = x.key /\ turns'[x.turn].q = x.q
          /\ turns'[x.turn] = t
      BY <1>15, <1>16, <1>25, <2>2
    <3>3. steps \in {<<"write">>, <<"texts", "write">>} => KeptTools(heap'[x.object], t)
      BY <1>15, <1>22, <1>23 DEF KeptTools
    <3>4. steps = <<"write">> => KeptText(heap'[x.object], t)
      BY <1>15, <1>22, <1>23 DEF KeptText
    <3>5. steps = <<"tools", "write">> => x.q.enabled = FALSE
      BY <1>22, <1>23, <1>25, <2>2
    <3>6. Ending(x, heap', turns')
      BY <1>11, <1>25, <2>2, <3>1, <3>2, <3>3, <3>4, <3>5 DEF Ending
    <3> QED BY <1>25, <2>2, <3>6 DEF HandlerInv
  <2> QED BY <2>1, <2>2
<1>29. world' = world /\ now' = now /\ limits' = limits /\ pool' = pool
  BY <1>8
<1> QED BY <1>3, <1>8, <1>11, <1>16, <1>17, <1>18, <1>19, <1>20, <1>26, <1>27, <1>28, <1>29, SessionStep

\* Going on, with what has been remembered.
LEMMA RememberStep ==
    ASSUME IInv, NEW r \in Requests, NEW u, NEW steps, steps = Tail(h[r].todo),
           Ending(h[r], heap, turns),
           h' = [h EXCEPT ![r] = Advance(h[r])],
           world' = world, now' = now, limits' = limits, pool' = pool, turns' = turns, shown' = shown,
           DOMAIN heap' = Reachable(pool', h'), HeapWith(heap', h[r].object, u),
           SessionInv(u, h[r].key, turns, shown), Grows(heap[h[r].object], u),
           u.served = heap[h[r].object].served,
           steps \in {<<"write">>, <<"texts", "write">>} => KeptTools(u, turns[h[r].turn]),
           steps = <<"write">> => KeptText(u, turns[h[r].turn])
    PROVE  IInv'
<1>1. PICK x : x = Advance(h[r])
  OBVIOUS
<1>2. h[r] \in Handler /\ now \in 0..MaxTime /\ turns \in Seq(Turn) /\ Len(turns) <= Len(Answers)
      /\ shown \subseteq DOMAIN turns /\ HandlersInv
  BY DEF IInv, StateInv
<1>3. /\ h[r].todo \in Ends /\ h[r].object # NoObject /\ h[r].turn \in DOMAIN turns
      /\ turns[h[r].turn].key = h[r].key /\ turns[h[r].turn].q = h[r].q
  BY DEF Ending
<1>4. (steps = <<>> \/ steps \in Ends) /\ steps # <<"tools", "write">>
  BY <1>3, EndsSteps
<1>5. steps \in Seq(Phases)
  <2>1. <<>> \in Seq(Phases)
    BY EmptySeq
  <2> QED BY <1>4, <2>1, EndsSteps
<1>6. /\ x \in Handler
      /\ steps = <<>> => x = Idle
      /\ steps # <<>> => /\ x.todo = steps /\ x.key = h[r].key /\ x.q = h[r].q
                         /\ x.object = h[r].object /\ x.turn = h[r].turn
                         /\ x.replayed = h[r].replayed
  <2>1. x = Goto(h[r], steps)
    BY <1>1 DEF Advance
  <2> QED BY <1>2, <1>5, <2>1, GotoFacts
<1>7. /\ x.object # NoObject => x.object = h[r].object /\ x.key = h[r].key
      /\ x.turn # NoBlock => x.object = h[r].object /\ x.turn = h[r].turn
  <2>1. CASE steps = <<>>
    BY <1>6, <2>1, IdleFacts
  <2>2. CASE steps # <<>>
    BY <1>6, <2>2
  <2> QED BY <2>1, <2>2
<1>8. HandlerInv(x, heap', turns', shown')
  <2>1. CASE steps = <<>>
    BY <1>6, <2>1, IdleFacts DEF HandlerInv
  <2>2. CASE steps # <<>>
    <3>1. h'[r] = x /\ x.object \in DOMAIN heap'
      <4>1. h \in [Requests -> Handler]
        BY DEF IInv, StateInv
      <4>2. h'[r] = x
        BY <1>1, <4>1
      <4>3. x.object # NoObject
        BY <1>3, <1>6, <2>2
      <4> QED BY <4>2, <4>3 DEF Reachable
    <3>2. heap'[x.object] = u
      BY <1>6, <2>2, <3>1 DEF HeapWith
    <3>3. Ending(x, heap', turns')
      BY <1>3, <1>4, <1>6, <2>2, <3>2 DEF Ending
    <3>4. \A n \in Blocks : x.replayed[n] # NoBlock => Own(x.replayed[n], n, turns')
      BY <1>2, <1>6, <2>2 DEF HandlersInv, HandlerInv
    <3> QED BY <3>3, <3>4 DEF HandlerInv
  <2> QED BY <2>1, <2>2
<1>9. /\ turns' \in Seq(Turn) /\ Len(turns') <= Len(Answers) /\ Extends(turns, turns')
      /\ shown \subseteq shown' /\ shown' \subseteq DOMAIN turns'
      /\ \A n \in shown' : n \in shown \/ n \notin DOMAIN turns
      /\ SessionInv(u, h[r].key, turns', shown')
      /\ \A n \in u.served : n \in heap[h[r].object].served \/ n \notin DOMAIN turns
  BY <1>2 DEF Extends
<1>10. h' = [h EXCEPT ![r] = x]
  BY <1>1
<1> QED BY <1>3, <1>6, <1>7, <1>8, <1>9, <1>10, SessionStep

\* A changed heap, seen from one handler.
LEMMA HeapAfter ==
    ASSUME IInv, NEW r \in Requests, NEW g, DOMAIN g = DOMAIN heap,
           \A z \in DOMAIN heap : z # h[r].object => g[z] = heap[z],
           HandlerInv(h[r], heap, turns, shown), Ending(h[r], heap, turns),
           h' = [h EXCEPT ![r] = Advance(h[r])], pool' = pool,
           heap' = [o \in Reachable(pool', h') |-> g[o]]
    PROVE  DOMAIN heap' = Reachable(pool', h') /\ HeapWith(heap', h[r].object, g[h[r].object])
<1>1. PICK x : x = Advance(h[r])
  OBVIOUS
<1>2. h[r] \in Handler /\ now \in 0..MaxTime
  BY DEF IInv, StateInv
<1>3. PICK steps : steps = Tail(h[r].todo)
  OBVIOUS
<1>4. steps \in Seq(Phases)
  <2>1. steps = <<>> \/ steps \in Ends
    BY <1>3, EndsSteps DEF Ending
  <2>2. <<>> \in Seq(Phases)
    BY EmptySeq
  <2> QED BY <2>1, <2>2, EndsSteps
<1>5. x = Goto(h[r], steps)
  BY <1>1, <1>3 DEF Advance
<1>6. x.object # NoObject => x.object = h[r].object
  BY <1>2, <1>4, <1>5, GotoFacts, IdleFacts
<1>7. h' = [h EXCEPT ![r] = x]
  BY <1>1
<1>8. \A z \in DOMAIN heap' : z \in DOMAIN heap
  BY <1>6, <1>7, NotMore
<1> QED BY <1>8 DEF HeapWith

LEMMA RememberToolsStep ==
    ASSUME IInv, NEW r \in Requests, RememberTools(r)
    PROVE  IInv'
<1>1. PICK n : n = h[r].turn
  OBVIOUS
<1>2. PICK o : o = h[r].object
  OBVIOUS
<1>3. PICK a : a = turns[n].a
  OBVIOUS
<1>4. PICK g : g = IF a.thinking /\ a.tools # <<>>
                   THEN [heap EXCEPT ![o].tools = Remember(@, a.tools, n)] ELSE heap
  OBVIOUS
<1>5. PICK u : u = g[o]
  OBVIOUS
<1>6. PICK steps : steps = Tail(h[r].todo)
  OBVIOUS
<1>7. /\ Head(h[r].todo) = "tools" /\ h' = [h EXCEPT ![r] = Advance(h[r])]
      /\ UNCHANGED <<world, now, limits, pool, turns, shown>>
      /\ heap' = [z \in Reachable(pool', h') |-> g[z]]
  BY <1>1, <1>2, <1>3, <1>4 DEF RememberTools, Heap, At
<1>8. StateInv /\ HandlerInv(h[r], heap, turns, shown)
  BY DEF IInv, HandlersInv
<1>9. Ending(h[r], heap, turns)
  BY <1>7, <1>8, Phase
<1>10. /\ h[r].todo \in Ends /\ o # NoObject /\ n \in DOMAIN turns
       /\ turns[n].key = h[r].key /\ turns[n].q = h[r].q
       /\ h[r].todo = <<"tools", "write">> => h[r].q.enabled = FALSE
  BY <1>1, <1>2, <1>9 DEF Ending
<1>11. o \in Objects /\ o \in DOMAIN heap /\ h[r].key \in Keys \cup {Ephemeral}
       /\ Holds(pool, h, o, h[r].key)
  BY <1>2, <1>10, HandlerHolds
<1>12. PICK c : c = heap[o]
  OBVIOUS
<1>13. SessionInv(c, h[r].key, turns, shown)
  BY <1>11, <1>12, Held
<1>14. n \in Blocks /\ IsAnswer(a) /\ IsAnswer(turns[n].a)
  BY <1>3, <1>8, <1>10, TurnTypes
<1>15. DOMAIN g = DOMAIN heap /\ \A z \in DOMAIN heap : z # o => g[z] = heap[z]
  BY <1>4
<1>16. DOMAIN heap' = Reachable(pool', h') /\ HeapWith(heap', o, u)
  BY <1>2, <1>5, <1>7, <1>8, <1>9, <1>15, HeapAfter
<1>17. /\ SessionInv(u, h[r].key, turns, shown) /\ Grows(c, u) /\ KeptTools(u, turns[n])
       /\ u.served = c.served
  <2>1. CASE a.thinking = TRUE /\ a.tools # <<>>
    <3>1. u = [c EXCEPT !.tools = Remember(@, turns[n].a.tools, n)]
      BY <1>3, <1>4, <1>5, <1>11, <1>12, <2>1
    <3>2. turns[n].key = h[r].key /\ turns[n].a.thinking = TRUE
      BY <1>3, <1>10, <2>1
    <3>3. PICK k : k = h[r].key
      OBVIOUS
    <3>4. SessionInv(c, k, turns, shown) /\ turns[n].key = k
      BY <1>13, <3>2, <3>3
    <3>5. SessionInv(u, k, turns, shown) /\ Grows(c, u) /\ KeptTools(u, turns[n])
      BY <1>10, <1>14, <3>1, <3>2, <3>4, SessionRemembersTools, ZenonT(60)
    <3>6. u.served = c.served
      BY <3>1
    <3> QED BY <3>3, <3>5, <3>6
  <2>2. CASE ~(a.thinking = TRUE /\ a.tools # <<>>)
    <3>1. u = c
      BY <1>4, <1>5, <1>12, <1>14, <2>2 DEF IsAnswer
    <3>2. KeptTools(u, turns[n])
      <4>1. a.tools = <<>> => ToSet(a.tools) = {}
        BY DEF ToSet
      <4> QED BY <1>3, <2>2, <4>1 DEF KeptTools
    <3> QED BY <1>13, <3>1, <3>2 DEF Grows
  <2> QED BY <2>1, <2>2
<1>18. steps = <<"write">> => KeptText(u, turns[n])
  <2>1. SUFFICES ASSUME steps = <<"write">> PROVE KeptText(u, turns[n])
    OBVIOUS
  <2>2. h[r].todo \in {<<"texts", "write">>, <<"tools", "write">>}
    BY <1>6, <1>10, <2>1, EndsSteps
  <2>3. h[r].todo = <<"tools", "write">>
    BY <1>7, <2>2
  <2> QED BY <1>10, <2>3 DEF KeptText
<1>19. world' = world /\ now' = now /\ limits' = limits /\ pool' = pool /\ turns' = turns
       /\ shown' = shown
  BY <1>7
<1> QED BY <1>1, <1>2, <1>6, <1>7, <1>9, <1>12, <1>16, <1>17, <1>18, <1>19, RememberStep

LEMMA RememberTextStep ==
    ASSUME IInv, NEW r \in Requests, RememberText(r)
    PROVE  IInv'
<1>1. PICK n : n = h[r].turn
  OBVIOUS
<1>2. PICK o : o = h[r].object
  OBVIOUS
<1>3. PICK a : a = turns[n].a
  OBVIOUS
<1>4. PICK g : g = IF a.thinking /\ a.text # NoText
                   THEN [heap EXCEPT ![o].texts = Remember(@, <<a.text>>, n)] ELSE heap
  OBVIOUS
<1>5. PICK u : u = g[o]
  OBVIOUS
<1>6. PICK steps : steps = Tail(h[r].todo)
  OBVIOUS
<1>7. /\ Head(h[r].todo) = "texts" /\ h' = [h EXCEPT ![r] = Advance(h[r])]
      /\ UNCHANGED <<world, now, limits, pool, turns, shown>>
      /\ heap' = [z \in Reachable(pool', h') |-> g[z]]
  BY <1>1, <1>2, <1>3, <1>4 DEF RememberText, Heap, At
<1>8. StateInv /\ HandlerInv(h[r], heap, turns, shown)
  BY DEF IInv, HandlersInv
<1>9. Ending(h[r], heap, turns)
  BY <1>7, <1>8, Phase
<1>10. /\ h[r].todo \in Ends /\ o # NoObject /\ n \in DOMAIN turns
       /\ turns[n].key = h[r].key
       /\ h[r].todo = <<"texts", "write">> => KeptTools(heap[o], turns[n])
  BY <1>1, <1>2, <1>9 DEF Ending
<1>11. o \in Objects /\ o \in DOMAIN heap /\ h[r].key \in Keys \cup {Ephemeral}
       /\ Holds(pool, h, o, h[r].key)
  BY <1>2, <1>10, HandlerHolds
<1>12. PICK c : c = heap[o]
  OBVIOUS
<1>13. SessionInv(c, h[r].key, turns, shown)
  BY <1>11, <1>12, Held
<1>14. n \in Blocks /\ IsAnswer(a) /\ IsAnswer(turns[n].a)
  BY <1>3, <1>8, <1>10, TurnTypes
<1>15. DOMAIN g = DOMAIN heap /\ \A z \in DOMAIN heap : z # o => g[z] = heap[z]
  BY <1>4
<1>16. DOMAIN heap' = Reachable(pool', h') /\ HeapWith(heap', o, u)
  BY <1>2, <1>5, <1>7, <1>8, <1>9, <1>15, HeapAfter
<1>17. /\ SessionInv(u, h[r].key, turns, shown) /\ Grows(c, u) /\ KeptText(u, turns[n])
       /\ u.served = c.served
  <2>1. CASE a.thinking = TRUE /\ a.text # NoText
    <3>1. u = [c EXCEPT !.texts = Remember(@, <<turns[n].a.text>>, n)]
      BY <1>3, <1>4, <1>5, <1>11, <1>12, <2>1
    <3>2. turns[n].key = h[r].key /\ turns[n].a.thinking = TRUE /\ turns[n].a.text # NoText
      BY <1>3, <1>10, <2>1
    <3>3. PICK k : k = h[r].key
      OBVIOUS
    <3>4. SessionInv(c, k, turns, shown) /\ turns[n].key = k
      BY <1>13, <3>2, <3>3
    <3>5. SessionInv(u, k, turns, shown) /\ Grows(c, u) /\ KeptText(u, turns[n])
      BY <1>10, <1>14, <3>1, <3>2, <3>4, SessionRemembersText, ZenonT(60)
    <3>6. u.served = c.served
      BY <3>1
    <3> QED BY <3>3, <3>5, <3>6
  <2>2. CASE ~(a.thinking = TRUE /\ a.text # NoText)
    <3>1. u = c
      BY <1>4, <1>5, <1>12, <1>14, <2>2 DEF IsAnswer
    <3>2. KeptText(u, turns[n])
      BY <1>3, <2>2 DEF KeptText
    <3> QED BY <1>13, <3>1, <3>2 DEF Grows
  <2> QED BY <2>1, <2>2
<1>18. steps \in {<<"write">>, <<"texts", "write">>} => KeptTools(u, turns[n])
  <2>1. SUFFICES ASSUME steps \in {<<"write">>, <<"texts", "write">>} PROVE KeptTools(u, turns[n])
    OBVIOUS
  <2>2. steps = <<"write">>
    <3>1. steps = <<"texts", "write">> => Head(h[r].todo) = "tools"
      BY <1>6, <1>10, EndsSteps
    <3> QED BY <1>7, <2>1, <3>1
  <2>3. h[r].todo \in {<<"texts", "write">>, <<"tools", "write">>}
    BY <1>6, <1>10, <2>2, EndsSteps
  <2>4. h[r].todo = <<"texts", "write">>
    BY <1>7, <2>3
  <2>5. KeptTools(c, turns[n])
    BY <1>10, <1>12, <2>4
  <2> QED BY <1>17, <2>5, GrowsKeeps
<1>19. world' = world /\ now' = now /\ limits' = limits /\ pool' = pool /\ turns' = turns
       /\ shown' = shown
  BY <1>7
<1> QED BY <1>1, <1>2, <1>6, <1>7, <1>9, <1>12, <1>16, <1>17, <1>18, <1>19, RememberStep

---------------------------------------------------------------------------
(* The invariant *)

LEMMA InitInv ==
    ASSUME Init
    PROVE  IInv
<1>1. /\ world \in Worlds /\ now = 0 /\ limits \in Limits /\ pool = <<>> /\ heap = <<>>
      /\ turns = <<>> /\ shown = {} /\ h = [r \in Requests |-> Idle]
  BY DEF Init
<1>2. DOMAIN <<>> = {} /\ Len(<<>>) = 0
  OBVIOUS
<1>3. /\ h \in [Requests -> Handler]
      /\ \A r \in Requests : h[r] = Idle /\ h[r].object = NoObject /\ h[r].turn = NoBlock
  BY <1>1, IdleFacts
<1>4. Reachable(pool, h) = {}
  BY <1>1, <1>2, <1>3 DEF Reachable
<1>5. \A k : \A o \in Objects : ~Holds(pool, h, o, k)
  BY <1>1, <1>2, <1>3, NamesAssumption DEF Holds
<1>6. StateInv
  <2>1. IsFiniteSet(DOMAIN pool)
    BY <1>1, <1>2, FS_EmptySet
  <2>2. turns \in Seq(Turn)
    BY <1>1, EmptySeq
  <2>3. Len(turns) <= Len(Answers) /\ now \in 0..MaxTime
    BY <1>1, <1>2, BoundsAssumption
  <2> QED BY <1>1, <1>2, <1>3, <1>4, <2>1, <2>2, <2>3 DEF StateInv
<1>7. OwnersInv
  BY <1>3, <1>5 DEF OwnersInv, Owners
<1>8. SessionsInv
  BY <1>5 DEF SessionsInv
<1>9. HandlersInv
  BY <1>3, IdleFacts DEF HandlersInv, HandlerInv
<1>10. ServedInv
  BY <1>1, <1>2 DEF ServedInv
<1> QED BY <1>6, <1>7, <1>8, <1>9, <1>10 DEF IInv

LEMMA SameStep ==
    ASSUME IInv, UNCHANGED vars
    PROVE  IInv'
<1>1. /\ world' = world /\ now' = now /\ limits' = limits /\ pool' = pool /\ heap' = heap
      /\ turns' = turns /\ shown' = shown /\ h' = h
  BY DEF vars
<1>2. Reachable(pool', h') = Reachable(pool, h)
  BY <1>1
<1>3. \A o, k : Holds(pool', h', o, k) <=> Holds(pool, h, o, k)
  BY <1>1
<1>4. StateInv'
  BY <1>1, <1>2 DEF IInv, StateInv
<1>5. OwnersInv'
  BY <1>1 DEF IInv, OwnersInv
<1>6. SessionsInv'
  BY <1>1, <1>3 DEF IInv, SessionsInv
<1>7. HandlersInv' /\ ServedInv'
  BY <1>1 DEF IInv, HandlersInv, ServedInv
<1> QED BY <1>4, <1>5, <1>6, <1>7 DEF IInv

LEMMA NextInv ==
    ASSUME IInv, [Next]_vars
    PROVE  IInv'
<1>1. ASSUME NEW r \in Requests, Serve(r) PROVE IInv'
  <2>1. CASE \E k \in Keys \cup {Ephemeral}, q \in Questions : Arrive(r, k, q)
    BY <2>1, ArriveStep
  <2>2. CASE \E t \in h[r].since..now : Find(r, t) \/ Create(r, t)
    BY <2>2, FindStep, CreateStep
  <2>3. CASE \E a \in UNION {Answers[n] : n \in Blocks}, complete \in BOOLEAN : Answer(r, a, complete)
    BY <2>3, AnswerStep
  <2>4. CASE CreateEphemeral(r) \/ Replay(r)
    BY <2>4, CreateEphemeralStep, ReplayStep
  <2>5. CASE Return(r) \/ RememberTools(r) \/ RememberText(r) \/ Write(r)
    BY <2>5, ReturnStep, RememberToolsStep, RememberTextStep, WriteStep
  <2> QED BY <1>1, <2>1, <2>2, <2>3, <2>4, <2>5 DEF Serve
<1>2. CASE Prune \/ Tick \/ Reconfigure
  BY <1>2, PruneStep, ClockStep
<1>3. CASE UNCHANGED vars
  BY <1>3, SameStep
<1> QED BY <1>1, <1>2, <1>3 DEF Next

LEMMA InvariantHolds == Spec => []IInv
<1>1. Init => IInv
  BY InitInv
<1>2. IInv /\ [Next]_vars => IInv'
  BY NextInv
<1> QED BY <1>1, <1>2, PTL DEF Spec

---------------------------------------------------------------------------
(* The results *)

LEMMA InvTypes ==
    ASSUME IInv
    PROVE  TypeOK
<1>1. StateInv
  BY DEF IInv
<1>2. \A o \in DOMAIN heap : IsSession(heap[o])
  <2>1. ASSUME NEW o \in DOMAIN heap PROVE IsSession(heap[o])
    <3>1. /\ DOMAIN pool \subseteq Keys /\ \A k \in DOMAIN pool : pool[k].object \in Objects
          /\ h \in [Requests -> Handler] /\ o \in Reachable(pool, h)
      BY <1>1, StateTypes DEF StateInv
    <3>2. o \in Objects /\ \E k \in Keys \cup {Ephemeral} : Holds(pool, h, o, k)
      BY <3>1, Holders
    <3>3. PICK k \in Keys \cup {Ephemeral} : Holds(pool, h, o, k)
      BY <3>2
    <3>4. SessionInv(heap[o], k, turns, shown)
      BY <3>2, <3>3, Held
    <3> QED BY <3>4 DEF SessionInv
  <2> QED BY <2>1
<1>3. \A n \in DOMAIN turns : IsTurn(turns[n]) /\ n \in Blocks
  BY <1>1, TurnTypes
<1> QED BY <1>1, <1>2, <1>3 DEF TypeOK, StateInv

LEMMA InvCaches ==
    ASSUME IInv
    PROVE  CachesConsistent
<1>1. SUFFICES ASSUME NEW o \in DOMAIN heap
               PROVE  Consistent(heap[o].tools) /\ Consistent(heap[o].texts)
  BY DEF CachesConsistent
<1>2. /\ DOMAIN pool \subseteq Keys /\ \A k \in DOMAIN pool : pool[k].object \in Objects
      /\ h \in [Requests -> Handler] /\ o \in Reachable(pool, h)
  BY StateTypes DEF IInv, StateInv
<1>3. o \in Objects /\ \E k \in Keys \cup {Ephemeral} : Holds(pool, h, o, k)
  BY <1>2, Holders
<1>4. PICK k \in Keys \cup {Ephemeral} : Holds(pool, h, o, k)
  BY <1>3
<1>5. SessionInv(heap[o], k, turns, shown)
  BY <1>3, <1>4, Held
<1> QED BY <1>5 DEF SessionInv

LEMMA InvReplay ==
    ASSUME IInv
    PROVE  ReplayOwnConversation
<1>1. SUFFICES ASSUME NEW r \in Requests, NEW n \in Blocks, NEW b, b = h[r].replayed[n],
                      b # NoBlock
               PROVE  /\ turns[b].key = turns[n].key /\ turns[b].key # Ephemeral
                      /\ turns[b].a.thinking /\ Alike(b, n)
  BY Zenon DEF ReplayOwnConversation
<1>2. Own(b, n, turns)
  BY <1>1 DEF IInv, HandlersInv, HandlerInv
<1> QED BY <1>2 DEF Own, Alike

(* The states of the sessions, of the pool and of the handlers are the     *)
(* ones the code can be in: a session is there as long as the pool or a    *)
(* handler has it, and no answer and no record is out of range.            *)
THEOREM TypeCorrect == Spec => []TypeOK
<1>1. IInv => TypeOK
  BY InvTypes
<1> QED BY <1>1, InvariantHolds, PTL

(* state.go: for any limit and any number of handlers, answers and         *)
(* reloads, RememberForToolCalls, RememberForAssistantText and pruneLocked *)
(* keep the records of a session within the limit and each of them once in *)
(* the queue, so that every record is within reach of the pruning.         *)
THEOREM CachesStayConsistent == Spec => []CachesConsistent
<1>1. IInv => CachesConsistent
  BY InvCaches
<1> QED BY <1>1, InvariantHolds, PTL

(* session.go's isolation, for any number of conversations at work at      *)
(* once: what prependCachedThinking and prependCachedReasoningForChat put  *)
(* before an answer is thinking of the same session key, also when the     *)
(* session was evicted, has expired or was replaced under its handlers, and*)
(* a request without a key is given none.                                  *)
THEOREM ConversationsAreIsolated == Spec => []ReplayOwnConversation
<1>1. IInv => ReplayOwnConversation
  BY InvReplay
<1> QED BY <1>1, InvariantHolds, PTL

---------------------------------------------------------------------------
(* What an answered turn gives back *)

LEMMA RestoredSome ==
    ASSUME StateInv, NEW s, NEW k, SessionInv(s, k, turns, shown), NEW q \in Questions,
           NEW n \in DOMAIN turns, KeptTools(s, turns[n]), KeptText(s, turns[n]),
           Replayable(q, n), s.tools.full = FALSE, s.texts.full = FALSE
    PROVE  Restored(q, s, n) # NoBlock
<1>1. PICK ids : ids = turns[n].a.tools
  OBVIOUS
<1>2. PICK text : text = turns[n].a.text
  OBVIOUS
<1>3. /\ ids \in Seq(ToolIds) /\ turns[n].a.thinking \in BOOLEAN /\ turns[n].q \in Questions
  BY <1>1, TurnTypes DEF IsAnswer, IsTurn
<1>4. turns[n].q.enabled \in BOOLEAN /\ turns[n].a.thinking = TRUE
  BY <1>3, QuestionsAssumption DEF AllQuestions, Replayable
<1>5. PICK f : f = Selected(ids, DOMAIN s.tools.block)
  OBVIOUS
<1>6. /\ f # <<>> => Head(f) \in DOMAIN s.tools.block
      /\ f = <<>> => \A x \in ToSet(ids) : x \notin DOMAIN s.tools.block
  BY <1>3, <1>5, FirstSelected
<1>7. Restored(q, s, n) = IF f # <<>> THEN Cached(s.tools, Head(f))
                          ELSE IF q.provider = "anthropic" THEN Cached(s.texts, text) ELSE NoBlock
  BY <1>1, <1>2, <1>5 DEF Restored
<1>8. /\ \A i \in DOMAIN s.tools.block : s.tools.block[i] # NoBlock
      /\ \A i \in DOMAIN s.texts.block : s.texts.block[i] # NoBlock
  <2>1. IsCache(s.tools, ToolIds) /\ IsCache(s.texts, Texts)
    BY DEF SessionInv, IsSession
  <2>2. NoBlock \notin Blocks
    BY DEF Blocks, NoBlock
  <2> QED BY <2>1, <2>2 DEF IsCache
<1>9. CASE f # <<>>
  BY <1>6, <1>7, <1>8, <1>9 DEF Cached
<1>10. CASE f = <<>>
  <2>1. ~(ids # <<>> /\ (turns[n].q.enabled = TRUE \/ turns[n].q.provider = "chat"))
    <3>1. SUFFICES ASSUME ids # <<>>, turns[n].q.enabled = TRUE \/ turns[n].q.provider = "chat"
                   PROVE  FALSE
      OBVIOUS
    <3>2. ToSet(ids) \subseteq DOMAIN s.tools.block
      BY <1>1, <1>4, <3>1 DEF KeptTools
    <3>3. ids[1] \in ToSet(ids)
      <4>1. 1 \in 1..Len(ids)
        BY <1>3, <3>1, EmptySeq
      <4> QED BY <1>3, <4>1, InSet
    <3> QED BY <1>6, <1>10, <3>2, <3>3
  <2>2. text # NoText /\ turns[n].q.enabled = TRUE /\ q.provider = "anthropic"
    BY <1>1, <1>2, <1>4, <2>1 DEF Replayable
  <2>3. text \in DOMAIN s.texts.block
    BY <1>2, <1>4, <2>2 DEF KeptText
  <2> QED BY <1>7, <1>8, <1>10, <2>2, <2>3 DEF Cached
<1> QED BY <1>9, <1>10

\* Only replaying takes a handler from a replay to the next step.
LEMMA ReplaysItself ==
    ASSUME IInv, [Next]_vars, NEW r \in Requests, Head(h[r].todo) = "replay",
           h'[r].todo = Tail(h[r].todo)
    PROVE  Replay(r)
<1>1. /\ h \in [Requests -> Handler] /\ HandlerInv(h[r], heap, turns, shown)
  BY DEF IInv, StateInv, HandlersInv
<1>2. h[r].todo \in Waits
  BY <1>1, Phase DEF Waiting
<1>3. h[r].todo \in {<<"replay", "call">>, <<"replay", "lookup", "call">>}
  BY <1>2 DEF Waits
<1>4. Head(Tail(h[r].todo)) # "replay" /\ Head(Tail(h[r].todo)) # "idle"
  <2>1. Tail(h[r].todo) = <<"call">> \/ Tail(h[r].todo) = <<"lookup", "call">>
    BY <1>3, LaterSteps, Zenon
  <2>2. /\ Head(<<"call">>) = "call" /\ Head(<<"lookup", "call">>) = "lookup"
        /\ "call" # "replay" /\ "call" # "idle" /\ "lookup" # "replay" /\ "lookup" # "idle"
    OBVIOUS
  <2> QED BY <2>1, <2>2, Zenon
<1>5. h'[r] # h[r] /\ h'[r].todo # <<"idle">>
  <2>1. h'[r] = h[r] => Head(Tail(h[r].todo)) = "replay"
    OBVIOUS
  <2>2. Head(<<"idle">>) = "idle"
    OBVIOUS
  <2>3. h'[r].todo = <<"idle">> => Head(Tail(h[r].todo)) = "idle"
    BY <2>2, Zenon
  <2> QED BY <1>4, <2>1, <2>3
<1>6. ~(UNCHANGED vars \/ Prune \/ Tick \/ Reconfigure)
  BY <1>5 DEF vars, Prune, Tick, Reconfigure
<1>7. PICK s \in Requests : Serve(s)
  BY <1>6 DEF Next
<1>8. \E x : h' = [h EXCEPT ![s] = x]
  BY <1>7 DEF Serve, Arrive, CreateEphemeral, Replay, Find, Create, Answer, Return,
              RememberTools, RememberText, Write
<1>9. s = r
  BY <1>1, <1>5, <1>8
<1>10. ~Return(r)
  <2>1. Return(r) => h'[r] = Idle
    BY <1>1 DEF Return
  <2> QED BY <1>5, <2>1, IdleFacts
<1>11. /\ \A k \in Keys \cup {Ephemeral}, q \in Questions : ~Arrive(r, k, q)
       /\ ~CreateEphemeral(r) /\ ~RememberTools(r) /\ ~RememberText(r) /\ ~Write(r)
       /\ \A t \in h[r].since..now : ~Find(r, t) /\ ~Create(r, t)
       /\ \A a \in UNION {Answers[n] : n \in Blocks}, complete \in BOOLEAN : ~Answer(r, a, complete)
  BY DEF Arrive, CreateEphemeral, RememberTools, RememberText, Write, Find, Create, Answer,
         At, Looking, Looks
<1> QED BY <1>7, <1>9, <1>10, <1>11 DEF Serve

LEMMA ReplayGives ==
    ASSUME IInv, NEW r \in Requests, Replay(r),
           NEW n \in heap[h[r].object].served \cap h[r].presented,
           turns[n].q.stream # TRUE, Replayable(h[r].q, n),
           heap[h[r].object].tools.full # TRUE, heap[h[r].object].texts.full # TRUE
    PROVE  h'[r].replayed[n] # NoBlock
<1>1. PICK s : s = heap[h[r].object]
  OBVIOUS
<1>2. PICK k : k = h[r].key
  OBVIOUS
<1>3. PICK q : q = h[r].q
  OBVIOUS
<1>4. PICK y : y = Advance(h[r])
  OBVIOUS
<1>5. /\ h \in [Requests -> Handler] /\ h[r] \in Handler /\ StateInv /\ now \in 0..MaxTime
      /\ HandlerInv(h[r], heap, turns, shown) /\ shown \subseteq DOMAIN turns
  BY DEF IInv, StateInv, HandlersInv
<1>6. Waiting(h[r], heap, turns, shown) /\ Head(h[r].todo) = "replay"
  BY <1>5, Phase DEF Replay, At
<1>7. /\ h[r].object # NoObject /\ h[r].presented \subseteq shown /\ h[r].todo \in Waits
  BY <1>6 DEF Waiting
<1>8. SessionInv(s, k, turns, shown)
  BY <1>1, <1>2, <1>7, HandlerHolds, Held
<1>9. n \in s.served \cap shown /\ n \in DOMAIN turns /\ n \in Blocks
  BY <1>1, <1>5, <1>7, TurnTypes
<1>10. /\ turns[n].q.stream = FALSE /\ s.tools.full = FALSE /\ s.texts.full = FALSE
       /\ q \in Questions
  <2>1. turns[n].q \in Questions
    BY <1>5, <1>9, TurnTypes DEF IsTurn
  <2>2. s.tools.full \in BOOLEAN /\ s.texts.full \in BOOLEAN
    BY <1>8 DEF SessionInv, IsSession, IsCache
  <2> QED BY <1>1, <1>3, <1>5, <2>1, <2>2, HandlerTypes, QuestionsAssumption DEF AllQuestions
<1>11. KeptTools(s, turns[n]) /\ KeptText(s, turns[n])
  BY <1>8, <1>9, <1>10 DEF SessionInv
<1>12. Replayable(q, n)
  BY <1>3
<1>13. Restored(q, s, n) # NoBlock
  BY <1>5, <1>8, <1>9, <1>10, <1>11, <1>12, RestoredSome
<1>14. PICK f : f = [m \in Blocks |-> IF m \in h[r].presented
                                      THEN Restored(h[r].q, heap[h[r].object], m) ELSE NoBlock]
  OBVIOUS
<1>15. h'[r] = [y EXCEPT !.replayed = f]
  BY <1>4, <1>5, <1>14 DEF Replay
<1>16. y \in Handler
  <2>1. PICK steps : steps = Tail(h[r].todo)
    OBVIOUS
  <2>2. steps \in Seq(Phases) /\ y = Goto(h[r], steps)
    BY <1>4, <1>6, <1>7, <2>1, WaitsSteps DEF Advance
  <2> QED BY <1>5, <2>2, GotoFacts
<1>17. h'[r].replayed = f
  BY <1>15, <1>16 DEF Handler
<1>18. f[n] = Restored(q, s, n)
  BY <1>1, <1>3, <1>9, <1>14
<1> QED BY <1>13, <1>17, <1>18

LEMMA ReplaysAnswered ==
    ASSUME IInv, [Next]_vars
    PROVE  \A r \in Requests : At(r, "replay") /\ h'[r].todo = Tail(h[r].todo) =>
              LET session == heap[h[r].object] IN
              \A n \in session.served \cap h[r].presented :
                  /\ ~turns[n].q.stream /\ Replayable(h[r].q, n)
                  /\ ~session.tools.full /\ ~session.texts.full
                  => h'[r].replayed[n] # NoBlock
<1>1. SUFFICES ASSUME NEW r \in Requests, At(r, "replay"), h'[r].todo = Tail(h[r].todo),
                      NEW n \in heap[h[r].object].served \cap h[r].presented,
                      ~turns[n].q.stream, Replayable(h[r].q, n),
                      ~heap[h[r].object].tools.full, ~heap[h[r].object].texts.full
               PROVE  h'[r].replayed[n] # NoBlock
  BY Zenon
<1>2. Replay(r)
  BY <1>1, ReplaysItself DEF At
<1>3. /\ turns[n].q.stream # TRUE /\ heap[h[r].object].tools.full # TRUE
      /\ heap[h[r].object].texts.full # TRUE
  BY <1>1, Zenon
<1> QED BY <1>1, <1>2, <1>3, ReplayGives

(* A client that has got a response comes back at any time after it, with  *)
(* any number of others: finishing (adapter_dispatch.go) has remembered the*)
(* thinking before the response was written, in the session that served it,*)
(* and what is remembered later or by others does not take it away.        *)
THEOREM AnsweredTurnsReplay == Spec => AnsweredTurnReplayed
<1>1. IInv /\ [Next]_vars =>
        (\A r \in Requests : At(r, "replay") /\ h'[r].todo = Tail(h[r].todo) =>
              LET session == heap[h[r].object] IN
              \A n \in session.served \cap h[r].presented :
                  /\ ~turns[n].q.stream /\ Replayable(h[r].q, n)
                  /\ ~session.tools.full /\ ~session.texts.full
                  => h'[r].replayed[n] # NoBlock)
  BY ReplaysAnswered
<1> QED BY <1>1, InvariantHolds, PTL DEF Spec, AnsweredTurnReplayed

---------------------------------------------------------------------------
(* What leaves the pool *)

Stays == {k \in DOMAIN pool \cap DOMAIN pool' : pool'[k].object = pool[k].object}

\* What had expired at the lookup's clock has by now.
LEMMA ExpiredLater ==
    ASSUME StateInv, NEW t \in Int, t <= now, NEW k \in DOMAIN pool, Expired(k, t)
    PROVE  Expired(k, now)
<1>1. pool[k].lastUsed \in Int /\ limits.ttl \in Int /\ now \in Int
  BY StateTypes
<1> QED BY <1>1 DEF Expired

\* Nothing is added, and all that is gone has expired.
Shrinks == /\ DOMAIN pool' \subseteq DOMAIN pool
           /\ \A k \in DOMAIN pool : k \in Stays \/ Expired(k, now)

\* Room was made for a new session.
MakesRoom ==
    /\ limits'.max = 0 \/ Cardinality(DOMAIN pool') <= limits'.max
    /\ \A k \in DOMAIN pool \ Stays :
          \/ Expired(k, now)
          \/ /\ Cardinality(DOMAIN pool') = limits'.max
             /\ \A j \in Stays : pool[k].lastUsed <= pool[j].lastUsed

LEMMA FindShrinks ==
    ASSUME IInv, NEW r \in Requests, NEW t \in h[r].since..now, Find(r, t)
    PROVE  Shrinks
<1>1. PICK k : k = h[r].key
  OBVIOUS
<1>2. pool' = [Sessions(Unexpired(t)) EXCEPT ![k].lastUsed = t]
  BY <1>1 DEF Find
<1>3. Unexpired(t) \subseteq DOMAIN pool
  BY DEF Unexpired
<1>4. \A j \in DOMAIN pool : pool[j] \in [object : Objects, lastUsed : 0..MaxTime]
  BY DEF IInv, StateInv
<1>5. DOMAIN pool' = Unexpired(t) /\ \A j \in Unexpired(t) : pool'[j].object = pool[j].object
  <2>1. DOMAIN pool' = Unexpired(t)
    BY <1>2 DEF Sessions
  <2>2. ASSUME NEW j \in Unexpired(t) PROVE pool'[j].object = pool[j].object
    <3>1. pool'[j] = IF j = k THEN [pool[k] EXCEPT !.lastUsed = t] ELSE pool[j]
      BY <1>2 DEF Sessions
    <3>2. pool[j] \in [object : Objects, lastUsed : 0..MaxTime]
      BY <1>3, <1>4
    <3> QED BY <3>1, <3>2
  <2> QED BY <2>1, <2>2
<1>6. t \in Int /\ t <= now
  <2>1. h[r] \in Handler /\ now \in Int
    BY StateTypes DEF IInv, StateInv
  <2>2. h[r].since \in 0..MaxTime
    BY <2>1, HandlerTypes
  <2> QED BY <2>1, <2>2
<1>7. \A j \in DOMAIN pool : j \in Unexpired(t) \/ Expired(j, now)
  BY <1>6, ExpiredLater DEF Unexpired, IInv
<1> QED BY <1>3, <1>5, <1>7 DEF Shrinks, Stays

LEMMA PruneShrinks ==
    ASSUME Prune
    PROVE  Shrinks
<1>1. pool' = [k \in Unexpired(now) |-> pool[k]]
  BY DEF Prune, Sessions
<1>2. \A j \in DOMAIN pool : j \in Unexpired(now) \/ Expired(j, now)
  BY DEF Unexpired
<1>3. Unexpired(now) \subseteq DOMAIN pool
  BY DEF Unexpired
<1> QED BY <1>1, <1>2, <1>3 DEF Shrinks, Stays

LEMMA CreateMakesRoom ==
    ASSUME IInv, NEW r \in Requests, NEW t \in h[r].since..now, Create(r, t)
    PROVE  MakesRoom
<1>1. PICK key : key = h[r].key
  OBVIOUS
<1>2. PICK U : U = Unexpired(t)
  OBVIOUS
<1>a. PICK max : max = limits'.max
  OBVIOUS
<1>3. PICK left \in SUBSET U : Evicted(left, U, max) /\ pool' = Pooled(left, key, Fresh, t)
  BY <1>1, <1>2, <1>a DEF Create
<1>4. key \notin U /\ HasRoom
  BY <1>1, <1>2 DEF Create
<1>b. max \in Nat
  <2>1. limits' \in Limits
    BY DEF Create
  <2> QED BY <1>a, <2>1, LimitsAssumption
<1>5. /\ U \subseteq DOMAIN pool /\ IsFiniteSet(DOMAIN pool) /\ DOMAIN pool \subseteq Keys
      /\ h \in [Requests -> Handler] /\ max \in Nat
      /\ \A k \in DOMAIN pool : pool[k].object \in Objects
  BY <1>2, <1>b, StateTypes DEF IInv, StateInv, Unexpired
<1>6. t \in Int /\ t <= now
  <2>1. h[r] \in Handler /\ now \in Int
    BY StateTypes DEF IInv, StateInv
  <2>2. h[r].since \in 0..MaxTime
    BY <2>1, HandlerTypes
  <2> QED BY <2>1, <2>2
<1>7. \A j \in DOMAIN pool : j \in U \/ Expired(j, now)
  BY <1>2, <1>6, ExpiredLater DEF Unexpired, IInv
<1>8. /\ DOMAIN pool' = left \cup {key}
      /\ \A k \in left \cup {key} :
            pool'[k] = IF k = key THEN [object |-> Fresh, lastUsed |-> t] ELSE pool[k]
  BY <1>3 DEF Pooled
<1>9. IsFiniteSet(U) /\ IsFiniteSet(left)
  BY <1>3, <1>5, FS_Subset
<1>10. /\ Cardinality(U) \in Nat /\ Cardinality(left) \in Nat
       /\ Cardinality(left) = Cardinality(U) => left = U
       /\ Cardinality(left) <= Cardinality(U)
  <2>1. Cardinality(U) \in Nat /\ Cardinality(left) \in Nat
    BY <1>9, FS_CardinalityType
  <2>2. Cardinality(left) <= Cardinality(U) /\ (Cardinality(U) = Cardinality(left) => U = left)
    BY <1>3, <1>9, FS_Subset
  <2> QED BY <2>1, <2>2
<1>11. Cardinality(DOMAIN pool') = Cardinality(left) + 1
  <2>1. key \notin left
    BY <1>3, <1>4
  <2>2. Cardinality(left \cup {key}) = Cardinality(left) + 1
    BY <1>9, <2>1, FS_AddElement
  <2> QED BY <1>8, <2>2
<1>12. /\ Cardinality(left) = IF Full(U, max) THEN max - 1 ELSE Cardinality(U)
       /\ \A out \in U \ left, in \in left : pool[out].lastUsed <= pool[in].lastUsed
  BY <1>3 DEF Evicted
<1>13. Full(U, max) <=> max > 0 /\ Cardinality(U) >= max
  BY DEF Full
<1>14. Stays = left
  <2>1. Fresh \notin Reachable(pool, h)
    <3>1. Reachable(pool, h) \subseteq Objects
      BY <1>5, Holders
    <3>2. \E o \in Objects : o \notin Reachable(pool, h)
      BY <1>4, <3>1 DEF HasRoom
    <3> QED BY <3>2 DEF Fresh
  <2>2. \A k \in DOMAIN pool : pool[k].object # Fresh
    BY <2>1 DEF Reachable
  <2>3. key \notin left
    BY <1>3, <1>4
  <2>4. key \notin Stays
    <3>1. pool'[key].object = Fresh
      BY <1>8
    <3> QED BY <2>2, <3>1 DEF Stays
  <2>5. \A k \in left : k \in Stays
    BY <1>3, <1>5, <1>8, <2>3 DEF Stays
  <2>6. \A k \in Stays : k \in left
    BY <1>8, <2>4 DEF Stays
  <2> QED BY <2>5, <2>6
<1>15. max = 0 \/ Cardinality(DOMAIN pool') <= max
  BY <1>5, <1>10, <1>11, <1>12, <1>13
<1>16. ASSUME NEW k \in DOMAIN pool \ Stays, ~Expired(k, now)
       PROVE  /\ Cardinality(DOMAIN pool') = max
              /\ \A j \in Stays : pool[k].lastUsed <= pool[j].lastUsed
  <2>1. k \in U \ left
    BY <1>7, <1>14, <1>16
  <2>2. Full(U, max)
    BY <1>10, <1>12, <2>1
  <2>3. Cardinality(DOMAIN pool') = max
    BY <1>5, <1>11, <1>12, <2>2
  <2> QED BY <1>12, <1>14, <2>1, <2>3
<1> QED BY <1>a, <1>15, <1>16 DEF MakesRoom

LEMMA PoolSteps ==
    ASSUME IInv, [Next]_vars
    PROVE  Shrinks \/ MakesRoom
<1>1. CASE UNCHANGED pool
  BY <1>1 DEF Shrinks, Stays
<1>2. CASE Prune
  BY <1>2, PruneShrinks
<1>3. ASSUME NEW r \in Requests, Serve(r) PROVE UNCHANGED pool \/ Shrinks \/ MakesRoom
  <2>1. CASE \E t \in h[r].since..now : Find(r, t) \/ Create(r, t)
    BY <2>1, FindShrinks, CreateMakesRoom
  <2>2. CASE ~\E t \in h[r].since..now : Find(r, t) \/ Create(r, t)
    BY <1>3, <2>2 DEF Serve, Arrive, CreateEphemeral, Replay, Answer, Return, RememberTools,
                      RememberText, Write
  <2> QED BY <2>1, <2>2
<1>4. CASE Tick \/ Reconfigure \/ UNCHANGED vars
  BY <1>1, <1>4 DEF Tick, Reconfigure, vars
<1> QED BY <1>1, <1>2, <1>3, <1>4 DEF Next

LEMMA PoolIsKept ==
    ASSUME IInv, [Next]_vars
    PROVE  LET stay == {k \in DOMAIN pool \cap DOMAIN pool' : pool'[k].object = pool[k].object} IN
           /\ \/ DOMAIN pool' \subseteq DOMAIN pool \/ limits'.max = 0
              \/ Cardinality(DOMAIN pool') <= limits'.max
           /\ \A k \in DOMAIN pool \ stay :
                 \/ Expired(k, now)
                 \/ /\ Cardinality(DOMAIN pool') = limits'.max
                    /\ \A j \in stay : pool[k].lastUsed <= pool[j].lastUsed
<1>1. CASE Shrinks
  BY <1>1 DEF Shrinks, Stays
<1>2. CASE MakesRoom
  BY <1>2 DEF MakesRoom, Stays
<1> QED BY <1>1, <1>2, PoolSteps

(* pruneLocked and evictLRULocked (manager.go) for any limits, keys and    *)
(* clocks: a session leaves only when it has expired, or when the pool is  *)
(* then as full as it may be and all that stay were used as late, and a    *)
(* lookup that adds a session leaves no more than the limit.               *)
THEOREM PoolKeepsTheLatest == Spec => PoolKeepsLatest
<1>1. IInv /\ [Next]_vars =>
        (LET stay == {k \in DOMAIN pool \cap DOMAIN pool' : pool'[k].object = pool[k].object} IN
         /\ \/ DOMAIN pool' \subseteq DOMAIN pool \/ limits'.max = 0
            \/ Cardinality(DOMAIN pool') <= limits'.max
         /\ \A k \in DOMAIN pool \ stay :
               \/ Expired(k, now)
               \/ /\ Cardinality(DOMAIN pool') = limits'.max
                  /\ \A j \in stay : pool[k].lastUsed <= pool[j].lastUsed)
  BY PoolIsKept
<1> QED BY <1>1, InvariantHolds, PTL DEF Spec, PoolKeepsLatest
=============================================================================
