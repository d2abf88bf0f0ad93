--------------------------- MODULE SessionReplay ---------------------------
(***************************************************************************)
(* Sessions, and the thinking that DeepSeek wants back.                    *)
(*                                                                         *)
(* A request names its conversation with a session key, or is ephemeral.   *)
(* The session manager keeps a session per key in a pool bounded by        *)
(* max_sessions and session_ttl, which a configuration change replaces at  *)
(* any time.  Each session carries a deepseek_v4 State, two bounded caches *)
(* that remember the thinking of an answer by its tool-call ids and by its *)
(* text.  The next request of the conversation presents the earlier        *)
(* answers without their thinking, and the server puts it back.            *)
(*                                                                         *)
(* A handler looks its session up two or three times, so that it may work  *)
(* with one that has left the pool.  The manager and each State have a     *)
(* lock; a lookup, with a clock read before its lock, and each access to a  *)
(* cache are steps.  The extra rounds of the search and visual loops are left   *)
(* out.                                                                    *)
(***************************************************************************)
EXTENDS Integers, Sequences, FiniteSets, SequencesExt, Selections

CONSTANTS Requests,    \* handlers at work at the same time
          Keys,        \* session keys, from Session_id or X-Codex-Window-Id
          Ephemeral,   \* stands for the missing key
          ToolIds,     \* tool-call ids; conversations may use the same ones
          Texts,       \* texts of answers, by their hash
          Limit,       \* State.limit, 1024 in the code
          Objects,     \* addresses of sessions
          Limits,      \* the [max, ttl] pairs the configuration may hold, ttl in ticks
          Questions,   \* the kinds of requests
          Answers,     \* what the upstreams may answer, a set for each answer's number
          Worlds,      \* bounds: the [requests, keys, turns] of a behaviour
          MaxTime      \* bound on the clock

NoText == "no text"
NoObject == "no object"

(* Which provider a request goes to, whether it is a stream, and whether   *)
(* the plugin is enabled for its model.                                    *)
AllQuestions == [provider : {"anthropic", "chat"}, stream : BOOLEAN, enabled : BOOLEAN]

(* The tool calls, the text and whether there is thinking. *)
IsAnswer(a) ==
    /\ DOMAIN a = {"tools", "text", "thinking"}
    /\ a.tools \in Seq(ToolIds) /\ IsInjective(a.tools)
    /\ a.text \in Texts \cup {NoText} /\ a.thinking \in BOOLEAN

ASSUME LimitAssumption == Limit \in Nat \ {0}
ASSUME BoundsAssumption ==
    /\ MaxTime \in Nat
    /\ Len(Answers) \in Nat /\ DOMAIN Answers = 1..Len(Answers)
    /\ Worlds \subseteq [requests : SUBSET Requests, keys : SUBSET (Keys \cup {Ephemeral}),
                        turns : 0..Len(Answers)]
ASSUME LimitsAssumption == Limits \subseteq [max : Nat, ttl : Nat]
ASSUME QuestionsAssumption == Questions \subseteq AllQuestions /\ Questions # {}
ASSUME AnswersAssumption == \A n \in DOMAIN Answers : \A a \in Answers[n] : IsAnswer(a)
ASSUME NamesAssumption ==
    Ephemeral \notin Keys /\ NoText \notin Texts /\ NoObject \notin Objects

VARIABLES
    world,     \* the handlers at work, the keys they are asked for, the number of answers
    now,       \* the wall clock
    limits,    \* the server configuration of the current snapshot
    pool,      \* InMemoryManager.sessions: key -> [object, lastUsed]
    heap,      \* the sessions, each with its State
    turns,     \* history: the answers of the upstreams
    shown,     \* history: the answers a client has in full
    h          \* per request: the handler's local state

vars == <<world, now, limits, pool, heap, turns, shown, h>>

Blocks == 1..Len(Answers)   \* the thinking of an answer is named by the answer's number
NoBlock == 0

IsTurn(x) == /\ DOMAIN x = {"key", "q", "a"}
             /\ x.key \in Keys \cup {Ephemeral} /\ x.q \in Questions /\ IsAnswer(x.a)

Phases == {"idle", "touch", "lookup", "replay", "call", "tools", "texts", "write"}

Handler ==
    [todo : Seq(Phases),                   \* the steps left, the current one first
     key : Keys \cup {Ephemeral}, q : Questions,
     since : 0..MaxTime,                   \* when it reached the current lookup
     object : Objects \cup {NoObject},     \* sess
     turn : {NoBlock} \cup Blocks,          \* the answer of the upstream
     presented : SUBSET Blocks,            \* the earlier answers the request contains
     replayed : [Blocks -> {NoBlock} \cup Blocks]] \* the thinking put before each

(* A cache of State: the blocks by id, the ids in the order they came, and *)
(* the history of whether an id was ever pushed out.                       *)
IsCache(c, Ids) ==
    /\ DOMAIN c = {"order", "block", "full"}
    /\ c.order \in Seq(Ids) /\ c.full \in BOOLEAN
    /\ DOMAIN c.block \subseteq Ids /\ \A i \in DOMAIN c.block : c.block[i] \in Blocks

(* A session, its State, and the history of the answers it was used for.   *)
IsSession(s) ==
    /\ DOMAIN s = {"tools", "texts", "served"}
    /\ s.served \subseteq Blocks
    /\ IsCache(s.tools, ToolIds) /\ IsCache(s.texts, Texts)

(* The sessions that are in the pool or in the hands of a handler. *)
Reachable(p, hs) ==
    {p[k].object : k \in DOMAIN p} \cup ({hs[r].object : r \in Requests} \ {NoObject})

TypeOK ==
    /\ world \in Worlds /\ now \in 0..MaxTime /\ limits \in Limits
    /\ DOMAIN pool \subseteq Keys
    /\ \A k \in DOMAIN pool : pool[k] \in [object : Objects, lastUsed : 0..MaxTime]
    /\ DOMAIN heap = Reachable(pool, h) /\ \A o \in DOMAIN heap : IsSession(heap[o])
    /\ \A n \in DOMAIN turns : IsTurn(turns[n])
    /\ DOMAIN turns \subseteq Blocks /\ shown \subseteq DOMAIN turns
    /\ h \in [Requests -> Handler]

EmptyCache == [order |-> <<>>, block |-> <<>>, full |-> FALSE]
NewSession == [tools |-> EmptyCache, texts |-> EmptyCache, served |-> {}]

Idle == [todo |-> <<"idle">>, key |-> Ephemeral, q |-> CHOOSE q \in Questions : TRUE, since |-> 0,
         object |-> NoObject, turn |-> 0, presented |-> {},
         replayed |-> [n \in Blocks |-> NoBlock]]

Init ==
    /\ world \in Worlds /\ now = 0 /\ limits \in Limits
    /\ pool = <<>> /\ heap = <<>>
    /\ turns = <<>> /\ shown = {}
    /\ h = [r \in Requests |-> Idle]

At(r, phase) == Head(h[r].todo) = phase
Looks(steps) == Head(steps) \in {"touch", "lookup"}
Goto(x, steps) == IF steps = <<>> THEN Idle
                  ELSE [x EXCEPT !.todo = steps, !.since = IF Looks(steps) THEN now ELSE 0]
Advance(x) == Goto(x, Tail(x.todo))

(* What is not reachable after a step is garbage. *)
Heap(sessions) == heap' = [o \in Reachable(pool', h') |-> sessions[o]]
With(o, session) == [x \in {o} \cup DOMAIN heap |-> IF x = o THEN session ELSE heap[x]]

-----------------------------------------------------------------------------
(* The session manager *)

(* The first lookup only notes the use of the session.  An Anthropic       *)
(* request replays before it leaves a stream to handleAdapterStream, which *)
(* looks the session up once more; a Chat request replays in the function  *)
(* that calls the upstream.                                                *)
Preparation(q) ==
    IF ~q.stream THEN <<"touch", "lookup", "replay", "call">>
    ELSE IF q.provider = "anthropic" THEN <<"touch", "lookup", "replay", "lookup", "call">>
    ELSE <<"touch", "lookup", "lookup", "replay", "call">>

Presented(k) == {n \in shown : turns[n].key = k}

(* A client presents the answers it has in full. *)
Arrive(r, k, q) ==
    /\ At(r, "idle") /\ r \in world.requests /\ k \in world.keys
    /\ h' = [h EXCEPT ![r] = [Idle EXCEPT !.todo = Preparation(q), !.key = k, !.q = q,
                                          !.presented = Presented(k), !.since = now]]
    /\ UNCHANGED <<world, now, limits, pool, heap, turns, shown>>

Expired(k, t) == t - pool[k].lastUsed > limits.ttl
Unexpired(t) == {k \in DOMAIN pool : ~Expired(k, t)}
Sessions(left) == [k \in left |-> pool[k]]
Pooled(left, key, o, t) ==
    [k \in left \cup {key} |-> IF k = key THEN [object |-> o, lastUsed |-> t] ELSE pool[k]]

Full(kept, max) == max > 0 /\ Cardinality(kept) >= max

\* Mutant: any session may go.
EvictedAny(left, kept, max) ==
    /\ Cardinality(left) = IF Full(kept, max) THEN max - 1 ELSE Cardinality(kept)

(* evictLRULocked until there is room for one: of equal ones any may go. *)
Evicted(left, kept, max) ==
    /\ Cardinality(left) = IF Full(kept, max) THEN max - 1 ELSE Cardinality(kept)
    /\ \A out \in kept \ left, in \in left : pool[out].lastUsed <= pool[in].lastUsed

(* Which address a new session gets makes no difference. *)
HasRoom == Objects # Reachable(pool, h)
Fresh == CHOOSE o \in Objects : o \notin Reachable(pool, h)

Looking(r) == Looks(h[r].todo)

(* handleResponses does not keep the session it looks up. *)
Holding(x, o) == IF Head(x.todo) = "touch" THEN Advance(x) ELSE [Advance(x) EXCEPT !.object = o]

(* GetOrCreate at time t: it finds the session and notes its use. *)
Find(r, t) ==
    /\ Looking(r) /\ h[r].key \in Unexpired(t)
    /\ pool' = [Sessions(Unexpired(t)) EXCEPT ![h[r].key].lastUsed = t]
    /\ h' = [h EXCEPT ![r] = Holding(@, pool[h[r].key].object)]
    /\ Heap(heap)
    /\ UNCHANGED <<world, now, limits, turns, shown>>

(* It makes room for a new session.  The limits are read twice, session_ttl *)
(* to prune and max_sessions after it: a reload may come between the two.   *)
Create(r, t) ==
    /\ Looking(r) /\ HasRoom /\ h[r].key \in Keys \ Unexpired(t)
    /\ limits' \in Limits
    /\ \E left \in SUBSET Unexpired(t) :
          /\ Evicted(left, Unexpired(t), limits'.max)
          /\ pool' = Pooled(left, h[r].key, Fresh, t)
    /\ h' = [h EXCEPT ![r] = Holding(@, Fresh)]
    /\ Heap(With(Fresh, NewSession))
    /\ UNCHANGED <<world, now, turns, shown>>

(* NewEphemeral: a session of the request's own. *)
CreateEphemeral(r) ==
    /\ Looking(r) /\ HasRoom /\ h[r].key = Ephemeral
    /\ h' = [h EXCEPT ![r] = Holding(@, Fresh)]
    /\ UNCHANGED <<world, now, limits, pool, turns, shown>>
    /\ Heap(With(Fresh, NewSession))

(* The hourly pruner. *)
Prune ==
    /\ pool' = Sessions(Unexpired(now))
    /\ UNCHANGED <<world, now, limits, turns, shown, h>>
    /\ Heap(heap)

-----------------------------------------------------------------------------
(* The caches of a session *)

(* The ids queued first leave until the limit is kept. *)
Pruned(c, order, ids, b) ==
    LET drop == IF Len(order) > Limit THEN Len(order) - Limit ELSE 0
        kept == SubSeq(order, drop + 1, Len(order))
    IN [order |-> kept,
        block |-> [i \in ToSet(kept) |-> IF i \in ToSet(ids) THEN b ELSE c.block[i]],
        full |-> c.full \/ drop > 0]

\* Mutant: an id that is remembered again is queued again.
RememberDoubled(c, ids, b) == Pruned(c, c.order \o ids, ids, b)

(* An id that is new is queued, and all take the block. *)
Remember(c, ids, b) ==
    Pruned(c, c.order \o Selected(ids, ToSet(ids) \ DOMAIN c.block), ids, b)

Cached(c, i) == IF i \in DOMAIN c.block THEN c.block[i] ELSE NoBlock

(* The thinking put before answer n: that of its first tool call with a    *)
(* record, else, for Anthropic, that of its text, else an empty one.       *)
Restored(q, session, n) ==
    LET found == Selected(turns[n].a.tools, DOMAIN session.tools.block)
    IN IF found # <<>> THEN Cached(session.tools, Head(found))
       ELSE IF q.provider = "anthropic" THEN Cached(session.texts, turns[n].a.text)
       ELSE NoBlock

(* prependCachedThinking and prependCachedReasoningForChat.  The code locks *)
(* the State for one record at a time; a record stays, with its block or a  *)
(* newer one, unless the limit pushes it out.                               *)
Replay(r) ==
    /\ At(r, "replay")
    /\ h' = [h EXCEPT ![r] = [Advance(@) EXCEPT
                !.replayed = [n \in Blocks |-> IF n \in h[r].presented
                                               THEN Restored(h[r].q, heap[h[r].object], n)
                                               ELSE NoBlock]]]
    /\ UNCHANGED <<world, now, limits, pool, heap, turns, shown>>

-----------------------------------------------------------------------------
(* The answer *)

Plugin(q, complete) ==
    IF ~q.enabled THEN <<>>
    ELSE IF complete THEN <<"tools", "texts">>
    ELSE IF q.provider = "anthropic" THEN <<"tools">> ELSE <<>>

\* Mutant: a response is written before it is remembered.
FinishWritesFirst(q, complete) ==
    (IF q.stream THEN <<>> ELSE <<"write">>) \o Plugin(q, complete)

(* What is remembered, and when the client has the response.  The Chat     *)
(* path remembers the tool calls itself, whether or not the plugin is      *)
(* enabled.                                                                *)
Finish(q, complete) ==
    LET chat == IF q.provider = "chat" THEN <<"tools">> ELSE <<>>
    IN IF q.stream THEN Plugin(q, complete) \o chat
       ELSE chat \o Plugin(q, complete) \o <<"write">>

(* The upstream answers; a stream may break off, and the client has not    *)
(* got the answer in full then.                                            *)
Answer(r, a, complete) ==
    /\ At(r, "call") /\ Len(turns) < world.turns
    /\ complete \/ h[r].q.stream
    /\ LET n == Len(turns) + 1 IN
       /\ a \in Answers[n]
       /\ turns' = Append(turns, [key |-> h[r].key, q |-> h[r].q, a |-> a])
       /\ h' = [h EXCEPT ![r] = Goto([@ EXCEPT !.turn = n, !.presented = {},
                                               !.replayed = Idle.replayed],
                                     Finish(h[r].q, complete))]
       /\ shown' = IF h[r].q.stream /\ complete THEN shown \cup {n} ELSE shown
       /\ UNCHANGED <<world, now, limits, pool>>
       /\ Heap([heap EXCEPT ![h[r].object].served = @ \cup {n}])

(* The request goes to the passthrough, its conversion fails, or the call  *)
(* fails.                                                                  *)
Return(r) ==
    /\ Head(h[r].todo) \in {"lookup", "replay", "call"}
    /\ h' = [h EXCEPT ![r] = Idle]
    /\ UNCHANGED <<world, now, limits, pool, turns, shown>>
    /\ Heap(heap)

\* Mutant: the plugin has one State for all sessions.
RememberToolsShared(r) ==
    /\ At(r, "tools")
    /\ h' = [h EXCEPT ![r] = Advance(@)]
    /\ UNCHANGED <<world, now, limits, pool, turns, shown>>
    /\ LET a == turns[h[r].turn].a IN
       Heap([o \in DOMAIN heap |->
                IF a.thinking /\ a.tools # <<>>
                THEN [heap[o] EXCEPT !.tools = Remember(@, a.tools, h[r].turn)] ELSE heap[o]])

(* RememberForToolCalls: nothing without thinking. *)
RememberTools(r) ==
    /\ At(r, "tools")
    /\ h' = [h EXCEPT ![r] = Advance(@)]
    /\ UNCHANGED <<world, now, limits, pool, turns, shown>>
    /\ LET a == turns[h[r].turn].a IN
       Heap(IF a.thinking /\ a.tools # <<>>
            THEN [heap EXCEPT ![h[r].object].tools = Remember(@, a.tools, h[r].turn)]
            ELSE heap)

(* RememberForAssistantText: a second use of the lock. *)
RememberText(r) ==
    /\ At(r, "texts")
    /\ h' = [h EXCEPT ![r] = Advance(@)]
    /\ UNCHANGED <<world, now, limits, pool, turns, shown>>
    /\ LET a == turns[h[r].turn].a IN
       Heap(IF a.thinking /\ a.text # NoText
            THEN [heap EXCEPT ![h[r].object].texts = Remember(@, <<a.text>>, h[r].turn)]
            ELSE heap)

Write(r) ==
    /\ At(r, "write")
    /\ shown' = shown \cup {h[r].turn}
    /\ h' = [h EXCEPT ![r] = Advance(@)]
    /\ UNCHANGED <<world, now, limits, pool, turns>>
    /\ Heap(heap)

-----------------------------------------------------------------------------
Tick ==
    /\ now < MaxTime
    /\ now' = now + 1
    /\ UNCHANGED <<world, limits, pool, heap, turns, shown, h>>

(* A configuration change replaces the limits; the manager reads them from *)
(* the current snapshot.                                                   *)
Reconfigure ==
    /\ limits' \in Limits
    /\ UNCHANGED <<world, now, pool, heap, turns, shown, h>>

Serve(r) ==
    \/ \E k \in Keys \cup {Ephemeral}, q \in Questions : Arrive(r, k, q)
    \/ CreateEphemeral(r) \/ Replay(r)
    \/ \E t \in h[r].since..now : Find(r, t) \/ Create(r, t)   \* time.Now() before the lock
    \/ \E a \in UNION {Answers[n] : n \in Blocks}, complete \in BOOLEAN : Answer(r, a, complete)
    \/ Return(r) \/ RememberTools(r) \/ RememberText(r) \/ Write(r)

Next == (\E r \in Requests : Serve(r)) \/ Prune \/ Tick \/ Reconfigure

Spec == Init /\ [][Next]_vars

-----------------------------------------------------------------------------
(* Properties *)

Consistent(c) ==
    /\ DOMAIN c.block = ToSet(c.order)
    /\ IsInjective(c.order)
    /\ Len(c.order) <= Limit

(* The caches of every session keep within State.limit, and the queue that *)
(* pruneLocked drops from names each record once and nothing else: no      *)
(* record becomes unreachable for the pruning, however tool calls and      *)
(* texts are remembered again, in whatever order handlers do.              *)
CachesConsistent ==
    \A o \in DOMAIN heap : Consistent(heap[o].tools) /\ Consistent(heap[o].texts)

Alike(m, n) == \/ ToSet(turns[m].a.tools) \cap ToSet(turns[n].a.tools) # {}
               \/ turns[m].a.text # NoText /\ turns[m].a.text = turns[n].a.text

(* session.go: state is isolated, against "thinking blocks from one        *)
(* conversation leaking into another".  What is put before an answer is    *)
(* the thinking of an answer of the same session key that shares a tool    *)
(* call or the text with it: hence its own, if no other does.  A request   *)
(* without a key gets none.  Sessions that are evicted or expire under     *)
(* their handlers make no difference.                                      *)
ReplayOwnConversation ==
    \A r \in Requests : \A n \in Blocks : LET b == h[r].replayed[n] IN
        b # NoBlock => /\ turns[b].key = turns[n].key /\ turns[b].key # Ephemeral
                       /\ turns[b].a.thinking /\ Alike(b, n)

(* Whether a request q is able to replay the thinking of answer n. *)
Replayable(q, n) ==
    /\ turns[n].a.thinking
    /\ \/ turns[n].a.tools # <<>> /\ (turns[n].q.enabled \/ turns[n].q.provider = "chat")
       \/ turns[n].a.text # NoText /\ turns[n].q.enabled /\ q.provider = "anthropic"

(* A client that has got a response that was not streamed may come back at *)
(* once: the thinking is there for it, unless the conversation was given a *)
(* new session or the limit has pushed a record out.                       *)
AnsweredTurnReplayed ==
    [][\A r \in Requests : At(r, "replay") /\ h'[r].todo = Tail(h[r].todo) =>
          LET session == heap[h[r].object] IN
          \A n \in session.served \cap h[r].presented :
              /\ ~turns[n].q.stream /\ Replayable(h[r].q, n)
              /\ ~session.tools.full /\ ~session.texts.full
              => h'[r].replayed[n] # NoBlock]_vars

(* A lookup that adds a session leaves no more than max_sessions of them,  *)
(* also when a reload has just lowered the limit by more than one or comes *)
(* while it prunes, and drops no more than that takes: a session leaves    *)
(* the pool only when it has not been used for longer than session_ttl, or *)
(* when the pool is full without it and no session that stays was used     *)
(* before it, also when the lookup's clock is stale.                       *)
PoolKeepsLatest ==
    [][LET stay == {k \in DOMAIN pool \cap DOMAIN pool' : pool'[k].object = pool[k].object} IN
       /\ \/ DOMAIN pool' \subseteq DOMAIN pool \/ limits'.max = 0
          \/ Cardinality(DOMAIN pool') <= limits'.max
       /\ \A k \in DOMAIN pool \ stay :
             \/ Expired(k, now)
             \/ /\ Cardinality(DOMAIN pool') = limits'.max
                /\ \A j \in stay : pool[k].lastUsed <= pool[j].lastUsed]_vars
=============================================================================
