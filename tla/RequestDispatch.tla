-------------------------- MODULE RequestDispatch --------------------------
(***************************************************************************)
(* The life of one request inside the server, from the resolution of its   *)
(* model to the report to the plugins, while the runtime snapshot is       *)
(* replaced under it:                                                      *)
(*                                                                         *)
(*   resolve   handleResponses or handleChatCompletions read the snapshot  *)
(*             and resolve the model to candidates in order of priority    *)
(*   filter    candidates that take no images are dropped, according to    *)
(*             the snapshot of that moment                                 *)
(*   dispatch  to handleOpenAIResponse, which forwards the body and falls  *)
(*             back from one candidate to the next, or to                  *)
(*             handleWithAdapters, which converts the request and calls    *)
(*             the preferred candidate only                                *)
(*                                                                         *)
(* Each read of the snapshot and each use of a lock is a step of its own.  *)
(* One model is asked for; a route alias is an offer list of one provider. *)
(* The Google clients have a cache of their own that works as the Chat one *)
(* does, and their requests take the same path.                            *)
(***************************************************************************)
EXTENDS Naturals, Sequences, SequencesExt, Selections

CONSTANTS Requests,   \* the requests served at the same time
          Providers,  \* provider keys
          Keys,       \* the credentials and address of a provider definition
          Absent,     \* the definition of a provider that is not configured
          Boot,       \* the snapshot the process starts with
          Reloads     \* the snapshots a reload may install

Protocols == {"openai-response", "anthropic", "openai-chat"}
Defs == [protocol : Protocols, key : Keys, image : BOOLEAN]

(* A snapshot defines providers and lists those that offer the model, by   *)
(* priority, then by key.                                                  *)
IsSnapshot(s) ==
    /\ DOMAIN s = {"defs", "offers"}
    /\ s.defs \in [Providers -> Defs \cup {Absent}]
    /\ s.offers \in Seq(Providers) /\ IsInjective(s.offers)

Snapshots == Reloads \cup {Boot}

ASSUME AbsentAssumption == Absent \notin Defs \cup Keys
ASSUME SnapshotsAssumption == \A s \in Snapshots : IsSnapshot(s)

(* What is asked: through which ingress, as a stream, with an image. *)
Questions == [ingress : {"responses", "chat"}, stream : BOOLEAN, image : BOOLEAN]
NoQuestion == [ingress |-> "none"]

Candidate == [provider : Providers, protocol : Protocols, key : Keys]
Call == [provider : Providers, protocol : Protocols, key : Keys]
Report == [provider : Providers \cup {"none"}, status : {"success", "error"}]

VARIABLES
    snap,       \* Runtime.snapshot
    cache,      \* Server.clientCache: the credentials each cached client was built with
    h           \* per request: the handler's local state and what it has done

vars == <<snap, cache, h>>

Phases == {"idle", "resolve", "filter", "dispatch", "attempt", "sent", "copy", "return",
           "convert", "client", "build", "store", "call", "waiting", "done"}

Handler ==
    [pc : Phases, q : Questions \cup {NoQuestion},
     route : Seq(Candidate),                \* the candidates left to try, the current one first
     pm : Snapshots,                        \* the provider manager of handleOpenAIResponse
     path : {"none", "passthrough", "adapter"},
     key : Keys \cup {Absent},              \* the client's credentials
     completed : BOOLEAN, hookErr : BOOLEAN, \* what the deferred hooks look at
     answer : {"none", "ok", "error", "cut"}, answers : Nat,
     calls : Seq(Call), replies : SUBSET Nat, \* upstream calls, and those that got a reply
     reports : Seq(Report),                 \* calls of onRequestCompleted
     seen : SUBSET Snapshots]               \* history: snapshots current since it arrived

TypeOK ==
    /\ snap \in Snapshots
    /\ cache \in [Providers -> Keys \cup {Absent}]
    /\ DOMAIN h = Requests
    /\ \A r \in Requests : h[r] \in Handler

Idle == [pc |-> "idle", q |-> NoQuestion, route |-> <<>>, pm |-> Boot, path |-> "none",
         key |-> Absent, completed |-> FALSE, hookErr |-> FALSE, answer |-> "none", answers |-> 0,
         calls |-> <<>>, replies |-> {}, reports |-> <<>>, seen |-> {}]

Init == snap = Boot /\ cache = [p \in Providers |-> Absent] /\ h = [r \in Requests |-> Idle]

At(r, phase) == h[r].pc = phase
Current(r) == Head(h[r].route)
Goto(x, phase) == [x EXCEPT !.pc = phase]

\* The handler writes an error response.
Refused(x) == [x EXCEPT !.answer = "error", !.answers = @ + 1]
Reported(x, provider, status) ==
    [x EXCEPT !.reports = Append(@, [provider |-> provider, status |-> status])]

Step(r, x) == h' = [h EXCEPT ![r] = x] /\ UNCHANGED <<snap, cache>>

-----------------------------------------------------------------------------
(* Resolution *)

(* A connection carries one request after the other. *)
Receive(r, q) ==
    /\ At(r, "idle") \/ At(r, "done")
    /\ Step(r, [Idle EXCEPT !.pc = "resolve", !.q = q, !.seen = {snap}])

(* ResolveModel: a provider that has no definition has no client. *)
Candidates(s) ==
    LET present == Selected(s.offers, {p \in Providers : s.defs[p] # Absent})
    IN [i \in DOMAIN present |-> [provider |-> present[i],
                                  protocol |-> s.defs[present[i]].protocol,
                                  key |-> s.defs[present[i]].key]]

Resolve(r) ==
    /\ At(r, "resolve")
    /\ LET found == Candidates(snap) IN
       Step(r, IF found = <<>> THEN Goto(Refused(h[r]), "done")
               ELSE [h[r] EXCEPT !.route = found, !.pc = "filter"])

AcceptsImage(s, p) == s.defs[p] # Absent /\ s.defs[p].image

(* filterCandidatesByImage reads the snapshot again. *)
Filter(r) ==
    /\ At(r, "filter")
    /\ LET kept == Selected(h[r].route,
                            {c \in Candidate : h[r].q.image => AcceptsImage(snap, c.provider)})
       IN Step(r, IF kept = <<>> THEN Goto(Refused(h[r]), "done")
                  ELSE [h[r] EXCEPT !.route = kept, !.pc = "dispatch"])

Passthrough(r) == Current(r).protocol = "openai-response"

(* No adapter speaks Responses upstream: the Chat ingress cannot reach it. *)
NoAdapterPath(r) ==
    /\ At(r, "dispatch") /\ Passthrough(r) /\ h[r].q.ingress = "chat"
    /\ Step(r, Goto(Reported(Refused([h[r] EXCEPT !.path = "adapter"]), "none", "error"), "done"))

-----------------------------------------------------------------------------
(* handleOpenAIResponse *)

ResponseCandidates == {c \in Candidate : c.protocol = "openai-response"}

\* Mutant: the provider manager the process started with.
OpenPassthroughBoot(r) ==
    /\ At(r, "dispatch") /\ Passthrough(r) /\ h[r].q.ingress = "responses"
    /\ Step(r, [h[r] EXCEPT !.pc = "attempt", !.path = "passthrough", !.pm = Boot,
                            !.route = Selected(@, ResponseCandidates)])

(* The provider manager is read once more, and kept. *)
OpenPassthrough(r) ==
    /\ At(r, "dispatch") /\ Passthrough(r) /\ h[r].q.ingress = "responses"
    /\ Step(r, [h[r] EXCEPT !.pc = "attempt", !.path = "passthrough", !.pm = snap,
                            !.route = Selected(@, ResponseCandidates)])

IsLast(r) == Len(h[r].route) = 1

(* The next candidate, or an error when there is none. *)
GiveUp(r) == IF IsLast(r) THEN Goto(Refused([h[r] EXCEPT !.hookErr = TRUE]), "return")
             ELSE [h[r] EXCEPT !.route = Tail(@), !.pc = "attempt"]

(* The provider is gone from the manager, or the request cannot be built. *)
SkipCandidate(r) == At(r, "attempt") /\ Step(r, GiveUp(r))

Attempt(r) ==
    /\ At(r, "attempt")
    /\ LET p == Current(r).provider IN
       /\ h[r].pm.defs[p] # Absent
       /\ Step(r, [h[r] EXCEPT !.pc = "sent",
                     !.calls = Append(@, [provider |-> p, protocol |-> "openai-response",
                                          key |-> h[r].pm.defs[p].key])])

(* client.Do fails: no reply came. *)
ConnectFails(r) == At(r, "sent") /\ Step(r, GiveUp(r))

Replied(x) == [x EXCEPT !.replies = @ \cup {Len(x.calls)}]

\* Mutant: an error status is a reason to fall back as well.
ForwardOrFallBack(r, status) ==
    /\ At(r, "sent")
    /\ IF status = "error" /\ ~IsLast(r)
       THEN Step(r, Replied([h[r] EXCEPT !.route = Tail(@), !.pc = "attempt"]))
       ELSE Step(r, Replied([h[r] EXCEPT !.answer = status, !.answers = @ + 1, !.pc = "copy"]))

(* The status and the headers are forwarded, whatever the status is. *)
Forward(r, status) ==
    /\ At(r, "sent")
    /\ Step(r, Replied([h[r] EXCEPT !.answer = status, !.answers = @ + 1, !.pc = "copy"]))

(* The body is copied to the end, or breaks off. *)
CopyEnds(r) ==
    /\ At(r, "copy")
    /\ \/ Step(r, Goto(Reported(h[r], Current(r).provider,
                                IF h[r].answer = "ok" THEN "success" ELSE "error"), "return"))
       \/ Step(r, [h[r] EXCEPT !.answer = "cut", !.hookErr = TRUE, !.pc = "return"])

PassthroughReturns(r) ==
    /\ At(r, "return") /\ h[r].path = "passthrough"
    /\ Step(r, Goto(IF h[r].hookErr THEN Reported(h[r], Current(r).provider, "error") ELSE h[r],
                    "done"))

-----------------------------------------------------------------------------
(* handleWithAdapters, and handleAdapterStream for a stream *)

\* Mutant: the early return is missing.
OpenAdapterContinues(r) ==
    /\ At(r, "dispatch") /\ ~Passthrough(r)
    /\ \E ok \in BOOLEAN :
          LET x == [h[r] EXCEPT !.path = "adapter", !.pc = "convert"]
          IN Step(r, IF ok THEN x ELSE Reported(Refused(x), "none", "error"))

(* The inbound conversion fails before the deferred hook is set. *)
OpenAdapter(r) ==
    /\ At(r, "dispatch") /\ ~Passthrough(r)
    /\ LET x == [h[r] EXCEPT !.path = "adapter"] IN
       \/ Step(r, Goto(Reported(Refused(x), "none", "error"), "done"))
       \/ Step(r, Goto(x, "convert"))

Fails(r) == Step(r, Goto(Refused(h[r]), "return"))

(* FromCoreRequest; from here on a stream is left to handleAdapterStream. *)
Convert(r) ==
    /\ At(r, "convert")
    /\ \/ Fails(r)
       \/ Step(r, [h[r] EXCEPT !.completed = @ \/ h[r].q.stream,
                     !.key = IF Current(r).protocol = "anthropic" THEN Current(r).key ELSE @,
                     !.pc = IF Current(r).protocol = "anthropic" THEN "call" ELSE "client"])

(* activeChatClient: the cache, else the snapshot, else the boot clients. *)
LookupClient(r) ==
    /\ At(r, "client")
    /\ LET cached == cache[Current(r).provider] IN
       Step(r, IF cached = Absent THEN Goto(h[r], "build")
               ELSE [h[r] EXCEPT !.key = cached, !.pc = "call"])

ChatKey(s, p) == IF s.defs[p] # Absent /\ s.defs[p].protocol = "openai-chat"
                 THEN s.defs[p].key ELSE Absent

BuildClient(r) ==
    /\ At(r, "build")
    /\ LET p == Current(r).provider IN
       IF ChatKey(snap, p) # Absent
       THEN Step(r, [h[r] EXCEPT !.key = ChatKey(snap, p), !.pc = "store"])
       ELSE IF ChatKey(Boot, p) # Absent
       THEN Step(r, [h[r] EXCEPT !.key = ChatKey(Boot, p), !.pc = "call"])
       ELSE Fails(r)

StoreClient(r) ==
    /\ At(r, "store")
    /\ cache' = [cache EXCEPT ![Current(r).provider] = h[r].key]
    /\ h' = [h EXCEPT ![r].pc = "call"]
    /\ UNCHANGED snap

CallUpstream(r) ==
    /\ At(r, "call")
    /\ Step(r, [h[r] EXCEPT !.pc = "waiting",
                  !.calls = Append(@, [provider |-> Current(r).provider,
                                       protocol |-> Current(r).protocol, key |-> h[r].key])])

(* The call, or a conversion of its response, fails. *)
UpstreamFails(r) == At(r, "waiting") /\ Fails(r)

\* Mutant: the success is not noted before the handler returns.
UpstreamAnswersUnmarked(r) ==
    /\ At(r, "waiting")
    /\ Step(r, Replied(Reported([h[r] EXCEPT !.answer = "ok", !.answers = @ + 1, !.pc = "return"],
                                Current(r).provider, "success")))

(* The converted response, or the stream, is written and reported. *)
UpstreamAnswers(r) ==
    /\ At(r, "waiting")
    /\ Step(r, Replied(Reported([h[r] EXCEPT !.answer = "ok", !.answers = @ + 1,
                                             !.completed = TRUE, !.pc = "return"],
                                Current(r).provider, "success")))

AdapterReturns(r) ==
    /\ At(r, "return") /\ h[r].path = "adapter"
    /\ Step(r, Goto(IF h[r].completed THEN h[r] ELSE Reported(h[r], Current(r).provider, "error"),
                    "done"))

-----------------------------------------------------------------------------
InProgress(r) == ~At(r, "idle") /\ ~At(r, "done")

Reload(s) ==
    /\ snap' = s
    /\ h' = [r \in Requests |-> IF InProgress(r) THEN [h[r] EXCEPT !.seen = @ \cup {s}] ELSE h[r]]
    /\ UNCHANGED cache

Serve(r) ==
    \/ Resolve(r) \/ Filter(r) \/ NoAdapterPath(r)
    \/ OpenPassthrough(r) \/ SkipCandidate(r) \/ Attempt(r) \/ ConnectFails(r)
    \/ \E status \in {"ok", "error"} : Forward(r, status)
    \/ CopyEnds(r) \/ PassthroughReturns(r)
    \/ OpenAdapter(r) \/ Convert(r) \/ LookupClient(r) \/ BuildClient(r) \/ StoreClient(r)
    \/ CallUpstream(r) \/ UpstreamFails(r) \/ UpstreamAnswers(r) \/ AdapterReturns(r)

Next == \/ \E r \in Requests : Serve(r) \/ \E q \in Questions : Receive(r, q)
        \/ \E s \in Reloads : Reload(s)

Spec == Init /\ [][Next]_vars

-----------------------------------------------------------------------------
(* Properties *)

(* Every request gets exactly one response, and none is written after it,  *)
(* through every early return, fallback and deferred call of the handlers. *)
AnsweredOnce ==
    \A r \in Requests : h[r].answers = (IF h[r].answer = "none" THEN 0 ELSE 1)
                        /\ (At(r, "done") => h[r].answers = 1)

(* A request that reached a dispatch path and is not a stream is reported  *)
(* to the plugins exactly once, and as a success exactly when the client   *)
(* got the complete successful response: the deferred hooks of             *)
(* handleOpenAIResponse and handleWithAdapters and the explicit calls      *)
(* never overlap nor leave a gap.                                          *)
ReportedAsAnswered ==
    \A r \in Requests :
        At(r, "done") /\ h[r].path # "none" /\ ~h[r].q.stream =>
            /\ Len(h[r].reports) = 1
            /\ (h[r].reports[1].status = "success") <=> (h[r].answer = "ok")

Rank(s, p) == SelectInSeq(s.offers, LAMBDA offer : offer = p)

(* Falling back never repeats work an upstream has already done: only the  *)
(* last call of a request can have been replied to, and the calls follow   *)
(* the priority of the offers in one snapshot, no provider twice.          *)
FallbackOnlyUnanswered ==
    \A r \in Requests : LET calls == h[r].calls IN
        /\ h[r].replies \subseteq {Len(calls)}
        /\ calls # <<>> =>
              \E s \in h[r].seen : \A i, j \in DOMAIN calls :
                  i < j => Rank(s, calls[i].provider) < Rank(s, calls[j].provider)

WasLive(r, call) ==
    \E s \in h[r].seen : s.defs[call.provider] # Absent /\ s.defs[call.provider].key = call.key

(* Whatever reloads fall between the resolution, the filter and the call,  *)
(* the passthrough and the Anthropic path use credentials the provider had *)
(* in a snapshot that was current while the request was served.            *)
DirectCredentialsLive ==
    \A r \in Requests : \A i \in DOMAIN h[r].calls :
        h[r].calls[i].protocol # "openai-chat" => WasLive(r, h[r].calls[i])

(* server.go: the cached clients are "invalidated when Runtime reloads". *)
CachedCredentialsLive ==
    \A r \in Requests : \A i \in DOMAIN h[r].calls :
        h[r].calls[i].protocol = "openai-chat" => WasLive(r, h[r].calls[i])
=============================================================================
