----------------------- MODULE RequestDispatchProofs -----------------------
(***************************************************************************)
(* What holds of requests in dispatch for every set of requests, providers *)
(* and keys, and whatever the snapshots that reloads install.              *)
(*                                                                         *)
(* IInv says of each request what is true at each point of its way: what   *)
(* it has written and reported so far, in which snapshot its candidates    *)
(* were found, and where its credentials come from.                        *)
(***************************************************************************)
EXTENDS RequestDispatch, SelectionProofs

---------------------------------------------------------------------------
(* The inductive invariant *)

Routing == {"filter", "dispatch", "attempt", "sent", "convert", "client", "build", "store",
            "call", "waiting"}
Adapting == {"convert", "client", "build", "store", "call", "waiting"}

\* Nothing has been written to the client, nothing reported, nothing received.
Unanswered(x) == x.answer = "none" /\ x.answers = 0 /\ x.reports = <<>> /\ x.replies = {}

ReportedTruly(x) ==
    Len(x.reports) = 1 /\ ((x.reports[1].status = "success") <=> (x.answer = "ok"))

\* The deferred hook has still to report an error.
HookPending(x) == IF x.path = "passthrough" THEN x.hookErr = TRUE ELSE x.completed = FALSE

NotAStream(x) == x.q.stream = FALSE

AnswersByPhase(x) ==
    /\ x.pc \in {"idle", "resolve", "filter", "dispatch"} =>
          Unanswered(x) /\ x.path = "none" /\ x.completed = FALSE /\ x.hookErr = FALSE
    /\ x.pc \in {"attempt", "sent"} =>
          Unanswered(x) /\ x.path = "passthrough" /\ x.hookErr = FALSE
    /\ x.pc = "copy" =>
          /\ x.path = "passthrough" /\ x.hookErr = FALSE
          /\ x.answer \in {"ok", "error"} /\ x.answers = 1 /\ x.reports = <<>>
    /\ x.pc \in Adapting =>
          /\ Unanswered(x) /\ x.path = "adapter"
          /\ x.completed = FALSE \/ ~NotAStream(x)
    /\ x.pc = "return" =>
          /\ x.answers = 1 /\ x.answer # "none" /\ x.path # "none"
          /\ HookPending(x) => x.reports = <<>> /\ x.answer # "ok"
          /\ ~HookPending(x) /\ NotAStream(x) => ReportedTruly(x)
    /\ x.pc = "done" =>
          /\ x.answers = 1 /\ x.answer # "none"
          /\ x.path # "none" /\ NotAStream(x) => ReportedTruly(x)

CallsByPhase(x) ==
    /\ x.pc \in {"idle", "resolve", "filter", "dispatch"} \cup (Adapting \ {"waiting"}) =>
          x.calls = <<>>
    /\ x.pc = "waiting" => Len(x.calls) = 1
    /\ x.replies \subseteq {Len(x.calls)}

Live(s, c) == s.defs[c.provider] # Absent /\ s.defs[c.provider].key = c.key

Ordered(s, cs) ==
    \A i, j \in 1..Len(cs) : i < j => Rank(s, cs[i].provider) < Rank(s, cs[j].provider)

\* s is where the candidates were found: they are defined there, in its order,
\* after those that were called; once it is called the first is among them.
FoundIn(s, x) ==
    /\ \A i \in 1..Len(x.route) : Live(s, x.route[i])
    /\ Ordered(s, x.route) /\ Ordered(s, x.calls)
    /\ \A i \in 1..Len(x.calls), j \in 1..Len(x.route) :
          j # 1 \/ x.pc = "attempt" =>
              Rank(s, x.calls[i].provider) < Rank(s, x.route[j].provider)

RouteByPhase(x) ==
    /\ x.pc \in Routing \cup {"copy", "return"} => x.route # <<>>
    /\ x.pc \in Routing => \E s \in x.seen : FoundIn(s, x)
    /\ x.calls # <<>> => \E s \in x.seen : Ordered(s, x.calls)

CredentialsByPhase(x) ==
    /\ x.pc \in {"attempt", "sent"} => x.pm \in x.seen
    /\ x.pc \in Adapting => x.route[1].protocol \in {"anthropic", "openai-chat"}
    /\ x.pc \in {"client", "build", "store"} => x.route[1].protocol = "openai-chat"
    /\ x.pc \in {"store", "call"} => x.key \in Keys
    /\ x.pc = "call" /\ x.route[1].protocol = "anthropic" => x.key = x.route[1].key
    /\ \A i \in 1..Len(x.calls) :
          x.calls[i].protocol # "openai-chat" => \E s \in x.seen : Live(s, x.calls[i])

HandlerInv(x, current) ==
    /\ x \in Handler
    /\ x.pc # "idle" => x.q \in Questions
    /\ x.pc \notin {"idle", "done"} => current \in x.seen
    /\ AnswersByPhase(x) /\ CallsByPhase(x) /\ RouteByPhase(x) /\ CredentialsByPhase(x)

IInv ==
    /\ snap \in Snapshots
    /\ cache \in [Providers -> Keys \cup {Absent}]
    /\ DOMAIN h = Requests
    /\ \A r \in Requests : HandlerInv(h[r], snap)

---------------------------------------------------------------------------
(* Candidates and their order *)

LEMMA SnapshotParts ==
    ASSUME NEW s \in Snapshots
    PROVE  /\ s.defs \in [Providers -> Defs \cup {Absent}]
           /\ s.offers \in Seq(Providers)
           /\ \A i, j \in 1..Len(s.offers) : s.offers[i] = s.offers[j] => i = j
<1>1. IsSnapshot(s)
  BY SnapshotsAssumption
<1>2. s.offers \in Seq(Providers)
  BY <1>1 DEF IsSnapshot
<1>3. DOMAIN s.offers = 1..Len(s.offers)
  BY <1>2, LenProperties
<1> QED BY <1>1, <1>2, <1>3 DEF IsSnapshot, IsInjective

\* A provider ranks where it is offered.
LEMMA RankIsPosition ==
    ASSUME NEW s \in Snapshots, NEW i \in 1..Len(s.offers)
    PROVE  Rank(s, s.offers[i]) = i
<1> DEFINE I == {j \in 1..Len(s.offers) : s.offers[j] = s.offers[i]}
<1>1. I = {i}
  BY SnapshotParts
<1>2. Min({i}) = i
  <2>1. Len(s.offers) \in Nat
    BY SnapshotParts, LenProperties
  <2>2. i \in {i} /\ \A y \in {i} : i =< y
    BY <2>1
  <2>3. \A z : z \in {i} => z = i
    OBVIOUS
  <2> QED BY <2>2, <2>3 DEF Min
<1>3. Rank(s, s.offers[i]) = IF I # {} THEN Min(I) ELSE 0
  BY DEF Rank, SelectInSeq
<1> HIDE DEF I
<1> QED BY <1>1, <1>2, <1>3

LEMMA CandidatesFound ==
    ASSUME NEW s \in Snapshots
    PROVE  /\ Candidates(s) \in Seq(Candidate)
           /\ \A i \in 1..Len(Candidates(s)) : Live(s, Candidates(s)[i])
           /\ Ordered(s, Candidates(s))
<1> DEFINE A == {p \in Providers : s.defs[p] # Absent}
           present == Selected(s.offers, A)
           n == Len(present)
           c(i) == [provider |-> present[i], protocol |-> s.defs[present[i]].protocol,
                    key |-> s.defs[present[i]].key]
<1>1. s.offers \in Seq(Providers) /\ s.defs \in [Providers -> Defs \cup {Absent}]
  BY SnapshotParts
<1>a. \A p \in A : s.defs[p] # Absent
  OBVIOUS
<1> HIDE DEF A
<1>2. /\ present \in Seq(Providers)
      /\ \A i \in 1..n : present[i] \in A
      /\ \A i, j \in 1..n :
            i < j => \E k, m \in 1..Len(s.offers) :
                        k < m /\ present[i] = s.offers[k] /\ present[j] = s.offers[m]
  <2> DEFINE offers == s.offers
  <2>1. offers \in Seq(Providers)
    BY <1>1
  <2> HIDE DEF offers
  <2>2. /\ Selected(offers, A) \in Seq(Providers)
        /\ \A i \in 1..Len(Selected(offers, A)) : Selected(offers, A)[i] \in A
        /\ \A i, j \in 1..Len(Selected(offers, A)) :
              i < j => \E k, m \in 1..Len(offers) :
                          /\ k < m /\ Selected(offers, A)[i] = offers[k]
                          /\ Selected(offers, A)[j] = offers[m]
    BY <2>1, SelectedFacts
  <2> QED BY <2>2 DEF offers
<1>3. Candidates(s) = [i \in DOMAIN present |-> c(i)]
  BY DEF Candidates, A
<1> HIDE DEF present
<1>4. n \in Nat /\ DOMAIN present = 1..n
  BY <1>2, LenProperties
<1>5. \A i \in 1..n : c(i) \in Candidate
  <2>1. ASSUME NEW i \in 1..n PROVE c(i) \in Candidate
    <3>1. present[i] \in Providers /\ s.defs[present[i]] # Absent
      BY <1>a, <1>2, ElementOfSeq
    <3>2. s.defs[present[i]] \in Defs
      BY <1>1, <3>1
    <3> QED BY <3>1, <3>2 DEF Candidate, Defs
  <2> QED BY <2>1
<1>6. Candidates(s) = [i \in 1..n |-> c(i)]
  BY <1>3, <1>4
<1>7. Candidates(s) \in [1..n -> Candidate]
  BY <1>5, <1>6
<1>8. Candidates(s) \in Seq(Candidate)
  BY <1>4, <1>7, SeqDef
<1>9. Len(Candidates(s)) = n
  <2>1. DOMAIN Candidates(s) = 1..n
    BY <1>7
  <2>2. DOMAIN Candidates(s) = 1..Len(Candidates(s)) /\ Len(Candidates(s)) \in Nat
    BY <1>8, LenProperties
  <2> QED BY <1>4, <2>1, <2>2
<1>10. \A i \in 1..n : Candidates(s)[i].provider = present[i]
                       /\ Candidates(s)[i].key = s.defs[present[i]].key
  BY <1>6
<1>11. \A i \in 1..n : Live(s, Candidates(s)[i])
  BY <1>a, <1>2, <1>10 DEF Live
<1>12. \A i, j \in 1..n : i < j => Rank(s, present[i]) < Rank(s, present[j])
  <2>1. ASSUME NEW i \in 1..n, NEW j \in 1..n, i < j
        PROVE  Rank(s, present[i]) < Rank(s, present[j])
    <3>1. PICK k, m \in 1..Len(s.offers) :
              k < m /\ present[i] = s.offers[k] /\ present[j] = s.offers[m]
      BY <1>2, <2>1
    <3>2. Rank(s, s.offers[k]) = k /\ Rank(s, s.offers[m]) = m
      BY RankIsPosition
    <3> QED BY <3>1, <3>2
  <2> QED BY <2>1
<1>13. Ordered(s, Candidates(s))
  BY <1>9, <1>10, <1>12 DEF Ordered
<1> QED BY <1>8, <1>9, <1>11, <1>13

\* Dropping candidates leaves the others where they were found.
LEMMA SelectedKeeps ==
    ASSUME NEW s, NEW cs \in Seq(Candidate), NEW A,
           \A i \in 1..Len(cs) : Live(s, cs[i]),
           Ordered(s, cs)
    PROVE  /\ Selected(cs, A) \in Seq(Candidate)
           /\ \A i \in 1..Len(Selected(cs, A)) :
                  Live(s, Selected(cs, A)[i]) /\ Selected(cs, A)[i] \in A
           /\ Ordered(s, Selected(cs, A))
<1> DEFINE t == Selected(cs, A)
<1>1. /\ t \in Seq(Candidate)
      /\ \A i \in 1..Len(t) : t[i] \in A
      /\ \A i \in 1..Len(t) : \E m \in 1..Len(cs) : t[i] = cs[m]
      /\ \A i, j \in 1..Len(t) :
            i < j => \E m, n \in 1..Len(cs) : m < n /\ t[i] = cs[m] /\ t[j] = cs[n]
  BY SelectedFacts
<1> HIDE DEF t
<1>2. \A i \in 1..Len(t) : Live(s, t[i])
  BY <1>1
<1>3. Ordered(s, t)
  <2>1. ASSUME NEW i \in 1..Len(t), NEW j \in 1..Len(t), i < j
        PROVE  Rank(s, t[i].provider) < Rank(s, t[j].provider)
    <3>1. PICK m, n \in 1..Len(cs) : m < n /\ t[i] = cs[m] /\ t[j] = cs[n]
      BY <1>1, <2>1
    <3> QED BY <3>1 DEF Ordered
  <2> QED BY <2>1 DEF Ordered
<1> QED BY <1>1, <1>2, <1>3 DEF t

---------------------------------------------------------------------------
(* One request's step *)

LEMMA StepPreserves ==
    ASSUME IInv, NEW r \in Requests, NEW x, Step(r, x), HandlerInv(x, snap)
    PROVE  IInv'
<1>1. h' = [h EXCEPT ![r] = x] /\ snap' = snap /\ cache' = cache
  BY DEF Step
<1>2. DOMAIN h' = Requests /\ h'[r] = x /\ \A q \in Requests : q # r => h'[q] = h[q]
  BY <1>1 DEF IInv
<1>3. ASSUME NEW q \in Requests PROVE HandlerInv(h'[q], snap')
  BY <1>1, <1>2 DEF IInv
<1> QED BY <1>1, <1>2, <1>3 DEF IInv

\* The helpers stay within Handler.
LEMMA GotoHandler ==
    ASSUME NEW x \in Handler, NEW phase \in Phases
    PROVE  Goto(x, phase) \in Handler
BY DEF Goto, Handler

LEMMA RefusedHandler ==
    ASSUME NEW x \in Handler
    PROVE  Refused(x) \in Handler
<1>1. x.answers + 1 \in Nat
  BY DEF Handler
<1>2. Refused(x) = [x EXCEPT !.answer = "error", !.answers = x.answers + 1]
  BY DEF Refused
<1> QED BY <1>1, <1>2 DEF Handler

LEMMA ReportedHandler ==
    ASSUME NEW x \in Handler, NEW provider \in Providers \cup {"none"},
           NEW status \in {"success", "error"}
    PROVE  Reported(x, provider, status) \in Handler
<1> DEFINE report == [provider |-> provider, status |-> status]
<1>1. report \in Report /\ x.reports \in Seq(Report)
  BY DEF Report, Handler
<1>2. Append(x.reports, report) \in Seq(Report)
  BY <1>1, AppendProperties
<1>3. Reported(x, provider, status) = [x EXCEPT !.reports = Append(x.reports, report)]
  BY DEF Reported
<1> HIDE DEF report
<1> QED BY <1>2, <1>3 DEF Handler

LEMMA RepliedHandler ==
    ASSUME NEW x \in Handler
    PROVE  Replied(x) \in Handler
<1>1. x.calls \in Seq(Call)
  BY DEF Handler
<1>2. Len(x.calls) \in Nat
  BY <1>1, LenProperties
<1> QED BY <1>2 DEF Replied, Handler

\* A first report says what it says.
LEMMA FirstReport ==
    ASSUME NEW x \in Handler, x.reports = <<>>, NEW provider \in Providers \cup {"none"},
           NEW status \in {"success", "error"}
    PROVE  /\ Len(Reported(x, provider, status).reports) = 1
           /\ Reported(x, provider, status).reports[1].status = status
<1> DEFINE report == [provider |-> provider, status |-> status]
<1>1. report \in Report /\ x.reports \in Seq(Report) /\ report.status = status
  BY DEF Report, Handler
<1>2. Reported(x, provider, status).reports = Append(x.reports, report)
  BY DEF Reported, Handler
<1> HIDE DEF report
<1>3. Len(x.reports) = 0
  BY EmptySeq
<1> QED BY <1>1, <1>2, <1>3, AppendProperties

LEMMA ReceivePreserves ==
    ASSUME IInv, NEW r \in Requests, NEW q \in Questions, Receive(r, q)
    PROVE  IInv'
<1> DEFINE y == [Idle EXCEPT !.pc = "resolve", !.q = q, !.seen = {snap}]
<1>1. Step(r, y)
  BY DEF Receive
<1>2. y \in Handler
  <2>1. <<>> \in Seq(Candidate) /\ <<>> \in Seq(Call) /\ <<>> \in Seq(Report)
    BY EmptySeq
  <2> QED BY <2>1 DEF Handler, Idle, Phases, IInv, Snapshots
<1>3. /\ y.pc = "resolve" /\ y.q = q /\ y.seen = {snap} /\ y.calls = <<>> /\ Unanswered(y)
      /\ y.path = "none" /\ y.completed = FALSE /\ y.hookErr = FALSE
  BY DEF Idle, Unanswered
<1>4. Len(<<>>) = 0
  BY EmptySeq
<1> HIDE DEF y
<1>5. AnswersByPhase(y)
  BY <1>3 DEF AnswersByPhase, Adapting
<1>6. CallsByPhase(y)
  BY <1>3, <1>4 DEF CallsByPhase, Unanswered
<1>7. RouteByPhase(y)
  BY <1>3 DEF RouteByPhase, Routing
<1>8. CredentialsByPhase(y)
  BY <1>3, <1>4 DEF CredentialsByPhase, Adapting
<1>9. HandlerInv(y, snap)
  BY <1>2, <1>3, <1>5, <1>6, <1>7, <1>8 DEF HandlerInv
<1> QED BY <1>1, <1>9, StepPreserves

LEMMA ResolvePreserves ==
    ASSUME IInv, NEW r \in Requests, Resolve(r)
    PROVE  IInv'
<1> DEFINE x == h[r]
           found == Candidates(snap)
<1>1. /\ HandlerInv(x, snap) /\ x.pc = "resolve" /\ snap \in Snapshots
  BY DEF IInv, Resolve, At
<1>2. /\ x \in Handler /\ x.q \in Questions /\ snap \in x.seen /\ x.calls = <<>>
      /\ Unanswered(x) /\ x.path = "none" /\ x.completed = FALSE /\ x.hookErr = FALSE
  BY <1>1 DEF HandlerInv, AnswersByPhase, CallsByPhase
<1>3. Len(<<>>) = 0
  BY EmptySeq
<1>4. CASE found = <<>>
  <2> DEFINE y == Goto(Refused(x), "done")
  <2>1. Step(r, y)
    BY <1>4 DEF Resolve
  <2>2. y \in Handler
    BY <1>2, RefusedHandler, GotoHandler DEF Phases
  <2>3. /\ y.pc = "done" /\ y.q = x.q /\ y.calls = <<>> /\ y.replies = {}
        /\ y.answer = "error" /\ y.answers = 1 /\ y.path = "none"
    BY <1>2 DEF Handler, Goto, Refused, Unanswered
  <2> HIDE DEF y
  <2>4. AnswersByPhase(y) /\ CallsByPhase(y)
    BY <1>3, <2>3 DEF AnswersByPhase, CallsByPhase, Adapting
  <2>5. RouteByPhase(y) /\ CredentialsByPhase(y)
    BY <1>3, <2>3 DEF RouteByPhase, CredentialsByPhase, Routing, Adapting
  <2>6. HandlerInv(y, snap)
    BY <1>2, <2>2, <2>3, <2>4, <2>5 DEF HandlerInv
  <2> QED BY <2>1, <2>6, StepPreserves
<1>5. CASE found # <<>>
  <2> DEFINE y == [x EXCEPT !.route = found, !.pc = "filter"]
  <2>1. Step(r, y)
    BY <1>5 DEF Resolve
  <2>2. /\ found \in Seq(Candidate)
        /\ \A i \in 1..Len(found) : Live(snap, found[i])
        /\ Ordered(snap, found)
    BY <1>1, CandidatesFound
  <2> HIDE DEF found
  <2>3. y \in Handler
    BY <1>2, <2>2 DEF Handler, Phases
  <2>4. /\ y.pc = "filter" /\ y.q = x.q /\ y.seen = x.seen /\ y.calls = <<>> /\ Unanswered(y)
        /\ y.path = "none" /\ y.completed = FALSE /\ y.hookErr = FALSE /\ y.route = found
    BY <1>2 DEF Handler, Unanswered
  <2> HIDE DEF y
  <2>5. AnswersByPhase(y) /\ CallsByPhase(y)
    BY <1>3, <2>4 DEF AnswersByPhase, CallsByPhase, Adapting, Unanswered
  <2>6. FoundIn(snap, y)
    BY <1>3, <2>2, <2>4 DEF FoundIn, Ordered
  <2>7. RouteByPhase(y) /\ CredentialsByPhase(y)
    BY <1>2, <1>3, <1>5, <2>4, <2>6 DEF RouteByPhase, CredentialsByPhase, Adapting
  <2>8. HandlerInv(y, snap)
    BY <1>2, <2>3, <2>4, <2>5, <2>7 DEF HandlerInv
  <2> QED BY <2>1, <2>8, StepPreserves
<1> QED BY <1>4, <1>5

LEMMA FilterPreserves ==
    ASSUME IInv, NEW r \in Requests, Filter(r)
    PROVE  IInv'
<1> DEFINE x == h[r]
           A == {c \in Candidate : x.q.image => AcceptsImage(snap, c.provider)}
           kept == Selected(x.route, A)
<1>1. /\ HandlerInv(x, snap) /\ x.pc = "filter"
  BY DEF IInv, Filter, At
<1>2. /\ x \in Handler /\ x.q \in Questions /\ snap \in x.seen /\ x.calls = <<>>
      /\ Unanswered(x) /\ x.path = "none" /\ x.completed = FALSE /\ x.hookErr = FALSE
  BY <1>1 DEF HandlerInv, AnswersByPhase, CallsByPhase
<1>3. Len(<<>>) = 0
  BY EmptySeq
<1>4. CASE kept = <<>>
  <2> DEFINE y == Goto(Refused(x), "done")
  <2>1. Step(r, y)
    BY <1>4 DEF Filter
  <2>2. y \in Handler
    BY <1>2, RefusedHandler, GotoHandler DEF Phases
  <2>3. /\ y.pc = "done" /\ y.q = x.q /\ y.calls = <<>> /\ y.replies = {}
        /\ y.answer = "error" /\ y.answers = 1 /\ y.path = "none"
    BY <1>2 DEF Handler, Goto, Refused, Unanswered
  <2> HIDE DEF y
  <2>4. AnswersByPhase(y) /\ CallsByPhase(y)
    BY <1>3, <2>3 DEF AnswersByPhase, CallsByPhase, Adapting
  <2>5. RouteByPhase(y) /\ CredentialsByPhase(y)
    BY <1>3, <2>3 DEF RouteByPhase, CredentialsByPhase, Routing, Adapting
  <2>6. HandlerInv(y, snap)
    BY <1>2, <2>2, <2>3, <2>4, <2>5 DEF HandlerInv
  <2> QED BY <2>1, <2>6, StepPreserves
<1>5. CASE kept # <<>>
  <2> DEFINE y == [x EXCEPT !.route = kept, !.pc = "dispatch"]
  <2>1. Step(r, y)
    BY <1>5 DEF Filter
  <2>2. PICK s \in x.seen : FoundIn(s, x)
    BY <1>1 DEF HandlerInv, RouteByPhase, Routing
  <2>3. x.route \in Seq(Candidate)
    BY <1>2 DEF Handler
  <2> HIDE DEF A
  <2>4. /\ kept \in Seq(Candidate)
        /\ \A i \in 1..Len(kept) : Live(s, kept[i])
        /\ Ordered(s, kept)
    BY <2>2, <2>3, SelectedKeeps DEF FoundIn
  <2> HIDE DEF kept
  <2>5. y \in Handler
    BY <1>2, <2>4 DEF Handler, Phases
  <2>6. /\ y.pc = "dispatch" /\ y.q = x.q /\ y.seen = x.seen /\ y.calls = <<>> /\ Unanswered(y)
        /\ y.path = "none" /\ y.completed = FALSE /\ y.hookErr = FALSE /\ y.route = kept
    BY <1>2 DEF Handler, Unanswered
  <2> HIDE DEF y
  <2>7. AnswersByPhase(y) /\ CallsByPhase(y)
    BY <1>3, <2>6 DEF AnswersByPhase, CallsByPhase, Adapting, Unanswered
  <2>8. FoundIn(s, y)
    BY <1>3, <2>4, <2>6 DEF FoundIn, Ordered
  <2>9. RouteByPhase(y) /\ CredentialsByPhase(y)
    BY <1>2, <1>3, <1>5, <2>2, <2>6, <2>8 DEF RouteByPhase, CredentialsByPhase, Adapting
  <2>10. HandlerInv(y, snap)
    BY <1>2, <2>5, <2>6, <2>7, <2>9 DEF HandlerInv
  <2> QED BY <2>1, <2>10, StepPreserves
<1> QED BY <1>4, <1>5

\* What holds of a request that has been resolved and filtered.
LEMMA AtDispatch ==
    ASSUME IInv, NEW r \in Requests, At(r, "dispatch")
    PROVE  /\ h[r] \in Handler /\ h[r].q \in Questions /\ snap \in h[r].seen
           /\ h[r].calls = <<>> /\ Len(h[r].calls) = 0
           /\ Unanswered(h[r]) /\ h[r].path = "none"
           /\ h[r].completed = FALSE /\ h[r].hookErr = FALSE
           /\ h[r].route \in Seq(Candidate) /\ h[r].route # <<>>
           /\ Head(h[r].route) = h[r].route[1]
           /\ \E s \in h[r].seen : FoundIn(s, h[r])
<1>1. HandlerInv(h[r], snap) /\ h[r].pc = "dispatch"
  BY DEF IInv, At
<1>2. Len(<<>>) = 0
  BY EmptySeq
<1>3. h[r].route \in Seq(Candidate) /\ h[r].route # <<>>
  BY <1>1 DEF HandlerInv, Handler, RouteByPhase, Routing
<1>4. Head(h[r].route) = h[r].route[1]
  BY <1>3
<1>5. \E s \in h[r].seen : FoundIn(s, h[r])
  BY <1>1 DEF HandlerInv, RouteByPhase, Routing
<1> QED BY <1>1, <1>2, <1>3, <1>4, <1>5 DEF HandlerInv, AnswersByPhase, CallsByPhase

\* A dispatch that ends at once with an error, reported without a provider.
LEMMA EndedAtDispatch ==
    ASSUME IInv, NEW r \in Requests, At(r, "dispatch"),
           Step(r, Goto(Reported(Refused([h[r] EXCEPT !.path = "adapter"]), "none", "error"), "done"))
    PROVE  IInv'
<1> DEFINE x == h[r]
           z == Refused([x EXCEPT !.path = "adapter"])
           y == Goto(Reported(z, "none", "error"), "done")
<1>1. /\ x \in Handler /\ x.q \in Questions /\ x.calls = <<>> /\ Len(x.calls) = 0
      /\ Unanswered(x)
  BY AtDispatch
<1>2. [x EXCEPT !.path = "adapter"] \in Handler
  BY <1>1 DEF Handler
<1>3. z \in Handler
  BY <1>2, RefusedHandler
<1>4. /\ z.calls = <<>> /\ z.replies = {} /\ z.reports = <<>> /\ z.q = x.q
      /\ z.answer = "error" /\ z.answers = 1 /\ z.path = "adapter"
  BY <1>1 DEF Handler, Refused, Unanswered
<1> HIDE DEF z
<1>5. Reported(z, "none", "error") \in Handler
  BY <1>3, ReportedHandler
<1>6. /\ Len(Reported(z, "none", "error").reports) = 1
      /\ Reported(z, "none", "error").reports[1].status = "error"
  BY <1>3, <1>4, FirstReport
<1>7. y \in Handler
  BY <1>5, GotoHandler DEF Phases
<1>8. /\ y.pc = "done" /\ y.calls = <<>> /\ y.replies = {} /\ y.q = x.q
      /\ y.answer = "error" /\ y.answers = 1
      /\ Len(y.reports) = 1 /\ y.reports[1].status = "error"
  BY <1>3, <1>4, <1>5, <1>6 DEF Handler, Goto, Reported
<1>9. Step(r, y)
  BY DEF z
<1> HIDE DEF y
<1>10. AnswersByPhase(y) /\ CallsByPhase(y)
  BY <1>8 DEF AnswersByPhase, CallsByPhase, ReportedTruly, Adapting
<1>11. RouteByPhase(y) /\ CredentialsByPhase(y)
  BY <1>1, <1>8 DEF RouteByPhase, CredentialsByPhase, Routing, Adapting
<1>12. HandlerInv(y, snap)
  BY <1>1, <1>7, <1>8, <1>10, <1>11 DEF HandlerInv
<1> QED BY <1>9, <1>12, StepPreserves

---------------------------------------------------------------------------
(* The passthrough *)

LEMMA OpenPassthroughPreserves ==
    ASSUME IInv, NEW r \in Requests, OpenPassthrough(r)
    PROVE  IInv'
<1> DEFINE x == h[r]
           route == Selected(x.route, ResponseCandidates)
           y == [x EXCEPT !.pc = "attempt", !.path = "passthrough", !.pm = snap, !.route = route]
<1>1. At(r, "dispatch") /\ Passthrough(r) /\ Step(r, y)
  BY DEF OpenPassthrough
<1>2. /\ x \in Handler /\ x.q \in Questions /\ snap \in x.seen
      /\ x.calls = <<>> /\ Len(x.calls) = 0 /\ Unanswered(x) /\ x.hookErr = FALSE
      /\ x.route \in Seq(Candidate) /\ x.route # <<>> /\ Head(x.route) = x.route[1]
  BY <1>1, AtDispatch
<1>3. PICK s \in x.seen : FoundIn(s, x)
  BY <1>1, AtDispatch
<1>4. /\ route \in Seq(Candidate)
      /\ \A i \in 1..Len(route) : Live(s, route[i])
      /\ Ordered(s, route)
  BY <1>2, <1>3, SelectedKeeps DEF FoundIn
<1>5. route # <<>>
  <2>1. Len(x.route) \in Nat \ {0}
    BY <1>2, EmptySeq
  <2>2. x.route[1] \in Candidate /\ 1 \in 1..Len(x.route)
    BY <1>2, <2>1, ElementOfSeq
  <2>3. x.route[1].protocol = "openai-response"
    BY <1>1, <1>2 DEF Passthrough, Current
  <2>4. x.route[1] \in ResponseCandidates
    BY <2>2, <2>3 DEF ResponseCandidates
  <2>5. \A m \in 1..Len(x.route) :
            x.route[m] \in ResponseCandidates => \E i \in 1..Len(route) : route[i] = x.route[m]
    <3> DEFINE cs == x.route
               t == Selected(cs, ResponseCandidates)
    <3>1. cs \in Seq(Candidate)
      BY <1>2
    <3> HIDE DEF cs
    <3>2. \A m \in 1..Len(cs) :
              cs[m] \in ResponseCandidates => \E i \in 1..Len(t) : t[i] = cs[m]
      BY <3>1, SelectedFacts
    <3> QED BY <3>2 DEF cs
  <2>6. \E i \in 1..Len(route) : route[i] = x.route[1]
    BY <2>2, <2>4, <2>5
  <2> QED BY <2>6, EmptySeq
<1> HIDE DEF route
<1>6. snap \in Snapshots
  BY DEF IInv
<1>7. y \in Handler
  BY <1>2, <1>4, <1>6 DEF Handler, Phases
<1>8. /\ y.pc = "attempt" /\ y.path = "passthrough" /\ y.pm = snap /\ y.route = route
      /\ y.q = x.q /\ y.seen = x.seen /\ y.calls = <<>> /\ Len(y.calls) = 0
      /\ Unanswered(y) /\ y.hookErr = FALSE
  BY <1>2 DEF Handler, Unanswered
<1> HIDE DEF y
<1>9. AnswersByPhase(y) /\ CallsByPhase(y)
  BY <1>8 DEF AnswersByPhase, CallsByPhase, Unanswered, Adapting
<1>10. FoundIn(s, y)
  BY <1>4, <1>8 DEF FoundIn, Ordered
<1>11. RouteByPhase(y) /\ CredentialsByPhase(y)
  BY <1>2, <1>3, <1>5, <1>8, <1>10 DEF RouteByPhase, CredentialsByPhase, Adapting
<1>12. HandlerInv(y, snap)
  BY <1>2, <1>7, <1>8, <1>9, <1>11 DEF HandlerInv
<1> QED BY <1>1, <1>12, StepPreserves

\* What holds of a request that is offered to one candidate after the other.
LEMMA WhileFallingBack ==
    ASSUME IInv, NEW r \in Requests, At(r, "attempt") \/ At(r, "sent")
    PROVE  /\ h[r] \in Handler /\ h[r].q \in Questions /\ snap \in h[r].seen
           /\ h[r].path = "passthrough" /\ h[r].hookErr = FALSE /\ Unanswered(h[r])
           /\ h[r].pm \in h[r].seen /\ h[r].pm \in Snapshots
           /\ h[r].calls \in Seq(Call)
           /\ h[r].route \in Seq(Candidate) /\ h[r].route # <<>>
           /\ Head(h[r].route) = h[r].route[1] /\ Len(h[r].route) \in Nat \ {0}
           /\ \E s \in h[r].seen : FoundIn(s, h[r])
           /\ \A i \in 1..Len(h[r].calls) :
                 h[r].calls[i].protocol # "openai-chat" => \E s \in h[r].seen : Live(s, h[r].calls[i])
<1> DEFINE x == h[r]
<1>1. HandlerInv(x, snap) /\ x.pc \in {"attempt", "sent"}
  BY DEF IInv, At
<1>2. x \in Handler /\ x.route # <<>>
  BY <1>1 DEF HandlerInv, RouteByPhase, Routing
<1>3. x.route \in Seq(Candidate) /\ x.calls \in Seq(Call) /\ x.seen \subseteq Snapshots
  BY <1>2 DEF Handler
<1>4. Head(x.route) = x.route[1] /\ Len(x.route) \in Nat \ {0}
  BY <1>2, <1>3, EmptySeq
<1>5. \E s \in x.seen : FoundIn(s, x)
  BY <1>1 DEF HandlerInv, RouteByPhase, Routing
<1>6. x.pm \in x.seen
  BY <1>1 DEF HandlerInv, CredentialsByPhase
<1>7. /\ x.q \in Questions /\ snap \in x.seen
      /\ x.path = "passthrough" /\ x.hookErr = FALSE /\ Unanswered(x)
  BY <1>1 DEF HandlerInv, AnswersByPhase
<1>8. \A i \in 1..Len(x.calls) :
          x.calls[i].protocol # "openai-chat" => \E s \in x.seen : Live(s, x.calls[i])
  BY <1>1 DEF HandlerInv, CredentialsByPhase
<1> QED BY <1>2, <1>3, <1>4, <1>5, <1>6, <1>7, <1>8

\* The last candidate's failure is answered, any other's leaves the next ones.
LEMMA GiveUpPreserves ==
    ASSUME IInv, NEW r \in Requests, At(r, "attempt") \/ At(r, "sent"), Step(r, GiveUp(r))
    PROVE  IInv'
<1> DEFINE x == h[r]
<1>1. /\ x \in Handler /\ x.q \in Questions /\ snap \in x.seen
      /\ x.path = "passthrough" /\ x.hookErr = FALSE /\ Unanswered(x)
      /\ x.pm \in x.seen /\ x.pm \in Snapshots
      /\ x.calls \in Seq(Call)
      /\ x.route \in Seq(Candidate) /\ x.route # <<>> /\ Len(x.route) \in Nat \ {0}
  BY WhileFallingBack
<1>2. PICK s \in x.seen : FoundIn(s, x)
  BY WhileFallingBack
<1>3. \A i \in 1..Len(x.calls) :
          x.calls[i].protocol # "openai-chat" => \E z \in x.seen : Live(z, x.calls[i])
  BY WhileFallingBack
<1>4. CASE IsLast(r)
  <2> DEFINE z == [x EXCEPT !.hookErr = TRUE]
             y == Goto(Refused(z), "return")
  <2>1. Step(r, y)
    BY <1>4 DEF GiveUp
  <2>2. z \in Handler
    BY <1>1 DEF Handler
  <2>3. y \in Handler
    BY <2>2, RefusedHandler, GotoHandler DEF Phases
  <2>4. /\ y.pc = "return" /\ y.q = x.q /\ y.seen = x.seen /\ y.calls = x.calls
        /\ y.replies = {} /\ y.route = x.route /\ y.reports = <<>>
        /\ y.answer = "error" /\ y.answers = 1 /\ y.path = "passthrough" /\ y.hookErr = TRUE
    BY <1>1 DEF Handler, Goto, Refused, Unanswered
  <2> HIDE DEF y
  <2>5. AnswersByPhase(y) /\ CallsByPhase(y)
    BY <2>4 DEF AnswersByPhase, CallsByPhase, HookPending, Adapting
  <2>6. RouteByPhase(y) /\ CredentialsByPhase(y)
    BY <1>1, <1>2, <1>3, <2>4 DEF RouteByPhase, CredentialsByPhase, Routing, Adapting, FoundIn
  <2>7. HandlerInv(y, snap)
    BY <1>1, <2>3, <2>4, <2>5, <2>6 DEF HandlerInv
  <2> QED BY <2>1, <2>7, StepPreserves
<1>5. CASE ~IsLast(r)
  <2> DEFINE rest == Tail(x.route)
             y == [x EXCEPT !.route = rest, !.pc = "attempt"]
  <2>1. Step(r, y)
    BY <1>5 DEF GiveUp
  <2>2. /\ rest \in Seq(Candidate) /\ Len(rest) = Len(x.route) - 1 /\ Len(rest) \in Nat \ {0}
        /\ \A i \in 1..Len(rest) : rest[i] = x.route[i + 1] /\ i + 1 \in 1..Len(x.route)
    BY <1>1, <1>5, HeadTailProperties DEF IsLast
  <2> HIDE DEF rest
  <2>3. rest # <<>>
    BY <2>2, EmptySeq
  <2>4. y \in Handler
    BY <1>1, <2>2 DEF Handler, Phases
  <2>5. /\ y.pc = "attempt" /\ y.q = x.q /\ y.seen = x.seen /\ y.calls = x.calls /\ y.pm = x.pm
        /\ Unanswered(y) /\ y.path = "passthrough" /\ y.hookErr = FALSE /\ y.route = rest
    BY <1>1 DEF Handler, Unanswered
  <2> HIDE DEF y
  <2>6. AnswersByPhase(y) /\ CallsByPhase(y)
    BY <2>5 DEF AnswersByPhase, CallsByPhase, Unanswered, Adapting
  <2>7. FoundIn(s, y)
    <3>1. \A i \in 1..Len(rest) : Live(s, rest[i])
      BY <1>2, <2>2 DEF FoundIn
    <3>2. Ordered(s, rest)
      <4>1. ASSUME NEW i \in 1..Len(rest), NEW j \in 1..Len(rest), i < j
            PROVE  Rank(s, rest[i].provider) < Rank(s, rest[j].provider)
        <5>1. i + 1 < j + 1
          BY <2>2, <4>1
        <5> QED BY <1>2, <2>2, <5>1 DEF FoundIn, Ordered
      <4> QED BY <4>1 DEF Ordered
    <3>3. ASSUME NEW i \in 1..Len(x.calls), NEW j \in 1..Len(rest)
          PROVE  Rank(s, x.calls[i].provider) < Rank(s, rest[j].provider)
      <4>1. j + 1 # 1
        BY <2>2
      <4> QED BY <1>2, <2>2, <4>1 DEF FoundIn
    <3>4. Ordered(s, x.calls)
      BY <1>2 DEF FoundIn
    <3> QED BY <2>5, <3>1, <3>2, <3>3, <3>4 DEF FoundIn
  <2>8. RouteByPhase(y) /\ CredentialsByPhase(y)
    <3>1. Ordered(s, y.calls)
      BY <2>7 DEF FoundIn
    <3> QED BY <1>1, <1>2, <1>3, <2>3, <2>5, <2>7, <3>1
            DEF RouteByPhase, CredentialsByPhase, Adapting
  <2>9. HandlerInv(y, snap)
    BY <1>1, <2>4, <2>5, <2>6, <2>8 DEF HandlerInv
  <2> QED BY <2>1, <2>9, StepPreserves
<1> QED BY <1>4, <1>5

LEMMA AttemptPreserves ==
    ASSUME IInv, NEW r \in Requests, Attempt(r)
    PROVE  IInv'
<1> DEFINE x == h[r]
           p == x.route[1].provider
           call == [provider |-> p, protocol |-> "openai-response", key |-> x.pm.defs[p].key]
           cs == Append(x.calls, call)
           y == [x EXCEPT !.pc = "sent", !.calls = cs]
<1>1. /\ x \in Handler /\ x.q \in Questions /\ snap \in x.seen
      /\ x.path = "passthrough" /\ x.hookErr = FALSE /\ Unanswered(x)
      /\ x.pm \in x.seen /\ x.pm \in Snapshots
      /\ x.calls \in Seq(Call)
      /\ x.route \in Seq(Candidate) /\ x.route # <<>> /\ Len(x.route) \in Nat \ {0}
      /\ Head(x.route) = x.route[1]
  BY WhileFallingBack DEF Attempt
<1>2. PICK s \in x.seen : FoundIn(s, x)
  BY WhileFallingBack DEF Attempt
<1>3. \A i \in 1..Len(x.calls) :
          x.calls[i].protocol # "openai-chat" => \E z \in x.seen : Live(z, x.calls[i])
  BY WhileFallingBack DEF Attempt
<1>4. x.pc = "attempt" /\ x.pm.defs[p] # Absent /\ Step(r, y)
  BY <1>1 DEF Attempt, At, Current
<1>5. call \in Call
  <2>1. x.route[1] \in Candidate
    BY <1>1, ElementOfSeq
  <2>2. p \in Providers
    BY <2>1 DEF Candidate
  <2>3. x.pm.defs[p] \in Defs
    BY <1>1, <1>4, <2>2, SnapshotParts
  <2>4. x.pm.defs[p].key \in Keys
    BY <2>3 DEF Defs
  <2> QED BY <2>2, <2>4 DEF Call, Protocols
<1>6. call.provider = p /\ Live(x.pm, call)
  BY <1>4 DEF Live
<1> HIDE DEF call
<1>7. /\ cs \in Seq(Call) /\ Len(cs) = Len(x.calls) + 1 /\ Len(x.calls) \in Nat /\ cs # <<>>
      /\ \A i \in 1..Len(x.calls) : cs[i] = x.calls[i]
      /\ cs[Len(cs)] = call
  BY <1>1, <1>5, AppendProperties, LenProperties
<1> HIDE DEF cs
<1>8. y \in Handler
  BY <1>1, <1>7 DEF Handler, Phases
<1>9. /\ y.pc = "sent" /\ y.q = x.q /\ y.seen = x.seen /\ y.calls = cs /\ y.pm = x.pm
      /\ Unanswered(y) /\ y.path = "passthrough" /\ y.hookErr = FALSE /\ y.route = x.route
  BY <1>1 DEF Handler, Unanswered
<1> HIDE DEF y, p
<1>10. AnswersByPhase(y) /\ CallsByPhase(y)
  BY <1>9 DEF AnswersByPhase, CallsByPhase, Unanswered, Adapting
<1>11. \A i \in 1..Len(cs) : i \in 1..Len(x.calls) \/ i = Len(cs)
  BY <1>7
<1>12. FoundIn(s, y)
  <2>1. \A i \in 1..Len(x.calls), j \in 1..Len(x.route) :
            Rank(s, x.calls[i].provider) < Rank(s, x.route[j].provider)
    BY <1>2, <1>4 DEF FoundIn
  <2>2. 1 \in 1..Len(x.route) /\ x.route[1].provider = call.provider
    BY <1>1, <1>6 DEF p
  <2>3. Ordered(s, cs)
    <3>1. ASSUME NEW i \in 1..Len(cs), NEW j \in 1..Len(cs), i < j
          PROVE  Rank(s, cs[i].provider) < Rank(s, cs[j].provider)
      <4>1. i \in 1..Len(x.calls) /\ cs[i] = x.calls[i]
        BY <1>7, <3>1
      <4>2. CASE j \in 1..Len(x.calls)
        BY <1>2, <1>7, <3>1, <4>1, <4>2 DEF FoundIn, Ordered
      <4>3. CASE j = Len(cs)
        BY <1>7, <2>1, <2>2, <4>1, <4>3
      <4> QED BY <1>11, <4>2, <4>3
    <3> QED BY <3>1 DEF Ordered
  <2>4. ASSUME NEW i \in 1..Len(cs), NEW j \in 1..Len(x.route), j # 1
        PROVE  Rank(s, cs[i].provider) < Rank(s, x.route[j].provider)
    <3>1. CASE i \in 1..Len(x.calls)
      BY <1>7, <2>1, <3>1
    <3>2. CASE i = Len(cs)
      <4>1. 1 < j
        BY <1>1, <2>4
      <4>2. Rank(s, x.route[1].provider) < Rank(s, x.route[j].provider)
        BY <1>2, <2>2, <4>1 DEF FoundIn, Ordered
      <4> QED BY <1>7, <2>2, <3>2, <4>2
    <3> QED BY <1>11, <3>1, <3>2
  <2> QED BY <1>2, <1>9, <2>3, <2>4 DEF FoundIn
<1>13. RouteByPhase(y)
  BY <1>1, <1>2, <1>9, <1>12 DEF RouteByPhase, FoundIn
<1>14. CredentialsByPhase(y)
  <2>1. ASSUME NEW i \in 1..Len(cs), cs[i].protocol # "openai-chat"
        PROVE  \E z \in x.seen : Live(z, cs[i])
    <3>1. CASE i \in 1..Len(x.calls)
      BY <1>3, <1>7, <2>1, <3>1
    <3>2. CASE i = Len(cs)
      BY <1>1, <1>6, <1>7, <3>2
    <3> QED BY <1>11, <3>1, <3>2
  <2> QED BY <1>1, <1>9, <2>1 DEF CredentialsByPhase, Adapting
<1>15. HandlerInv(y, snap)
  BY <1>1, <1>8, <1>9, <1>10, <1>13, <1>14 DEF HandlerInv
<1> QED BY <1>4, <1>15, StepPreserves

LEMMA ForwardPreserves ==
    ASSUME IInv, NEW r \in Requests, NEW status \in {"ok", "error"}, Forward(r, status)
    PROVE  IInv'
<1> DEFINE x == h[r]
           z == [x EXCEPT !.answer = status, !.answers = @ + 1, !.pc = "copy"]
           y == Replied(z)
<1>1. /\ x \in Handler /\ x.q \in Questions /\ snap \in x.seen
      /\ x.path = "passthrough" /\ x.hookErr = FALSE /\ Unanswered(x) /\ x.route # <<>>
  BY WhileFallingBack DEF Forward
<1>2. PICK s \in x.seen : FoundIn(s, x)
  BY WhileFallingBack DEF Forward
<1>3. \A i \in 1..Len(x.calls) :
          x.calls[i].protocol # "openai-chat" => \E w \in x.seen : Live(w, x.calls[i])
  BY WhileFallingBack DEF Forward
<1>4. Step(r, y)
  BY DEF Forward
<1>5. z \in Handler
  <2>1. x.answers + 1 \in Nat
    BY <1>1 DEF Handler
  <2>2. z = [x EXCEPT !.answer = status, !.answers = x.answers + 1, !.pc = "copy"]
    OBVIOUS
  <2> QED BY <1>1, <2>1, <2>2 DEF Handler, Phases
<1>6. y \in Handler
  BY <1>5, RepliedHandler
<1>7. /\ y.pc = "copy" /\ y.q = x.q /\ y.seen = x.seen /\ y.calls = x.calls
      /\ y.answer = status /\ y.answers = 1 /\ y.reports = <<>> /\ y.replies = {Len(x.calls)}
      /\ y.path = "passthrough" /\ y.hookErr = FALSE /\ y.route = x.route
  BY <1>1 DEF Handler, Replied, Unanswered
<1> HIDE DEF y
<1>8. AnswersByPhase(y) /\ CallsByPhase(y)
  BY <1>7 DEF AnswersByPhase, CallsByPhase, Adapting
<1>9. RouteByPhase(y) /\ CredentialsByPhase(y)
  BY <1>1, <1>2, <1>3, <1>7 DEF RouteByPhase, CredentialsByPhase, Routing, Adapting, FoundIn
<1>10. HandlerInv(y, snap)
  BY <1>1, <1>6, <1>7, <1>8, <1>9 DEF HandlerInv
<1> QED BY <1>4, <1>10, StepPreserves

LEMMA CopyEndsPreserves ==
    ASSUME IInv, NEW r \in Requests, CopyEnds(r)
    PROVE  IInv'
<1> DEFINE x == h[r]
           p == Head(x.route).provider
           status == IF x.answer = "ok" THEN "success" ELSE "error"
<1>1. HandlerInv(x, snap) /\ x.pc = "copy"
  BY DEF IInv, CopyEnds, At
<1>2. /\ x \in Handler /\ x.q \in Questions /\ snap \in x.seen
      /\ x.path = "passthrough" /\ x.hookErr = FALSE /\ x.reports = <<>>
      /\ x.answer \in {"ok", "error"} /\ x.answers = 1
      /\ x.replies \subseteq {Len(x.calls)} /\ x.route # <<>>
      /\ x.calls # <<>> => \E s \in x.seen : Ordered(s, x.calls)
      /\ \A i \in 1..Len(x.calls) :
            x.calls[i].protocol # "openai-chat" => \E s \in x.seen : Live(s, x.calls[i])
  BY <1>1 DEF HandlerInv, AnswersByPhase, CallsByPhase, RouteByPhase, CredentialsByPhase
<1>3. p \in Providers
  <2>1. x.route \in Seq(Candidate)
    BY <1>2 DEF Handler
  <2>2. Head(x.route) \in Candidate
    BY <1>2, <2>1, HeadTailProperties
  <2> QED BY <2>2 DEF Candidate
<1>4. CASE Step(r, Goto(Reported(x, p, status), "return"))
  <2> DEFINE z == Reported(x, p, status)
             y == Goto(z, "return")
  <2>1. z \in Handler
    BY <1>2, <1>3, ReportedHandler
  <2>2. Len(z.reports) = 1 /\ z.reports[1].status = status
    BY <1>2, <1>3, FirstReport
  <2>3. y \in Handler
    BY <2>1, GotoHandler DEF Phases
  <2>4. /\ y.pc = "return" /\ y.q = x.q /\ y.seen = x.seen /\ y.calls = x.calls
        /\ y.answer = x.answer /\ y.answers = 1 /\ y.reports = z.reports /\ y.replies = x.replies
        /\ y.path = "passthrough" /\ y.hookErr = FALSE /\ y.route = x.route
    BY <1>2 DEF Handler, Reported, Goto
  <2>5. Step(r, y)
    BY <1>4
  <2> HIDE DEF z, y
  <2>6. ReportedTruly(y)
    BY <1>2, <2>2, <2>4 DEF ReportedTruly
  <2>7. AnswersByPhase(y) /\ CallsByPhase(y)
    BY <1>2, <2>4, <2>6 DEF AnswersByPhase, CallsByPhase, HookPending, Adapting
  <2>8. RouteByPhase(y) /\ CredentialsByPhase(y)
    BY <1>2, <2>4 DEF RouteByPhase, CredentialsByPhase, Routing, Adapting
  <2>9. HandlerInv(y, snap)
    BY <1>2, <2>3, <2>4, <2>7, <2>8 DEF HandlerInv
  <2> QED BY <2>5, <2>9, StepPreserves
<1>5. CASE Step(r, [x EXCEPT !.answer = "cut", !.hookErr = TRUE, !.pc = "return"])
  <2> DEFINE y == [x EXCEPT !.answer = "cut", !.hookErr = TRUE, !.pc = "return"]
  <2>1. y \in Handler
    BY <1>2 DEF Handler, Phases
  <2>2. /\ y.pc = "return" /\ y.q = x.q /\ y.seen = x.seen /\ y.calls = x.calls
        /\ y.answer = "cut" /\ y.answers = 1 /\ y.reports = <<>> /\ y.replies = x.replies
        /\ y.path = "passthrough" /\ y.hookErr = TRUE /\ y.route = x.route
    BY <1>2 DEF Handler
  <2> HIDE DEF y
  <2>3. AnswersByPhase(y) /\ CallsByPhase(y)
    BY <1>2, <2>2 DEF AnswersByPhase, CallsByPhase, HookPending, Adapting
  <2>4. RouteByPhase(y) /\ CredentialsByPhase(y)
    BY <1>2, <2>2 DEF RouteByPhase, CredentialsByPhase, Routing, Adapting
  <2>5. HandlerInv(y, snap)
    BY <1>2, <2>1, <2>2, <2>3, <2>4 DEF HandlerInv
  <2> QED BY <1>5, <2>5, StepPreserves DEF y
<1> QED BY <1>4, <1>5 DEF CopyEnds, Current

\* What holds of a request whose handler returns, on either path.
LEMMA AtReturn ==
    ASSUME IInv, NEW r \in Requests, At(r, "return")
    PROVE  /\ h[r] \in Handler /\ h[r].q \in Questions /\ snap \in h[r].seen
           /\ h[r].answers = 1 /\ h[r].answer # "none"
           /\ HookPending(h[r]) => h[r].reports = <<>> /\ h[r].answer # "ok"
           /\ ~HookPending(h[r]) /\ NotAStream(h[r]) => ReportedTruly(h[r])
           /\ Head(h[r].route).provider \in Providers
           /\ h[r].replies \subseteq {Len(h[r].calls)}
           /\ h[r].calls # <<>> => \E s \in h[r].seen : Ordered(s, h[r].calls)
           /\ \A i \in 1..Len(h[r].calls) :
                 h[r].calls[i].protocol # "openai-chat" => \E s \in h[r].seen : Live(s, h[r].calls[i])
<1> DEFINE x == h[r]
<1>1. HandlerInv(x, snap) /\ x.pc = "return"
  BY DEF IInv, At
<1>2. x.route \in Seq(Candidate) /\ x.route # <<>>
  BY <1>1 DEF HandlerInv, Handler, RouteByPhase
<1>3. Head(x.route) \in Candidate
  BY <1>2, HeadTailProperties
<1>4. Head(x.route).provider \in Providers
  BY <1>3 DEF Candidate
<1> QED BY <1>1, <1>4
        DEF HandlerInv, AnswersByPhase, CallsByPhase, RouteByPhase, CredentialsByPhase

LEMMA ReturnPreserves ==
    ASSUME IInv, NEW r \in Requests, At(r, "return"),
           Step(r, Goto(IF HookPending(h[r]) THEN Reported(h[r], Head(h[r].route).provider, "error")
                        ELSE h[r], "done"))
    PROVE  IInv'
<1> DEFINE x == h[r]
           p == Head(x.route).provider
<1>1. /\ x \in Handler /\ x.q \in Questions /\ snap \in x.seen
      /\ x.answers = 1 /\ x.answer # "none" /\ p \in Providers
      /\ x.replies \subseteq {Len(x.calls)}
      /\ x.calls # <<>> => \E s \in x.seen : Ordered(s, x.calls)
      /\ \A i \in 1..Len(x.calls) :
            x.calls[i].protocol # "openai-chat" => \E s \in x.seen : Live(s, x.calls[i])
  BY AtReturn
<1>2. PICK z \in Handler :
          /\ Step(r, Goto(z, "done"))
          /\ z.q = x.q /\ z.seen = x.seen /\ z.calls = x.calls /\ z.replies = x.replies
          /\ z.answer = x.answer /\ z.answers = 1
          /\ NotAStream(x) => ReportedTruly(z)
  <2>1. CASE HookPending(x)
    <3> DEFINE z == Reported(x, p, "error")
    <3>1. x.reports = <<>> /\ x.answer # "ok"
      BY <2>1, AtReturn
    <3>2. z \in Handler /\ Len(z.reports) = 1 /\ z.reports[1].status = "error"
      BY <1>1, <3>1, ReportedHandler, FirstReport
    <3>3. /\ z.q = x.q /\ z.seen = x.seen /\ z.calls = x.calls /\ z.replies = x.replies
          /\ z.answer = x.answer /\ z.answers = 1
      BY <1>1 DEF Handler, Reported
    <3>4. Step(r, Goto(z, "done"))
      BY <2>1
    <3> HIDE DEF z
    <3>5. ReportedTruly(z)
      BY <3>1, <3>2, <3>3 DEF ReportedTruly
    <3> QED BY <3>2, <3>3, <3>4, <3>5
  <2>2. CASE ~HookPending(x)
    <3>1. NotAStream(x) => ReportedTruly(x)
      BY <2>2, AtReturn
    <3>2. Step(r, Goto(x, "done"))
      BY <2>2
    <3> QED BY <1>1, <3>1, <3>2
  <2> QED BY <2>1, <2>2
<1> DEFINE y == Goto(z, "done")
<1>3. y \in Handler
  BY GotoHandler DEF Phases
<1>4. /\ y.pc = "done" /\ y.q = x.q /\ y.seen = x.seen /\ y.calls = x.calls
      /\ y.replies = x.replies /\ y.answer = x.answer /\ y.answers = 1 /\ y.reports = z.reports
  BY <1>2 DEF Handler, Goto
<1>5. Step(r, y)
  BY <1>2
<1> HIDE DEF y
<1>6. NotAStream(y) => ReportedTruly(y)
  BY <1>2, <1>4 DEF NotAStream, ReportedTruly
<1>7. AnswersByPhase(y) /\ CallsByPhase(y)
  BY <1>1, <1>4, <1>6 DEF AnswersByPhase, CallsByPhase, Adapting
<1>8. RouteByPhase(y) /\ CredentialsByPhase(y)
  BY <1>1, <1>4 DEF RouteByPhase, CredentialsByPhase, Routing, Adapting
<1>9. HandlerInv(y, snap)
  BY <1>1, <1>3, <1>4, <1>7, <1>8 DEF HandlerInv
<1> QED BY <1>5, <1>9, StepPreserves

LEMMA PassthroughReturnsPreserves ==
    ASSUME IInv, NEW r \in Requests, PassthroughReturns(r)
    PROVE  IInv'
<1>1. At(r, "return") /\ h[r].path = "passthrough"
  BY DEF PassthroughReturns
<1>2. HookPending(h[r]) <=> h[r].hookErr
  BY <1>1, AtReturn DEF HookPending, Handler
<1> QED BY <1>1, <1>2, ReturnPreserves DEF PassthroughReturns, Current

LEMMA AdapterReturnsPreserves ==
    ASSUME IInv, NEW r \in Requests, AdapterReturns(r)
    PROVE  IInv'
<1>1. At(r, "return") /\ h[r].path = "adapter"
  BY DEF AdapterReturns
<1>2. HookPending(h[r]) <=> ~h[r].completed
  BY <1>1, AtReturn DEF HookPending, Handler
<1> QED BY <1>1, <1>2, ReturnPreserves DEF AdapterReturns, Current

---------------------------------------------------------------------------
(* The adapter path *)

LEMMA OpenAdapterPreserves ==
    ASSUME IInv, NEW r \in Requests, OpenAdapter(r)
    PROVE  IInv'
<1> DEFINE x == h[r]
           z == [x EXCEPT !.path = "adapter"]
           y == Goto(z, "convert")
<1>1. At(r, "dispatch") /\ x.route[1].protocol # "openai-response"
  BY AtDispatch DEF OpenAdapter, Passthrough, Current
<1>2. CASE Step(r, y)
  <2>1. /\ x \in Handler /\ x.q \in Questions /\ snap \in x.seen
        /\ x.calls = <<>> /\ Len(x.calls) = 0 /\ Unanswered(x) /\ x.completed = FALSE
        /\ x.route \in Seq(Candidate) /\ x.route # <<>>
    BY <1>1, AtDispatch
  <2>2. PICK s \in x.seen : FoundIn(s, x)
    BY <1>1, AtDispatch
  <2>3. x.route[1].protocol \in {"anthropic", "openai-chat"}
    <3>1. 1 \in 1..Len(x.route)
      BY <2>1, EmptySeq
    <3>2. x.route[1] \in Candidate
      BY <2>1, <3>1, ElementOfSeq
    <3> QED BY <1>1, <3>2 DEF Candidate, Protocols
  <2>4. z \in Handler
    BY <2>1 DEF Handler
  <2>5. y \in Handler
    BY <2>4, GotoHandler DEF Phases
  <2>6. /\ y.pc = "convert" /\ y.path = "adapter" /\ y.route = x.route /\ y.completed = FALSE
        /\ y.q = x.q /\ y.seen = x.seen /\ y.calls = <<>> /\ Len(y.calls) = 0 /\ Unanswered(y)
    BY <2>1 DEF Handler, Goto, Unanswered
  <2> HIDE DEF y
  <2>7. AnswersByPhase(y) /\ CallsByPhase(y)
    BY <2>6 DEF AnswersByPhase, CallsByPhase, Unanswered, Adapting
  <2>8. FoundIn(s, y)
    BY <2>1, <2>2, <2>6 DEF FoundIn
  <2>9. RouteByPhase(y) /\ CredentialsByPhase(y)
    BY <2>1, <2>2, <2>3, <2>6, <2>8 DEF RouteByPhase, CredentialsByPhase
  <2>10. HandlerInv(y, snap)
    BY <2>1, <2>5, <2>6, <2>7, <2>9 DEF HandlerInv
  <2> QED BY <1>2, <2>10, StepPreserves
<1>3. CASE Step(r, Goto(Reported(Refused(z), "none", "error"), "done"))
  BY <1>1, <1>3, EndedAtDispatch
<1> QED BY <1>2, <1>3 DEF OpenAdapter

\* What holds of a request on the adapter path.
LEMMA WhileAdapting ==
    ASSUME IInv, NEW r \in Requests, h[r].pc \in Adapting
    PROVE  /\ h[r] \in Handler /\ h[r].q \in Questions /\ snap \in h[r].seen
           /\ Unanswered(h[r]) /\ h[r].path = "adapter"
           /\ h[r].completed = FALSE \/ ~NotAStream(h[r])
           /\ h[r].pc # "waiting" => h[r].calls = <<>> /\ Len(h[r].calls) = 0
           /\ h[r].route \in Seq(Candidate) /\ h[r].route # <<>>
           /\ Head(h[r].route) = h[r].route[1]
           /\ h[r].route[1] \in Candidate
           /\ h[r].route[1].protocol \in {"anthropic", "openai-chat"}
           /\ \E s \in h[r].seen : FoundIn(s, h[r])
           /\ \E s \in h[r].seen : Live(s, h[r].route[1])
           /\ \A i \in 1..Len(h[r].calls) :
                 h[r].calls[i].protocol # "openai-chat" => \E s \in h[r].seen : Live(s, h[r].calls[i])
<1> DEFINE x == h[r]
<1>1. HandlerInv(x, snap) /\ x.pc \in Routing /\ x.pc \in Adapting /\ x.pc \notin {"idle", "done"}
  BY DEF IInv, Adapting, Routing
<1>2. x.route \in Seq(Candidate) /\ x.route # <<>> /\ Head(x.route) = x.route[1]
  BY <1>1 DEF HandlerInv, Handler, RouteByPhase
<1>3. 1 \in 1..Len(x.route)
  BY <1>2, EmptySeq
<1>4. x.route[1] \in Candidate
  BY <1>2, <1>3, ElementOfSeq
<1>5. PICK s \in x.seen : FoundIn(s, x)
  BY <1>1 DEF HandlerInv, RouteByPhase
<1>6. Live(s, x.route[1])
  BY <1>3, <1>5 DEF FoundIn
<1>7. x.pc # "waiting" => x.calls = <<>> /\ Len(x.calls) = 0
  BY <1>1, EmptySeq DEF HandlerInv, CallsByPhase
<1>8. /\ x \in Handler /\ x.q \in Questions /\ snap \in x.seen
      /\ Unanswered(x) /\ x.path = "adapter"
      /\ x.completed = FALSE \/ ~NotAStream(x)
  BY <1>1 DEF HandlerInv, AnswersByPhase
<1>9. /\ x.route[1].protocol \in {"anthropic", "openai-chat"}
      /\ \A i \in 1..Len(x.calls) :
            x.calls[i].protocol # "openai-chat" => \E z \in x.seen : Live(z, x.calls[i])
  BY <1>1 DEF HandlerInv, CredentialsByPhase
<1> QED BY <1>2, <1>4, <1>5, <1>6, <1>7, <1>8, <1>9

\* A step along the adapter path before the call: what it has to say.
LEMMA AdaptsFurther ==
    ASSUME IInv, NEW r \in Requests, h[r].pc \in Adapting \ {"waiting"},
           NEW y \in Handler, y.pc \in Adapting \ {"waiting"},
           y.q = h[r].q, y.route = h[r].route, y.seen = h[r].seen, y.path = "adapter",
           y.calls = h[r].calls, Unanswered(y),
           y.completed = FALSE \/ ~NotAStream(y),
           y.pc \in {"client", "build", "store"} => y.route[1].protocol = "openai-chat",
           y.pc \in {"store", "call"} => y.key \in Keys,
           y.pc = "call" /\ y.route[1].protocol = "anthropic" => y.key = y.route[1].key
    PROVE  HandlerInv(y, snap)
<1> DEFINE x == h[r]
<1>1. /\ x.q \in Questions /\ snap \in x.seen
      /\ x.calls = <<>> /\ Len(x.calls) = 0 /\ x.route # <<>>
      /\ x.route[1].protocol \in {"anthropic", "openai-chat"}
  BY WhileAdapting
<1>2. PICK s \in x.seen : FoundIn(s, x)
  BY WhileAdapting
<1>3. AnswersByPhase(y)
  BY DEF AnswersByPhase, Adapting
<1>4. CallsByPhase(y)
  BY <1>1 DEF CallsByPhase, Unanswered, Adapting
<1>5. FoundIn(s, y)
  BY <1>1, <1>2 DEF FoundIn
<1>6. RouteByPhase(y)
  BY <1>1, <1>2, <1>5 DEF RouteByPhase
<1>7. CredentialsByPhase(y)
  BY <1>1 DEF CredentialsByPhase, Adapting
<1>8. y.q \in Questions /\ snap \in y.seen
  BY <1>1
<1> QED BY <1>3, <1>4, <1>6, <1>7, <1>8 DEF HandlerInv

LEMMA FailsPreserves ==
    ASSUME IInv, NEW r \in Requests, h[r].pc \in Adapting, Fails(r)
    PROVE  IInv'
<1> DEFINE x == h[r]
           y == Goto(Refused(x), "return")
<1>1. /\ x \in Handler /\ x.q \in Questions /\ snap \in x.seen
      /\ Unanswered(x) /\ x.path = "adapter" /\ x.route # <<>>
      /\ x.completed = FALSE \/ ~NotAStream(x)
      /\ \A i \in 1..Len(x.calls) :
            x.calls[i].protocol # "openai-chat" => \E s \in x.seen : Live(s, x.calls[i])
  BY WhileAdapting
<1>2. PICK s \in x.seen : FoundIn(s, x)
  BY WhileAdapting
<1>3. y \in Handler
  BY <1>1, RefusedHandler, GotoHandler DEF Phases
<1>4. /\ y.pc = "return" /\ y.q = x.q /\ y.seen = x.seen /\ y.calls = x.calls
      /\ y.replies = {} /\ y.route = x.route /\ y.reports = <<>> /\ y.completed = x.completed
      /\ y.answer = "error" /\ y.answers = 1 /\ y.path = "adapter"
  BY <1>1 DEF Handler, Goto, Refused, Unanswered
<1>5. Step(r, y)
  BY DEF Fails
<1> HIDE DEF y
<1>6. AnswersByPhase(y) /\ CallsByPhase(y)
  BY <1>1, <1>4 DEF AnswersByPhase, CallsByPhase, HookPending, NotAStream, Adapting
<1>7. RouteByPhase(y) /\ CredentialsByPhase(y)
  BY <1>1, <1>2, <1>4 DEF RouteByPhase, CredentialsByPhase, Routing, Adapting, FoundIn
<1>8. HandlerInv(y, snap)
  BY <1>1, <1>3, <1>4, <1>6, <1>7 DEF HandlerInv
<1> QED BY <1>5, <1>8, StepPreserves

LEMMA ConvertPreserves ==
    ASSUME IInv, NEW r \in Requests, Convert(r)
    PROVE  IInv'
<1> DEFINE x == h[r]
           c == x.route[1]
           done == x.completed \/ x.q.stream
           y == [x EXCEPT !.completed = done,
                          !.key = IF c.protocol = "anthropic" THEN c.key ELSE x.key,
                          !.pc = IF c.protocol = "anthropic" THEN "call" ELSE "client"]
<1>1. x.pc = "convert"
  BY DEF Convert, At
<1>2. /\ x \in Handler /\ x.q \in Questions /\ Unanswered(x) /\ x.path = "adapter"
      /\ x.completed = FALSE \/ ~NotAStream(x)
      /\ Head(x.route) = c /\ c \in Candidate /\ c.protocol \in {"anthropic", "openai-chat"}
  BY <1>1, WhileAdapting DEF Adapting
<1>3. CASE Fails(r)
  BY <1>1, <1>3, FailsPreserves DEF Adapting
<1>4. CASE Step(r, y)
  <2>1. x.q.stream \in BOOLEAN /\ x.completed \in BOOLEAN /\ c.key \in Keys
    BY <1>2 DEF Questions, Handler, Candidate
  <2>2. done \in BOOLEAN
    OBVIOUS
  <2>3. done = FALSE \/ x.q.stream # FALSE
    BY <1>2, <2>1 DEF NotAStream
  <2> HIDE DEF done
  <2>4. y \in Handler
    BY <1>2, <2>1, <2>2, ZenonT(60) DEF Handler, Phases
  <2>5. /\ y.q = x.q /\ y.seen = x.seen /\ y.calls = x.calls /\ Unanswered(y)
        /\ y.route = x.route /\ y.path = "adapter" /\ y.completed = done
        /\ y.pc = IF c.protocol = "anthropic" THEN "call" ELSE "client"
        /\ y.key = IF c.protocol = "anthropic" THEN c.key ELSE x.key
    BY <1>2 DEF Handler, Unanswered
  <2> HIDE DEF y
  <2>6. y.completed = FALSE \/ ~NotAStream(y)
    BY <2>3, <2>5 DEF NotAStream
  <2>7. CASE c.protocol = "anthropic"
    <3>1. y.pc = "call" /\ y.key = c.key /\ y.key \in Keys
      BY <2>1, <2>5, <2>7
    <3>2. HandlerInv(y, snap)
      BY <1>1, <2>4, <2>5, <2>6, <3>1, AdaptsFurther DEF Adapting
    <3> QED BY <1>4, <3>2, StepPreserves DEF y
  <2>8. CASE c.protocol = "openai-chat"
    <3>1. y.pc = "client" /\ y.route[1].protocol = "openai-chat"
      BY <2>5, <2>8
    <3>2. HandlerInv(y, snap)
      BY <1>1, <2>4, <2>5, <2>6, <3>1, AdaptsFurther DEF Adapting
    <3> QED BY <1>4, <3>2, StepPreserves DEF y
  <2> QED BY <1>2, <2>7, <2>8
<1> QED BY <1>2, <1>3, <1>4 DEF Convert, Current

\* What holds of a request that needs a Chat client.
LEMMA WhileFindingClient ==
    ASSUME IInv, NEW r \in Requests, h[r].pc \in {"client", "build", "store"}
    PROVE  /\ h[r] \in Handler /\ Unanswered(h[r]) /\ h[r].path = "adapter"
           /\ h[r].completed = FALSE \/ ~NotAStream(h[r])
           /\ Head(h[r].route) = h[r].route[1] /\ h[r].route[1].provider \in Providers
           /\ h[r].route[1].protocol = "openai-chat"
           /\ h[r].pc \in Adapting \ {"waiting"}
<1>1. h[r].pc \in Adapting \ {"waiting"}
  BY DEF Adapting
<1>2. h[r].route[1] \in Candidate
  BY <1>1, WhileAdapting
<1>3. h[r].route[1].protocol = "openai-chat"
  BY DEF IInv, HandlerInv, CredentialsByPhase
<1> QED BY <1>1, <1>2, <1>3, WhileAdapting DEF Candidate

\* A client is found, or built, with credentials someone configured.
LEMMA GetsKey ==
    ASSUME IInv, NEW r \in Requests, h[r].pc \in {"client", "build", "store"},
           NEW key \in Keys, NEW phase \in {"store", "call"},
           Step(r, [h[r] EXCEPT !.key = key, !.pc = phase])
    PROVE  IInv'
<1> DEFINE x == h[r]
           y == [x EXCEPT !.key = key, !.pc = phase]
<1>1. /\ x \in Handler /\ Unanswered(x) /\ x.path = "adapter"
      /\ x.completed = FALSE \/ ~NotAStream(x)
      /\ x.route[1].protocol = "openai-chat" /\ x.pc \in Adapting \ {"waiting"}
  BY WhileFindingClient
<1>2. y \in Handler
  BY <1>1 DEF Handler, Phases
<1>3. /\ y.q = x.q /\ y.seen = x.seen /\ y.calls = x.calls /\ Unanswered(y)
      /\ y.route = x.route /\ y.path = "adapter" /\ y.completed = x.completed
      /\ y.pc = phase /\ y.key = key
  BY <1>1 DEF Handler, Unanswered
<1> HIDE DEF y
<1>4. y.completed = FALSE \/ ~NotAStream(y)
  BY <1>1, <1>3 DEF NotAStream
<1>5. y.pc \in Adapting \ {"waiting"}
  BY <1>3 DEF Adapting
<1>6. HandlerInv(y, snap)
  BY <1>1, <1>2, <1>3, <1>4, <1>5, AdaptsFurther
<1> QED BY <1>6, StepPreserves DEF y

LEMMA LookupClientPreserves ==
    ASSUME IInv, NEW r \in Requests, LookupClient(r)
    PROVE  IInv'
<1> DEFINE x == h[r]
           cached == cache[x.route[1].provider]
<1>1. x.pc = "client"
  BY DEF LookupClient, At
<1>2. /\ x \in Handler /\ Unanswered(x) /\ x.path = "adapter"
      /\ x.completed = FALSE \/ ~NotAStream(x)
      /\ Head(x.route) = x.route[1] /\ x.route[1].provider \in Providers
      /\ x.route[1].protocol = "openai-chat" /\ x.pc \in Adapting \ {"waiting"}
  BY <1>1, WhileFindingClient
<1>3. CASE cached = Absent
  <2> DEFINE y == Goto(x, "build")
  <2>1. y \in Handler
    BY <1>2, GotoHandler DEF Phases
  <2>2. /\ y.q = x.q /\ y.seen = x.seen /\ y.calls = x.calls /\ Unanswered(y)
        /\ y.route = x.route /\ y.path = "adapter" /\ y.completed = x.completed
        /\ y.pc = "build"
    BY <1>2 DEF Handler, Goto, Unanswered
  <2>3. Step(r, y)
    BY <1>2, <1>3 DEF LookupClient, Current
  <2> HIDE DEF y
  <2>4. y.completed = FALSE \/ ~NotAStream(y)
    BY <1>2, <2>2 DEF NotAStream
  <2>5. HandlerInv(y, snap)
    BY <1>2, <2>1, <2>2, <2>4, AdaptsFurther DEF Adapting
  <2> QED BY <2>3, <2>5, StepPreserves
<1>4. CASE cached # Absent
  <2>1. cached \in Keys
    BY <1>2, <1>4 DEF IInv
  <2>2. Step(r, [x EXCEPT !.key = cached, !.pc = "call"])
    BY <1>2, <1>4 DEF LookupClient, Current
  <2> QED BY <1>1, <2>1, <2>2, GetsKey
<1> QED BY <1>3, <1>4

LEMMA ChatKeyConfigured ==
    ASSUME NEW s \in Snapshots, NEW p \in Providers, ChatKey(s, p) # Absent
    PROVE  ChatKey(s, p) \in Keys
<1>1. s.defs[p] # Absent /\ ChatKey(s, p) = s.defs[p].key
  BY DEF ChatKey
<1>2. s.defs[p] \in Defs
  BY <1>1, SnapshotParts
<1> QED BY <1>1, <1>2 DEF Defs

LEMMA BuildClientPreserves ==
    ASSUME IInv, NEW r \in Requests, BuildClient(r)
    PROVE  IInv'
<1> DEFINE x == h[r]
           p == x.route[1].provider
<1>1. x.pc = "build"
  BY DEF BuildClient, At
<1>2. Head(x.route) = x.route[1] /\ p \in Providers
  BY <1>1, WhileFindingClient
<1>3. snap \in Snapshots /\ Boot \in Snapshots
  BY DEF IInv, Snapshots
<1>4. CASE ChatKey(snap, p) # Absent
  <2>1. ChatKey(snap, p) \in Keys
    BY <1>2, <1>3, <1>4, ChatKeyConfigured
  <2>2. Step(r, [x EXCEPT !.key = ChatKey(snap, p), !.pc = "store"])
    BY <1>2, <1>4 DEF BuildClient, Current
  <2> QED BY <1>1, <2>1, <2>2, GetsKey
<1>5. CASE ChatKey(snap, p) = Absent /\ ChatKey(Boot, p) # Absent
  <2>1. ChatKey(Boot, p) \in Keys
    BY <1>2, <1>3, <1>5, ChatKeyConfigured
  <2>2. Step(r, [x EXCEPT !.key = ChatKey(Boot, p), !.pc = "call"])
    BY <1>2, <1>5 DEF BuildClient, Current
  <2> QED BY <1>1, <2>1, <2>2, GetsKey
<1>6. CASE ChatKey(snap, p) = Absent /\ ChatKey(Boot, p) = Absent
  <2>1. Fails(r)
    BY <1>2, <1>6 DEF BuildClient, Current
  <2> QED BY <1>1, <2>1, FailsPreserves DEF Adapting
<1> QED BY <1>4, <1>5, <1>6

LEMMA StoreClientPreserves ==
    ASSUME IInv, NEW r \in Requests, StoreClient(r)
    PROVE  IInv'
<1> DEFINE x == h[r]
           y == [x EXCEPT !.pc = "call"]
<1>1. x.pc = "store"
  BY DEF StoreClient, At
<1>2. /\ x \in Handler /\ Unanswered(x) /\ x.path = "adapter"
      /\ x.completed = FALSE \/ ~NotAStream(x)
      /\ Head(x.route) = x.route[1] /\ x.route[1].provider \in Providers
      /\ x.route[1].protocol = "openai-chat" /\ x.pc \in Adapting \ {"waiting"}
  BY <1>1, WhileFindingClient
<1>3. x.key \in Keys
  BY <1>1 DEF IInv, HandlerInv, CredentialsByPhase
<1>4. y \in Handler
  BY <1>2 DEF Handler, Phases
<1>5. /\ y.q = x.q /\ y.seen = x.seen /\ y.calls = x.calls /\ Unanswered(y)
      /\ y.route = x.route /\ y.path = "adapter" /\ y.completed = x.completed
      /\ y.pc = "call" /\ y.key = x.key
  BY <1>2 DEF Handler, Unanswered
<1>6. h' = [h EXCEPT ![r] = y] /\ snap' = snap
  BY DEF StoreClient
<1> HIDE DEF y
<1>7. y.completed = FALSE \/ ~NotAStream(y)
  BY <1>2, <1>5 DEF NotAStream
<1>8. HandlerInv(y, snap)
  BY <1>2, <1>3, <1>4, <1>5, <1>7, AdaptsFurther DEF Adapting
<1>9. cache' \in [Providers -> Keys \cup {Absent}]
  BY <1>2, <1>3 DEF StoreClient, Current, IInv
<1>10. DOMAIN h' = Requests /\ h'[r] = y /\ \A q \in Requests : q # r => h'[q] = h[q]
  BY <1>6 DEF IInv
<1>11. ASSUME NEW q \in Requests PROVE HandlerInv(h'[q], snap')
  BY <1>6, <1>8, <1>10 DEF IInv
<1> QED BY <1>6, <1>9, <1>10, <1>11 DEF IInv

LEMMA CallUpstreamPreserves ==
    ASSUME IInv, NEW r \in Requests, CallUpstream(r)
    PROVE  IInv'
<1> DEFINE x == h[r]
           c == x.route[1]
           call == [provider |-> c.provider, protocol |-> c.protocol, key |-> x.key]
           cs == Append(x.calls, call)
           y == [x EXCEPT !.pc = "waiting", !.calls = cs]
<1>1. x.pc = "call"
  BY DEF CallUpstream, At
<1>2. /\ x \in Handler /\ x.q \in Questions /\ snap \in x.seen
      /\ Unanswered(x) /\ x.path = "adapter"
      /\ x.completed = FALSE \/ ~NotAStream(x)
      /\ Len(x.calls) = 0 /\ x.route \in Seq(Candidate) /\ x.route # <<>>
      /\ Head(x.route) = c /\ c \in Candidate /\ c.protocol \in {"anthropic", "openai-chat"}
  BY <1>1, WhileAdapting DEF Adapting
<1>3. PICK s \in x.seen : FoundIn(s, x)
  BY <1>1, WhileAdapting DEF Adapting
<1>4. \E z \in x.seen : Live(z, c)
  BY <1>1, WhileAdapting DEF Adapting
<1>5. x.key \in Keys /\ (c.protocol = "anthropic" => x.key = c.key)
  BY <1>1 DEF IInv, HandlerInv, CredentialsByPhase
<1>6. call \in Call
  BY <1>2, <1>5 DEF Call, Candidate
<1>7. /\ call.provider = c.provider /\ call.protocol = c.protocol
      /\ c.protocol = "anthropic" => \E z \in x.seen : Live(z, call)
  BY <1>4, <1>5 DEF Live
<1>8. Step(r, y)
  BY <1>2 DEF CallUpstream, Current
<1> HIDE DEF call
<1>9. /\ cs \in Seq(Call) /\ Len(cs) = 1 /\ cs[1] = call /\ cs # <<>>
  <2>1. x.calls \in Seq(Call)
    BY <1>2 DEF Handler
  <2> QED BY <1>2, <1>6, <2>1, AppendProperties
<1> HIDE DEF cs
<1>10. y \in Handler
  BY <1>2, <1>9 DEF Handler, Phases
<1>11. /\ y.pc = "waiting" /\ y.q = x.q /\ y.seen = x.seen /\ y.calls = cs /\ Unanswered(y)
       /\ y.route = x.route /\ y.path = "adapter" /\ y.completed = x.completed
  BY <1>2 DEF Handler, Unanswered
<1> HIDE DEF y, c
<1>12. AnswersByPhase(y) /\ CallsByPhase(y)
  BY <1>2, <1>9, <1>11 DEF AnswersByPhase, CallsByPhase, Unanswered, NotAStream, Adapting
<1>13. FoundIn(s, y)
  <2>1. Ordered(s, cs)
    BY <1>9 DEF Ordered
  <2>2. ASSUME NEW j \in 1..Len(x.route), j # 1
        PROVE  Rank(s, c.provider) < Rank(s, x.route[j].provider)
    <3>1. 1 \in 1..Len(x.route) /\ 1 < j
      BY <1>2, <2>2, EmptySeq
    <3> QED BY <1>3, <3>1 DEF FoundIn, Ordered, c
  <2>3. ASSUME NEW i \in 1..Len(cs), NEW j \in 1..Len(x.route), j # 1
        PROVE  Rank(s, cs[i].provider) < Rank(s, x.route[j].provider)
    BY <1>7, <1>9, <2>2, <2>3
  <2> QED BY <1>3, <1>11, <2>1, <2>3 DEF FoundIn
<1>14. RouteByPhase(y)
  BY <1>2, <1>3, <1>11, <1>13 DEF RouteByPhase, FoundIn
<1>15. CredentialsByPhase(y)
  <2>1. ASSUME NEW i \in 1..Len(cs), cs[i].protocol # "openai-chat"
        PROVE  \E z \in x.seen : Live(z, cs[i])
    <3>1. cs[i] = call
      BY <1>9
    <3>2. call.protocol = "anthropic"
      BY <1>2, <1>7, <2>1, <3>1
    <3> QED BY <1>7, <3>1, <3>2
  <2>2. y.route[1].protocol \in {"anthropic", "openai-chat"}
    BY <1>2, <1>11 DEF c
  <2> QED BY <1>11, <2>1, <2>2 DEF CredentialsByPhase
<1>16. HandlerInv(y, snap)
  BY <1>2, <1>10, <1>11, <1>12, <1>14, <1>15 DEF HandlerInv
<1> QED BY <1>8, <1>16, StepPreserves

LEMMA UpstreamAnswersPreserves ==
    ASSUME IInv, NEW r \in Requests, UpstreamAnswers(r)
    PROVE  IInv'
<1> DEFINE x == h[r]
           p == Head(x.route).provider
           w == [x EXCEPT !.answer = "ok", !.answers = @ + 1, !.completed = TRUE, !.pc = "return"]
           z == Reported(w, p, "success")
           y == Replied(z)
<1>1. x.pc = "waiting"
  BY DEF UpstreamAnswers, At
<1>2. /\ x \in Handler /\ x.q \in Questions /\ snap \in x.seen
      /\ Unanswered(x) /\ x.path = "adapter" /\ x.route # <<>>
      /\ Head(x.route) \in Candidate
      /\ \A i \in 1..Len(x.calls) :
            x.calls[i].protocol # "openai-chat" => \E s \in x.seen : Live(s, x.calls[i])
  BY <1>1, WhileAdapting DEF Adapting
<1>3. PICK s \in x.seen : FoundIn(s, x)
  BY <1>1, WhileAdapting DEF Adapting
<1>4. p \in Providers
  BY <1>2 DEF Candidate
<1>5. Step(r, y)
  BY DEF UpstreamAnswers, Current
<1> HIDE DEF p
<1>6. w \in Handler
  <2>1. x.answers + 1 \in Nat
    BY <1>2 DEF Handler
  <2>2. w = [x EXCEPT !.answer = "ok", !.answers = x.answers + 1,
                      !.completed = TRUE, !.pc = "return"]
    OBVIOUS
  <2> QED BY <1>2, <2>1, <2>2 DEF Handler, Phases
<1>7. /\ w.pc = "return" /\ w.q = x.q /\ w.seen = x.seen /\ w.calls = x.calls
      /\ w.route = x.route /\ w.path = "adapter" /\ w.completed = TRUE
      /\ w.answer = "ok" /\ w.answers = 1 /\ w.reports = <<>>
  BY <1>2 DEF Handler, Unanswered
<1> HIDE DEF w
<1>8. z \in Handler /\ Len(z.reports) = 1 /\ z.reports[1].status = "success"
  BY <1>4, <1>6, <1>7, ReportedHandler, FirstReport
<1>9. /\ z.pc = "return" /\ z.q = x.q /\ z.seen = x.seen /\ z.calls = x.calls
      /\ z.route = x.route /\ z.path = "adapter" /\ z.completed = TRUE
      /\ z.answer = "ok" /\ z.answers = 1
  BY <1>6, <1>7 DEF Handler, Reported
<1>10. z.replies = {}
  BY <1>2, <1>6 DEF Handler, Reported, Unanswered, w
<1> HIDE DEF z
<1>11. y \in Handler
  BY <1>8, RepliedHandler
<1>12. /\ y.pc = "return" /\ y.q = x.q /\ y.seen = x.seen /\ y.calls = x.calls
       /\ y.route = x.route /\ y.path = "adapter" /\ y.completed = TRUE
       /\ y.answer = "ok" /\ y.answers = 1 /\ y.reports = z.reports
       /\ y.replies = {Len(x.calls)}
  BY <1>8, <1>9, <1>10 DEF Handler, Replied
<1> HIDE DEF y
<1>13. ReportedTruly(y)
  BY <1>8, <1>12 DEF ReportedTruly
<1>14. AnswersByPhase(y) /\ CallsByPhase(y)
  BY <1>12, <1>13 DEF AnswersByPhase, CallsByPhase, HookPending, Adapting
<1>15. RouteByPhase(y) /\ CredentialsByPhase(y)
  BY <1>2, <1>3, <1>12 DEF RouteByPhase, CredentialsByPhase, Routing, Adapting, FoundIn
<1>16. HandlerInv(y, snap)
  BY <1>2, <1>11, <1>12, <1>14, <1>15 DEF HandlerInv
<1> QED BY <1>5, <1>16, StepPreserves

---------------------------------------------------------------------------
(* The specification *)

\* A request in progress sees the snapshot that a reload installs.
LEMMA SeesReload ==
    ASSUME NEW x, NEW current, HandlerInv(x, current), NEW s \in Snapshots
    PROVE  HandlerInv([x EXCEPT !.seen = @ \cup {s}], s)
<1> DEFINE y == [x EXCEPT !.seen = @ \cup {s}]
<1>1. x \in Handler
  BY DEF HandlerInv
<1>2. y \in Handler
  <2>1. x.seen \cup {s} \in SUBSET Snapshots
    BY <1>1 DEF Handler
  <2>2. y = [x EXCEPT !.seen = x.seen \cup {s}]
    OBVIOUS
  <2> QED BY <1>1, <2>1, <2>2 DEF Handler
<1>3. /\ y.seen = x.seen \cup {s}
      /\ y.pc = x.pc /\ y.q = x.q /\ y.route = x.route /\ y.pm = x.pm /\ y.path = x.path
      /\ y.key = x.key /\ y.completed = x.completed /\ y.hookErr = x.hookErr
      /\ y.answer = x.answer /\ y.answers = x.answers /\ y.calls = x.calls
      /\ y.replies = x.replies /\ y.reports = x.reports
  BY <1>1 DEF Handler
<1> HIDE DEF y
<1>4. AnswersByPhase(y)
  <2>1. AnswersByPhase(x)
    BY DEF HandlerInv
  <2> QED BY <1>3, <2>1 DEF AnswersByPhase, Unanswered, HookPending, NotAStream, ReportedTruly
<1>5. CallsByPhase(y)
  BY <1>3 DEF HandlerInv, CallsByPhase
<1>6. \A z : FoundIn(z, x) => FoundIn(z, y)
  BY <1>3 DEF FoundIn
<1>7. RouteByPhase(y)
  <2>1. RouteByPhase(x)
    BY DEF HandlerInv
  <2> QED BY <1>3, <1>6, <2>1 DEF RouteByPhase
<1>8. CredentialsByPhase(y)
  <2>1. CredentialsByPhase(x)
    BY DEF HandlerInv
  <2> QED BY <1>3, <2>1 DEF CredentialsByPhase
<1>9. (y.pc # "idle" => y.q \in Questions) /\ s \in y.seen
  BY <1>3 DEF HandlerInv
<1>10. HandlerInv(y, s)
  BY <1>2, <1>4, <1>5, <1>7, <1>8, <1>9 DEF HandlerInv
<1> QED BY <1>10 DEF y

LEMMA ReloadPreserves ==
    ASSUME IInv, NEW s \in Reloads, Reload(s)
    PROVE  IInv'
<1>1. snap' = s /\ cache' = cache /\ s \in Snapshots
  BY DEF Reload, Snapshots
<1>2. DOMAIN h' = Requests
  BY DEF Reload
<1>3. ASSUME NEW r \in Requests PROVE HandlerInv(h'[r], s)
  <2>1. HandlerInv(h[r], snap)
    BY DEF IInv
  <2>2. CASE InProgress(r)
    <3>1. h'[r] = [h[r] EXCEPT !.seen = @ \cup {s}]
      BY <2>2 DEF Reload
    <3> QED BY <1>1, <2>1, <3>1, SeesReload
  <2>3. CASE ~InProgress(r)
    <3>1. h'[r] = h[r]
      BY <2>3 DEF Reload
    <3>2. h[r].pc \in {"idle", "done"}
      BY <2>3 DEF InProgress, At
    <3> QED BY <2>1, <3>1, <3>2 DEF HandlerInv
  <2> QED BY <2>2, <2>3
<1> QED BY <1>1, <1>2, <1>3 DEF IInv

LEMMA InitIInv == Init => IInv
<1> SUFFICES ASSUME Init PROVE IInv
  OBVIOUS
<1>1. <<>> \in Seq(Candidate) /\ <<>> \in Seq(Call) /\ <<>> \in Seq(Report) /\ Len(<<>>) = 0
  BY EmptySeq
<1>2. Idle \in Handler
  BY <1>1 DEF Handler, Idle, Phases, Snapshots
<1>3. HandlerInv(Idle, snap)
  BY <1>1, <1>2 DEF HandlerInv, AnswersByPhase, CallsByPhase, RouteByPhase, CredentialsByPhase,
                    Unanswered, Routing, Adapting, Idle
<1> QED BY <1>3 DEF Init, IInv, Snapshots

LEMMA NextIInv == IInv /\ [Next]_vars => IInv'
<1> SUFFICES ASSUME IInv, [Next]_vars PROVE IInv'
  OBVIOUS
<1>1. ASSUME NEW r \in Requests, Serve(r) PROVE IInv'
  <2>1. CASE Resolve(r)
    BY <2>1, ResolvePreserves
  <2>2. CASE Filter(r)
    BY <2>2, FilterPreserves
  <2>3. CASE NoAdapterPath(r)
    BY <2>3, EndedAtDispatch DEF NoAdapterPath
  <2>4. CASE OpenPassthrough(r)
    BY <2>4, OpenPassthroughPreserves
  <2>5. CASE SkipCandidate(r)
    BY <2>5, GiveUpPreserves DEF SkipCandidate
  <2>6. CASE Attempt(r)
    BY <2>6, AttemptPreserves
  <2>7. CASE ConnectFails(r)
    BY <2>7, GiveUpPreserves DEF ConnectFails
  <2>8. CASE \E status \in {"ok", "error"} : Forward(r, status)
    BY <2>8, ForwardPreserves
  <2>9. CASE CopyEnds(r)
    BY <2>9, CopyEndsPreserves
  <2>10. CASE PassthroughReturns(r)
    BY <2>10, PassthroughReturnsPreserves
  <2>11. CASE OpenAdapter(r)
    BY <2>11, OpenAdapterPreserves
  <2>12. CASE Convert(r)
    BY <2>12, ConvertPreserves
  <2>13. CASE LookupClient(r)
    BY <2>13, LookupClientPreserves
  <2>14. CASE BuildClient(r)
    BY <2>14, BuildClientPreserves
  <2>15. CASE StoreClient(r)
    BY <2>15, StoreClientPreserves
  <2>16. CASE CallUpstream(r)
    BY <2>16, CallUpstreamPreserves
  <2>17. CASE UpstreamFails(r)
    BY <2>17, FailsPreserves DEF UpstreamFails, At, Adapting
  <2>18. CASE UpstreamAnswers(r)
    BY <2>18, UpstreamAnswersPreserves
  <2>19. CASE AdapterReturns(r)
    BY <2>19, AdapterReturnsPreserves
  <2> QED BY <1>1, <2>1, <2>2, <2>3, <2>4, <2>5, <2>6, <2>7, <2>8, <2>9, <2>10, <2>11, <2>12,
             <2>13, <2>14, <2>15, <2>16, <2>17, <2>18, <2>19 DEF Serve
<1>2. ASSUME NEW r \in Requests, NEW q \in Questions, Receive(r, q) PROVE IInv'
  BY <1>2, ReceivePreserves
<1>3. ASSUME NEW s \in Reloads, Reload(s) PROVE IInv'
  BY <1>3, ReloadPreserves
<1>4. CASE UNCHANGED vars
  BY <1>4 DEF vars, IInv
<1> QED BY <1>1, <1>2, <1>3, <1>4 DEF Next

LEMMA Invariance == Spec => []IInv
<1>1. Init => IInv
  BY InitIInv
<1>2. IInv /\ [Next]_vars => IInv'
  BY NextIInv
<1> QED BY <1>1, <1>2, PTL DEF Spec

---------------------------------------------------------------------------
(* Theorems *)

\* The snapshot, the cache and every handler stay within their types.
THEOREM TypeCorrect == Spec => []TypeOK
<1>1. IInv => TypeOK
  BY DEF IInv, TypeOK, HandlerInv
<1> QED BY <1>1, Invariance, PTL

\* Every request gets exactly one response, on each way through the handlers.
THEOREM OneAnswer == Spec => []AnsweredOnce
<1>1. IInv => AnsweredOnce
  <2> SUFFICES ASSUME IInv, NEW r \in Requests
               PROVE  /\ h[r].answers = (IF h[r].answer = "none" THEN 0 ELSE 1)
                      /\ At(r, "done") => h[r].answers = 1
    BY DEF AnsweredOnce
  <2>1. h[r] \in Handler /\ AnswersByPhase(h[r])
    BY DEF IInv, HandlerInv
  <2>2. h[r].pc \in {"idle", "resolve", "filter", "dispatch"} \cup {"attempt", "sent"}
                    \cup {"copy"} \cup Adapting \cup {"return"} \cup {"done"}
    BY <2>1 DEF Handler, Phases, Adapting
  <2> QED BY <2>1, <2>2 DEF AnswersByPhase, Unanswered, At
<1> QED BY <1>1, Invariance, PTL

\* A dispatched request that is not a stream is reported once, and truly.
THEOREM TrueReports == Spec => []ReportedAsAnswered
<1>1. IInv => ReportedAsAnswered
  <2> SUFFICES ASSUME IInv, NEW r \in Requests, At(r, "done"), h[r].path # "none",
                      ~h[r].q.stream
               PROVE  /\ Len(h[r].reports) = 1
                      /\ (h[r].reports[1].status = "success") <=> (h[r].answer = "ok")
    BY DEF ReportedAsAnswered
  <2>1. AnswersByPhase(h[r]) /\ h[r].q \in Questions
    BY DEF IInv, HandlerInv, At
  <2>2. NotAStream(h[r])
    BY <2>1 DEF Questions, NotAStream
  <2> QED BY <2>1, <2>2 DEF AnswersByPhase, ReportedTruly, At
<1> QED BY <1>1, Invariance, PTL

\* Falling back repeats no work: only the last call may have got a reply, and
\* the calls go down the offers of one snapshot.
THEOREM FallbackInOrder == Spec => []FallbackOnlyUnanswered
<1>1. IInv => FallbackOnlyUnanswered
  <2> SUFFICES ASSUME IInv, NEW r \in Requests
               PROVE  /\ h[r].replies \subseteq {Len(h[r].calls)}
                      /\ h[r].calls # <<>> =>
                            \E s \in h[r].seen : \A i, j \in DOMAIN h[r].calls :
                                i < j => Rank(s, h[r].calls[i].provider)
                                         < Rank(s, h[r].calls[j].provider)
    BY DEF FallbackOnlyUnanswered
  <2>1. h[r].calls \in Seq(Call) /\ CallsByPhase(h[r]) /\ RouteByPhase(h[r])
    BY DEF IInv, HandlerInv, Handler
  <2>2. DOMAIN h[r].calls = 1..Len(h[r].calls)
    BY <2>1, LenProperties
  <2> QED BY <2>1, <2>2 DEF CallsByPhase, RouteByPhase, Ordered
<1> QED BY <1>1, Invariance, PTL

\* No reload makes the passthrough or the Anthropic path call a provider with
\* credentials it had in no snapshot since the request arrived.
THEOREM CredentialsLive == Spec => []DirectCredentialsLive
<1>1. IInv => DirectCredentialsLive
  <2> SUFFICES ASSUME IInv, NEW r \in Requests, NEW i \in DOMAIN h[r].calls,
                      h[r].calls[i].protocol # "openai-chat"
               PROVE  WasLive(r, h[r].calls[i])
    BY DEF DirectCredentialsLive
  <2>1. h[r].calls \in Seq(Call) /\ CredentialsByPhase(h[r])
    BY DEF IInv, HandlerInv, Handler
  <2>2. i \in 1..Len(h[r].calls)
    BY <2>1, LenProperties
  <2> QED BY <2>1, <2>2 DEF CredentialsByPhase, Live, WasLive
<1> QED BY <1>1, Invariance, PTL
=============================================================================
