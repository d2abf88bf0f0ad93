------------------------------ MODULE ToolLoop ------------------------------
(* The tools the bridge runs itself within one request: the injected searches  *)
(* and the visual tools.  The server offers them to the model, chooses the     *)
(* loop that answers their calls, and asks the upstream again with the results *)
(* until the model asks for none of them; the client must see neither the      *)
(* calls nor the images a text-only model cannot take.                         *)
EXTENDS ToolChunks, Selections, FiniteSets

CONSTANTS
    Settings,     \* the requests: protocol, stream, mode, keys, visual, rounds,
                  \* content, and the texts the model may write as arguments
    MaxCalls      \* calls in one answer

Protocols == {"anthropic", "openai-chat", "google-genai"}

\* the rounds are a positive number by default (config.go), arguments are objects;
\* a message holds texts (every other block is passed on like one), images, and
\* results of tools with texts and images
Parts == {[type |-> "text"]} \union [type : {"image"}, data : STRING]
Blocks == Parts \union [type : {"tool_result"}, content : Seq(Parts)]

ASSUME SettingsAssumption ==
    \A s \in Settings :
        /\ s.content \in Seq(Blocks)
        /\ s.protocol \in Protocols /\ s.stream \in BOOLEAN
        /\ s.rounds \in Nat \ {0}
        /\ \A text \in s.texts : text \in Seq(STRING) /\ WholeObject(text)
ASSUME MaxCallsAssumption == MaxCalls \in Nat

SearchTools == {"tavily_search", "firecrawl_fetch"}
VisualTools == {"visual_brief", "visual_qa"}
Loops == {"direct", "messages", "chat", "chat stream", "google", "visual"}

VARIABLES
    setting,   \* the request and the configuration that holds for its model
    phase,     \* "start", "ask" while the upstream is asked, "done"
    loop,      \* the loop chosen for the request
    sent,      \* the content of the upstream's first request
    images,    \* the images taken out of it, in the order of their labels
    turns,     \* the rounds added to the request: calls and their results
    spent,     \* the visual loop's aggregatedUsage, and whether there is any
    asked,     \* history: every call the model wrote, round by round
    ran,       \* history: what the bridge ran
    outcome    \* what the request came to

vars == <<setting, phase, loop, sent, images, turns, spent, asked, ran, outcome>>

(* --------------------------------- images --------------------------------- *)
Text == [type |-> "text"]
Label(n) == [type |-> "label", number |-> n]
Image(d) == [type |-> "image", data |-> d]
Result(content) == [type |-> "tool_result", content |-> content]
NoData == "no data"

HasImage(content) ==
    \E i \in DOMAIN content :
        \/ content[i].type = "image"
        \/ /\ content[i].type = "tool_result"
           /\ \E j \in DOMAIN content[i].content : content[i].content[j].type = "image"

\* one block: an image that can be read becomes a label with its number
PrepareImage(state, block) ==
    IF block.type # "image" THEN [state EXCEPT !.content = Append(@, block)]
    ELSE IF block.data = NoData THEN [state EXCEPT !.content = Append(@, Text)]
    ELSE [content |-> Append(state.content, Label(Len(state.images) + 1)),
          images  |-> Append(state.images, block.data)]

\* after each part of a tool's result
PartsUpTo(state, parts) ==
    LET after[n \in 0 .. Len(parts)] ==
            IF n = 0 THEN state ELSE PrepareImage(after[n - 1], parts[n])
    IN  after

PrepareParts(parts, taken) ==
    PartsUpTo([content |-> <<>>, images |-> taken], parts)[Len(parts)]

\* Mutant: the labels of a tool result start again at one
PrepareBlockApart(state, block) ==
    IF block.type # "tool_result" THEN PrepareImage(state, block)
    ELSE LET in == PrepareParts(block.content, <<>>)
         IN  [content |-> Append(state.content, Result(in.content)),
              images  |-> state.images \o in.images]

PrepareBlock(state, block) ==
    IF block.type # "tool_result" THEN PrepareImage(state, block)
    ELSE LET in == PrepareParts(block.content, state.images)
         IN  [content |-> Append(state.content, Result(in.content)), images |-> in.images]

\* after each block of the message
PreparedUpTo(content) ==
    LET after[n \in 0 .. Len(content)] ==
            IF n = 0 THEN [content |-> <<>>, images |-> <<>>]
            ELSE PrepareBlock(after[n - 1], content[n])
    IN  after

Prepared(content) == PreparedUpTo(content)[Len(content)]

\* Anthropic streams: an image that cannot be read is dropped, and a tool
\* result keeps its images
StripAnthropicBlock(state, block) ==
    IF block.type = "image" /\ block.data = NoData THEN state
    ELSE PrepareImage(state, block)

StripAnthropic(content) ==
    FoldLeft(StripAnthropicBlock, [content |-> <<>>, images |-> <<>>], content).content

\* Chat streams: every image part gets a number; results carry no image there
StripChatBlock(state, block) ==
    CASE block.type = "image" ->
            [content |-> Append(state.content, Label(state.number)),
             number  |-> state.number + 1]
      [] OTHER -> [state EXCEPT !.content = Append(@, block)]

StripChat(content) ==
    FoldLeft(StripChatBlock, [content |-> <<>>, number |-> 1], content).content

(* ------------------------------- dispatching ------------------------------ *)
\* web search tools are put in by the bridge: the mode asks for it and a key is there
Injected(s) == s.mode = "injected" /\ s.keys # {}

\* the tools the model may call: the client's own, the injected, the visual
Offered(s) ==
    {"lookup"}
    \union (IF Injected(s) THEN {"tavily_search"} ELSE {})
    \union (IF Injected(s) /\ "firecrawl" \in s.keys THEN {"firecrawl_fetch"} ELSE {})
    \union (IF s.visual # "off" THEN VisualTools ELSE {})

\* wrapWithVisual: the vision model's client must be found
VisualWrapped(s) == s.visual = "ready"

\* the loop of a request that is answered at once
CreateLoop(s) ==
    IF VisualWrapped(s) THEN "visual"
    ELSE IF ~Injected(s) THEN "direct"
    ELSE CASE s.protocol = "anthropic"    -> "messages"
           [] s.protocol = "openai-chat"  -> "chat"
           [] s.protocol = "google-genai" -> "google"

\* the loop of a streamed request: an Anthropic stream is opened on the client
\* itself, whatever the search mode, and is only visual if it has an image
StreamLoop(s) ==
    CASE s.protocol = "anthropic" ->
            IF VisualWrapped(s) /\ HasImage(s.content) THEN "visual" ELSE "direct"
      [] s.protocol = "openai-chat" ->
            IF VisualWrapped(s) THEN "visual"
            ELSE IF Injected(s) THEN "chat stream" ELSE "direct"
      [] s.protocol = "google-genai" ->
            IF VisualWrapped(s) THEN "visual"
            ELSE IF Injected(s) THEN "google" ELSE "direct"

ChosenLoop(s) == IF s.stream THEN StreamLoop(s) ELSE CreateLoop(s)

\* what the upstream gets when no visual loop prepares the request
StrippedContent(s) ==
    IF ~s.stream \/ s.visual = "off" THEN s.content
    ELSE CASE s.protocol = "anthropic"   -> StripAnthropic(s.content)
           [] s.protocol = "openai-chat" -> StripChat(s.content)
           [] OTHER                      -> s.content

Dispatch ==
    /\ phase = "start"
    /\ phase' = "ask"
    /\ loop' = ChosenLoop(setting)
    /\ LET prepared == Prepared(setting.content)
       IN  IF loop' = "visual"
           THEN sent' = prepared.content /\ images' = prepared.images
           ELSE sent' = StrippedContent(setting) /\ images' = <<>>
    /\ UNCHANGED <<setting, turns, spent, asked, ran, outcome>>

(* --------------------------------- rounds --------------------------------- *)
\* the calls a loop runs; every other call is the client's
Serves == CASE loop = "visual" -> VisualTools
            [] loop = "direct" -> {}
            [] OTHER           -> SearchTools

Ours(calls) == Selected(calls, {c \in ToSet(calls) : c.tool \in Serves})
Others(calls) == Selected(calls, {c \in ToSet(calls) : c.tool \notin Serves})

\* a visual call looks at the image it names, or else at all of them
Looked(call) ==
    IF call.ref \in DOMAIN images THEN <<images[call.ref]>> ELSE images

Execution(call) ==
    [id |-> call.id, tool |-> call.tool, text |-> call.text,
     looked |-> IF call.tool \in VisualTools THEN Looked(call) ELSE <<>>]

\* Mutant: a round is the bridge's as soon as one of its calls is
SomeOurs(calls) == Ours(calls) # <<>>

\* a round a search loop can answer alone
AllOurs(calls) == Ours(calls) # <<>> /\ Others(calls) = <<>>

\* the assistant's message and, right after it, the results of the calls run
Round(calls) ==
    [calls |-> calls, results |-> [i \in DOMAIN Ours(calls) |-> Ours(calls)[i].id]]

Run(calls) == ran' = ran \o [i \in DOMAIN Ours(calls) |-> Execution(Ours(calls)[i])]

Report(kind, calls, usage) ==
    /\ phase' = "done"
    /\ outcome' = [kind |-> kind, calls |-> calls, usage |-> usage]

\* Mutant: a last question is asked when no round is left
AskAgainLate(calls) ==
    /\ Run(calls)
    /\ turns' = Append(turns, Round(calls))
    /\ IF Len(turns') <= setting.rounds THEN UNCHANGED <<phase, outcome>>
       ELSE Report("exceeded", <<>>, 0)

\* the upstream is asked again, as long as a round is left
AskAgain(calls) ==
    /\ Run(calls)
    /\ turns' = Append(turns, Round(calls))
    /\ IF Len(turns') < setting.rounds THEN UNCHANGED <<phase, outcome>>
       ELSE Report("exceeded", <<>>, 0)

Hand(answer, calls) ==
    /\ Report("answer", calls, answer.tokens)
    /\ UNCHANGED <<turns, ran>>

\* no loop: the answer is the client's as it is
Direct(answer) == loop = "direct" /\ Hand(answer, answer.calls)

\* Orchestrator.CreateMessage: of a mixed answer the searches are run and removed
SearchMessages(answer) ==
    /\ loop = "messages"
    /\ \/ /\ answer.stop # "tool_use" \/ answer.calls = <<>>
          /\ Hand(answer, answer.calls)
       \/ /\ answer.stop = "tool_use"
          /\ Others(answer.calls) # <<>>
          /\ Run(answer.calls)
          /\ Report("answer", Others(answer.calls), answer.tokens)
          /\ UNCHANGED turns
       \/ /\ answer.stop = "tool_use"
          /\ AllOurs(answer.calls)
          /\ AskAgain(answer.calls)

\* the Chat and Google loops: of a mixed answer the searches are run, and stay
SearchCalls(answer) ==
    /\ loop \in {"chat", "chat stream", "google"}
    /\ \/ Ours(answer.calls) = <<>> /\ Hand(answer, answer.calls)
       \/ /\ Ours(answer.calls) # <<>> /\ Others(answer.calls) # <<>>
          /\ Run(answer.calls)
          /\ turns' = Append(turns, Round(answer.calls))
          /\ Report("answer", answer.calls, answer.tokens)
       \/ /\ AllOurs(answer.calls)
          /\ AskAgain(answer.calls)

\* coreUsagePresent, aggregateCoreUsage: an answer that tells no usage adds nothing
Aggregated(answer) ==
    IF answer.tokens > 0
    THEN [told |-> TRUE, tokens |-> spent.tokens + answer.tokens]
    ELSE spent

\* Mutant: an answer that tells no usage itself is returned as it is
AppliedIfTold(answer) == IF answer.tokens > 0 THEN spent'.tokens ELSE answer.tokens

\* applyCoreUsageAggregation
Applied(answer) == IF spent'.told THEN spent'.tokens ELSE answer.tokens

\* the visual loop returns an answer, with the usage of its rounds
Return(answer) ==
    /\ Report("answer", answer.calls, Applied(answer))
    /\ UNCHANGED <<turns, ran>>

\* CoreOrchestrator.CreateCore: the answer did not stop for tools, calls none, or
\* none of the visual tools; or else these are run, and a mixed answer goes
\* round again with the rest
VisualRound(answer) ==
    /\ loop = "visual"
    /\ \/ answer.stop # "tool_use" /\ Return(answer)
       \/ answer.stop = "tool_use" /\ answer.calls = <<>> /\ Return(answer)
       \/ /\ answer.stop = "tool_use" /\ answer.calls # <<>>
          /\ Ours(answer.calls) = <<>>
          /\ Return(answer)
       \/ /\ answer.stop = "tool_use" /\ Ours(answer.calls) # <<>>
          /\ AskAgain(answer.calls)

\* an upstream's answer as the chosen loop takes it; told is what the model wrote
Answer(answer, told) ==
    /\ asked' = Append(asked, [calls |-> told, stop |-> answer.stop,
                               tokens |-> answer.tokens])
    /\ spent' = IF loop = "visual" THEN Aggregated(answer) ELSE spent
    /\ \/ Direct(answer)
       \/ SearchMessages(answer)
       \/ SearchCalls(answer)
       \/ VisualRound(answer)
    /\ UNCHANGED <<setting, loop, sent, images>>

(* ------------------------------- the upstream ----------------------------- *)
Call(i, tool, argument, ref) ==
    [id |-> <<Len(asked) + 1, i>>, tool |-> tool, text |-> argument.text,
     cut |-> argument.cut, ref |-> ref]

Refs(tool) == IF tool \in VisualTools THEN 0 .. Len(images) + 1 ELSE {0}

\* the answers of at most MaxCalls calls, each with an argument and an image it names
Written(arguments) ==
    UNION {{[i \in 1 .. n |-> Call(i, pick[i][1], pick[i][2], pick[i][3])] :
              pick \in [1 .. n -> {p \in Offered(setting) \X arguments \X (0 .. Len(images) + 1) :
                                     p[3] \in Refs(p[1])}]} :
           n \in 0 .. MaxCalls}

\* Google ends an answer with calls like any other, and so may Chat; Anthropic and
\* Chat may cut an answer at its token limit, or stop for tools without a call
Stops(calls) ==
    IF setting.protocol = "google-genai" THEN {"end_turn"}
    ELSE IF calls = <<>> THEN {"end_turn", "tool_use"}
    ELSE {"tool_use", "max_tokens"}
         \union (IF setting.protocol = "openai-chat" THEN {"end_turn"} ELSE {})

\* what an answer costs; a visual loop's upstream may not tell
Costs == IF loop = "visual" THEN {0, 1} ELSE {1}

Answers(calls, told) ==
    \E stop \in Stops(told), tokens \in Costs :
        Answer([calls |-> calls, stop |-> stop, tokens |-> tokens], told)

AnswerWhole ==
    /\ phase = "ask" /\ loop # "chat stream"
    /\ \E calls \in Written({[text |-> <<>>, cut |-> <<>>]}) : Answers(calls, calls)

\* the orders of the deltas of up to MaxCalls calls, by their numbers
OrdersOf ==
    [sizes \in UNION {[1 .. n -> 2 .. MaxPieces + 1] : n \in 0 .. MaxCalls} |-> Orders(sizes)]

\* the deltas as they come in: of the calls in any order, or all calls whole in
\* one chunk without indexes
Streams(calls, pieces) ==
    LET delta(i, k) == CallDeltas(calls[i], i, pieces[i])[k]
        told(who, t) == Cardinality({u \in 1 .. t : who[u] = who[t]})
    IN  {[i \in DOMAIN calls |-> Delta(NoIndex, i, calls[i].id, calls[i].tool, calls[i].text)]}
        \union {[t \in DOMAIN who |-> delta(who[t], told(who, t))] :
                 who \in OrdersOf[[i \in DOMAIN calls |-> Len(pieces[i]) + 1]]}

\* the arguments of a streamed call with the pieces they come in
Arguments == UNION {{[text |-> t, cut |-> c] : c \in Cuts(t)} : t \in setting.texts}

AnswerStreamed ==
    /\ phase = "ask" /\ loop = "chat stream"
    /\ \E calls \in Written(Arguments), repeats \in BOOLEAN :
          LET pieces == [i \in DOMAIN calls |->
                            IF repeats THEN Snapshots(calls[i].cut) ELSE calls[i].cut]
              told   == [i \in DOMAIN calls |->
                            [id |-> calls[i].id, tool |-> calls[i].tool, text |-> calls[i].text,
                             distinct |-> repeats \/ Distinct(calls[i].cut)]]
          IN  \E stream \in Streams(calls, pieces) :
                 Answers(CollectStreamToolCalls(stream), told)

UpstreamFails ==
    /\ phase = "ask"
    /\ Report("error", <<>>, 0)
    /\ UNCHANGED <<setting, loop, sent, images, turns, spent, asked, ran>>

Init ==
    /\ setting \in Settings
    /\ phase = "start" /\ loop = "direct"
    /\ sent = <<>> /\ images = <<>> /\ turns = <<>> /\ asked = <<>> /\ ran = <<>>
    /\ spent = [told |-> FALSE, tokens |-> 0]
    /\ outcome = [kind |-> "none", calls |-> <<>>, usage |-> 0]

Next == Dispatch \/ AnswerWhole \/ AnswerStreamed \/ UpstreamFails

Spec == Init /\ [][Next]_vars
(* ------------------------------- properties ------------------------------- *)
ToolOf(calls) == [i \in DOMAIN calls |-> calls[i].tool]
IdOf(calls) == [i \in DOMAIN calls |-> calls[i].id]

\* Every variable stays in its set: a request is asked by one loop, in no more
\* rounds than it has, and ends in an answer or an error.
TypeOK ==
    /\ setting \in Settings
    /\ phase \in {"start", "ask", "done"}
    /\ loop \in Loops
    /\ outcome.kind \in {"none", "answer", "exceeded", "error"}
    /\ spent.tokens \in Nat /\ outcome.usage \in Nat
    /\ Len(turns) <= setting.rounds /\ Len(asked) <= setting.rounds
    /\ phase = "done" <=> outcome.kind # "none"

\* what a loop had to run of a round
Due(round) ==
    IF loop \in {"messages", "visual"} /\ round.stop # "tool_use" THEN <<>>
    ELSE Ours(round.calls)

\* What the bridge runs is what the model asked for: every call of a tool of its
\* loop once, in the order the model wrote them, under its id, and with the
\* arguments the model wrote.  A streamed call is put together from its pieces
\* (collectStreamToolCalls); arguments with a piece that repeats the end of what
\* came before, or starts with all of it, are left out of this promise: the code
\* drops the one and takes the other for the whole.
RanAsAsked ==
    LET due == FlattenSeq([r \in DOMAIN asked |-> Due(asked[r])])
    IN  /\ IdOf(ran) = IdOf(due)
        /\ ToolOf(ran) = ToolOf(due)
        /\ loop = "chat stream" =>
              \A i \in DOMAIN ran : due[i].distinct => ran[i].text = due[i].text

\* The request that goes upstream again holds, for each round, the model's calls
\* and right behind them one result for each call that was run, in their order:
\* a provider rejects a call without its result.
ResultsFollowCalls ==
    \A r \in DOMAIN turns :
        /\ IdOf(turns[r].calls) = IdOf(asked[r].calls)
        /\ turns[r].results = IdOf(Ours(asked[r].calls))

\* A round that a search loop does not hand to the client, because it asks again
\* or gives up, holds no call of the client's: with ResultsFollowCalls, every call
\* a search loop sends upstream has its result.
SearchRoundsWhole ==
    loop # "visual" =>
        \A r \in DOMAIN asked :
            r < Len(asked) \/ outcome.kind # "answer" => Others(asked[r].calls) = <<>>

\* The client gets the calls of the last answer, none lost and in their order;
\* the messages loop takes its searches out of an answer that stopped for tools.
\* The Chat and Google loops hand a mixed answer on whole, with the searches they
\* ran, but no answer of searches alone.  The visual loop hands on none of the
\* calls it had to run.
ClientGetsLast ==
    outcome.kind = "answer" =>
        LET last    == asked[Len(asked)]
            stopped == last.stop = "tool_use"
        IN  /\ IdOf(outcome.calls) =
                   IdOf(IF loop = "messages" /\ stopped THEN Others(last.calls) ELSE last.calls)
            /\ loop \in {"chat", "chat stream", "google"} => ~AllOurs(last.calls)
            /\ loop = "visual" /\ stopped => Ours(last.calls) = <<>>

\* Who answers a call: in each turn that goes upstream the results stand behind
\* their calls; a search loop goes on only from rounds it can answer alone; and of
\* the last answer the client gets every call, or every one the loop has left it.
\* Two wishes are not part of it, and do not hold: SearchesStayHere, above all for
\* the mixed answers of Chat and Google, and NoCallForgotten for the mixed rounds of
\* the visual loop.
CallsAnswered == ResultsFollowCalls /\ SearchRoundsWhole /\ ClientGetsLast

\* A request gives up only when all its rounds were spent on calls of its loop,
\* and never asks the upstream again after that: a model that keeps searching is
\* stopped after the configured rounds.
RoundsSpent ==
    /\ outcome.kind = "exceeded" =>
          /\ Len(asked) = setting.rounds
          /\ \A r \in DOMAIN asked : Due(asked[r]) # <<>>
    /\ (phase = "ask" => Len(asked) < setting.rounds)

\* the tokens of all rounds
Tokens(rounds) ==
    LET sum[n \in 0 .. Len(rounds)] == IF n = 0 THEN 0 ELSE sum[n - 1] + rounds[n].tokens
    IN  sum[Len(rounds)]

\* By whichever exit an answer leaves the visual loop, and whichever of its rounds
\* told their usage, the usage it shows is that of all the rounds: the client and
\* the statistics see one request (TestCoreOrchestratorAggregatesUsageAcrossRounds).
UsageWhole ==
    (loop = "visual" /\ outcome.kind = "answer") =>
        outcome.usage = Tokens(asked)

\* the numbers on the labels the model reads, in order
NumberOn(part) == IF part.type = "label" THEN <<part.number>> ELSE <<>>
NumbersIn(parts) == FlattenSeq([j \in DOMAIN parts |-> NumberOn(parts[j])])
NumbersOn(block) ==
    IF block.type = "tool_result" THEN NumbersIn(block.content) ELSE NumberOn(block)
Labels(content) == FlattenSeq([i \in DOMAIN content |-> NumbersOn(content[i])])

\* the images a client sent that can be read, those inside a tool result too
DataOf(part) == IF part.type = "image" THEN part.data ELSE NoData
DataIn(block) ==
    IF block.type = "tool_result"
    THEN [j \in DOMAIN block.content |-> DataOf(block.content[j])]
    ELSE <<DataOf(block)>>
Readable(content) ==
    Selected(FlattenSeq([i \in DOMAIN content |-> DataIn(content[i])]), STRING \ {NoData})

\* The visual loop sends its text-only model no image but labels numbered in the
\* order of the images, and a call that names the k-th label looks at the k-th
\* image the client sent, wherever it stood.
ImagesNamed ==
    loop = "visual" =>
        /\ ~HasImage(sent)
        /\ images = Readable(setting.content)
        /\ phase # "start" => Labels(sent) = [k \in DOMAIN images |-> k]
        /\ \A r \in DOMAIN asked : \A i \in DOMAIN asked[r].calls :
              LET call == asked[r].calls[i]
              IN  (call.tool \in VisualTools /\ call.ref \in DOMAIN Readable(setting.content)) =>
                     \A j \in DOMAIN ran :
                        ran[j].id = call.id =>
                           ran[j].looked = <<Readable(setting.content)[call.ref]>>

\* What the documents say of the injected mode, that the bridge runs the searches
\* and the client never sees their calls.  This does not hold: the Chat and Google
\* loops hand a mixed answer on whole, the visual loop runs no search, and a streamed
\* Anthropic request has no loop.
SearchesStayHere ==
    (/\ Injected(setting)
     /\ outcome.kind = "answer"
     /\ asked[Len(asked)].stop # "max_tokens") =>
        \A i \in DOMAIN outcome.calls : outcome.calls[i].tool \notin SearchTools

\* What a comment of the visual loop expects of a mixed round, that the client's
\* calls are processed on the next one.  This does not hold: the round goes
\* upstream without their results, and the client never sees them.
NoCallForgotten ==
    outcome.kind = "answer" =>
        \A r \in DOMAIN asked : r < Len(asked) => Others(asked[r].calls) = <<>>
=============================================================================
