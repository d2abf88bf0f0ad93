------------------------------ MODULE ToolNames ------------------------------
(* The tools a Responses client offers, under the names an upstream model     *)
(* knows them by: namespaces flattened or nested into one tool, custom tools  *)
(* turned into functions, a patch tool into five; and the way back, from what *)
(* the model calls to the item the client is sent, and from the item in the   *)
(* client's next request to the call upstream is shown as its own.            *)
(*                                                                            *)
(* A name is the sequence of the words "_" joins, so that two pairs of        *)
(* namespace and tool may come to one name.  A JSON object is a function of   *)
(* its keys.                                                                  *)
EXTENDS ToolSpecs

CONSTANTS Offerings,    \* the lists of tools clients offer
          Strategies,   \* how namespaces are offered; the program uses "flat"
          MaxCalls,     \* bound: calls a model makes of its own
          MaxRepeats    \* bound: calls it makes after those, as its history shows them

ASSUME StrategiesAssumption == Strategies \subseteq {"flat"} \cup NestedKinds
ASSUME BoundsAssumption == MaxCalls \in Nat \ {0} /\ MaxRepeats \in Nat

VARIABLES
    setting,    \* the strategy, whether patches are split, the upstream
    offers,     \* the client's tools
    call,       \* the call the model has made and nobody answered, or NoCall
    log         \* every call, and the item the client was sent for it

vars == <<setting, offers, call, log>>

NoCall == [name |-> <<>>, args |-> NoArgs, how |-> "none"]

\* What ToCoreRequest keeps with the request: the tools and the tool map.
Tools == FlattenTools(setting, offers)
Map == BuildToolMap(Tools)

Init ==
    /\ setting \in [strategy : Strategies, proxy : BOOLEAN, upstream : {"anthropic", "other"}]
    /\ offers \in Offerings
    /\ call = NoCall
    /\ log = <<>>

-----------------------------------------------------------------------------
(* The model *)

Calls(name, args, how) ==
    /\ call = NoCall
    /\ Len(log) < MaxCalls + (IF how = "again" THEN MaxRepeats ELSE 0)
    /\ call' = [name |-> name, args |-> args, how |-> how]
    /\ UNCHANGED <<setting, offers, log>>

CallsTool ==
    \E t \in ToSet(Tools) : \E args \in Arguments(setting.upstream, t.schema) :
        Calls(t.name, args, "fits")

\* Arguments that break off, or that take the other form of nesting.
CallsBadly ==
    \E t \in ToSet(Tools) : \E args \in {Broken} \cup Misformed(t.schema) :
        Calls(t.name, args, "misfits")

\* A tool of a namespace, by its own name.
CallsBare ==
    \E o \in ToSet(offers) : \E sub \in ToSet(o.subs) :
        /\ \A t \in ToSet(Tools) : t.name # sub.name
        /\ \E args \in ArgumentsOf(sub.fields, sub.required) : Calls(sub.name, args, "bare")

\* As the history shows an earlier call.
CallsAgain ==
    \E k \in DOMAIN log : Calls(Echo(log[k].item).name, Echo(log[k].item).args, "again")

-----------------------------------------------------------------------------
(* The bridge *)

Answers(item, streamed) ==
    /\ call # NoCall
    /\ log' = Append(log, [call |-> call, item |-> item, streamed |-> streamed])
    /\ call' = NoCall
    /\ UNCHANGED <<setting, offers>>

\* The provider adapter decodes the call, then the client adapter makes an item.
AnswersWhole ==
    LET block == CoreToolCallFromProvider(Map, call.name, call.args)
    IN Answers(BuildToolOutputItem(Map, block), FALSE)

\* The item is announced with the name alone and completed with the arguments.
AnswersStreamed == Answers(StreamedItem(Map, call.name, call.args), TRUE)

Next == \/ CallsTool \/ CallsBadly \/ CallsBare \/ CallsAgain
        \/ AnswersWhole \/ AnswersStreamed

Spec == Init /\ [][Next]_vars

-----------------------------------------------------------------------------
(* What the calls mean, from the offers alone *)

\* A tool the client offered: the type of the items that call it, the name they
\* have and its namespace.
Offered ==
    {[type |-> CallType(o), name |-> IF o.type = "local_shell" THEN <<>> ELSE o.name, ns |-> <<>>] :
        o \in {p \in ToSet(offers) : p.type # "namespace"}}
    \cup UNION {{[type |-> "function_call", name |-> sub.name, ns |-> o.name] : sub \in ToSet(o.subs)} :
        o \in {p \in ToSet(offers) : p.type = "namespace"}}

Identity(item) == [type |-> item.type, name |-> item.name, ns |-> item.ns]

Nested == setting.strategy \in NestedKinds

StandsFor(id, c) ==
    CASE id.type = "local_shell_call" -> c.name = <<"local_shell">>
      [] id.type # "local_shell_call" /\ id.ns = <<>> ->
           c.name = id.name \/ (id.type = "custom_tool_call" /\ setting.proxy
                                /\ \E w \in ToSet(PatchActions) : c.name = Append(id.name, w))
      [] Nested -> c.name = id.ns /\ "action" \in DOMAIN c.args /\ c.args.action = id.name
      [] OTHER -> c.name = id.ns \o id.name

\* The only tool of its name, in or out of a namespace.
Unambiguous(name) == Cardinality({id \in Offered : id.name = name}) = 1

\* A call the model makes by the tool's upstream name comes to the client as a
\* call of a tool it offered, and one that the name stands for: on a stream,
\* and, but for the flattened tools of a namespace, in a whole answer.
OfferedNamesResolve ==
    \A k \in DOMAIN log :
        LET c == log[k].call IN
        /\ c.how = "fits"
        /\ log[k].streamed \/ Nested \/ \A id \in Offered : StandsFor(id, c) => id.ns = <<>>
        => \E id \in Offered : StandsFor(id, c) /\ Identity(log[k].item) = id

\* A bare name is taken for a namespace's tool only when one namespace has it
\* and no tool outside the namespaces goes by that name.
ActionsNeverGuessed ==
    \A k \in DOMAIN log :
        /\ log[k].call.how \in {"bare", "again"}
        /\ \A t \in ToSet(Tools) : t.name # log[k].call.name
        /\ log[k].item.ns # <<>> /\ log[k].item.name = log[k].call.name
        => Unambiguous(log[k].item.name)

\* A call comes to the client as the call of a tool it offered, and of no tool
\* that was only guessed.
CallsNameOffers == OfferedNamesResolve /\ ActionsNeverGuessed

\* A model that repeats a call as its history shows it calls the same tool: a
\* function, a raw custom tool or a tool of a nested namespace, whose name is
\* its own.
RepeatedCallsReturn ==
    \A j, k \in DOMAIN log :
        LET id == Identity(log[j].item) IN
        /\ j < k /\ log[j].call.how = "fits" /\ log[k].call.how = "again"
        /\ log[k].call.name = Echo(log[j].item).name
        /\ id \in Offered /\ Unambiguous(id.name)
        /\ id.ns # <<>> => Nested
        /\ id.type = "function_call"
             \/ \E t \in ToSet(Tools) : t.spec.kind = "raw" /\ t.name = id.name
        => Identity(log[k].item) = id

\* What a call of a custom tool says, as the model wrote it.
Meaning(c) ==
    CASE "input" \in DOMAIN c.args -> c.args.input
      [] "source" \in DOMAIN c.args -> c.args.source
      [] "command" \in DOMAIN c.args -> c.args.command
      [] "operations" \in DOMAIN c.args -> Patch(c.args.operations)
      [] OTHER -> Patch(<<[op |-> Last(c.name), path |-> c.args.path]>>)

InputWhole(kinds) ==
    \A k \in DOMAIN log :
        LET c == log[k].call IN
        /\ c.how = "fits"
        /\ \E t \in ToSet(Tools) : t.name = c.name /\ t.spec.kind \in kinds
        /\ "path" \in DOMAIN c.args => c.args.path # <<>>
        /\ "operations" \in DOMAIN c.args =>
               c.args.operations # <<>> /\ \A n \in DOMAIN c.args.operations : c.args.operations[n].path # <<>>
        => log[k].item.input = Meaning(c)

\* A custom tool's client is sent the text the model wrote, and the patch that
\* the calls of the five patch tools describe, every operation in order.
PatchesWhole == InputWhole({"raw", "apply_patch"})

\* So it is for the source of exec.  The code does not do this.
SourcesWhole == InputWhole({"exec"})
=============================================================================
