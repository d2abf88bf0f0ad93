------------------------------ MODULE ToolSpecs ------------------------------
(* Codex tools as functions of what is offered and called: the tools sent     *)
(* upstream, the tool map kept with the request, and the reconstruction of    *)
(* the client's items.                                                        *)
EXTENDS Naturals, Sequences, FiniteSets, SequencesExt, TLC

NestedKinds == {"nested_oneof", "nested_anyof"}

NoArgs == <<>>
Broken == [invalid |-> <<"cut">>]
Valid(args) == "invalid" \notin DOMAIN args
Text(v) == [text |-> v]
Patch(ops) == [patch |-> ops]

-----------------------------------------------------------------------------
(* Offers *)

\* A client's tool; fields and required are its schema's, subs a namespace's
\* tools, which are taken for functions whatever they are.
Offer(type, name) ==
    [type |-> type, name |-> name, subs |-> <<>>, fields |-> {}, required |-> {}]
Function(name, fields, required) ==
    [Offer("function", name) EXCEPT !.fields = fields, !.required = required]
Namespace(name, subs) == [Offer("namespace", name) EXCEPT !.subs = subs]

CallType(offer) ==
    CASE offer.type \in {"function", "web_search"} -> "function_call"
      [] offer.type = "local_shell" -> "local_shell_call"
      [] OTHER -> "custom_tool_call"

\* AnnotateCoreTool.
ToolSpec(kind, name, ns) == [kind |-> kind, name |-> name, ns |-> ns]
NoSpec == ToolSpec("", <<>>, <<>>)
Schema(form, branches) == [form |-> form, branches |-> branches]
CoreTool(name, spec, schema) == [name |-> name, spec |-> spec, schema |-> schema]
Branch(tool) == [action |-> tool.name, fields |-> tool.fields, required |-> tool.required]

\* NamespacedToolName.
Namespaced(ns, name) == ns \o name

\* Mutant: the tools of a namespace are kept under their upstream name.
BuildFlatWhole(ns, subs) ==
    [k \in DOMAIN subs |->
       CoreTool(Namespaced(ns, subs[k].name), ToolSpec("function", Namespaced(ns, subs[k].name), ns),
                Schema("object", <<Branch(subs[k])>>))]

BuildFlat(ns, subs) ==
    [k \in DOMAIN subs |->
       CoreTool(Namespaced(ns, subs[k].name), ToolSpec("function", subs[k].name, ns),
                Schema("object", <<Branch(subs[k])>>))]

BuildNested(strategy, ns, subs) ==
    <<CoreTool(ns, ToolSpec(strategy, ns, ns),
               Schema(strategy, [k \in DOMAIN subs |-> Branch(subs[k])]))>>

BuildNamespaceTools(strategy, ns, subs) ==
    CASE subs = <<>> -> <<>>
      [] strategy = "flat" -> BuildFlat(ns, subs)
      [] OTHER -> BuildNested(strategy, ns, subs)

PatchActions == <<"add_file", "delete_file", "update_file", "replace_file", "batch">>

ApplyPatchProxyTools(name) ==
    [k \in DOMAIN PatchActions |->
       CoreTool(Append(name, PatchActions[k]), ToolSpec("apply_patch", name, <<>>),
                Schema(IF PatchActions[k] = "batch" THEN "batch" ELSE "operation", <<>>))]

\* A custom tool is told by its name and its grammar, which is its type here;
\* a hosted tool has no metadata, and its name is its type.
ConvertTool(setting, o) ==
    CASE o.type = "function" ->
           <<CoreTool(o.name, ToolSpec("function", o.name, <<>>), Schema("object", <<Branch(o)>>))>>
      [] o.type = "web_search" ->
           <<CoreTool(o.name, NoSpec, Schema("object", <<Branch(o)>>))>>
      [] o.type = "namespace" -> BuildNamespaceTools(setting.strategy, o.name, o.subs)
      [] o.type = "apply_patch" /\ setting.proxy -> ApplyPatchProxyTools(o.name)
      [] o.type \in {"exec", "local_shell"} ->
           <<CoreTool(o.name, ToolSpec(o.type, o.name, <<>>), Schema(o.type, <<>>))>>
      [] OTHER -> <<CoreTool(o.name, ToolSpec("raw", o.name, <<>>), Schema("input", <<>>))>>

\* A tool whose name is taken is dropped, or takes the place of one without a
\* namespace when it has one.
Deduplicated(seen, t) ==
    LET at == SelectInSeq(seen, LAMBDA s : s.name = t.name) IN
    CASE at = 0 -> Append(seen, t)
      [] at # 0 /\ seen[at].spec.ns = <<>> /\ t.spec.ns # <<>> -> [seen EXCEPT ![at] = t]
      [] OTHER -> seen

FlattenTools(setting, offers) ==
    FoldLeft(Deduplicated, <<>>,
             FlattenSeq([k \in DOMAIN offers |-> ConvertTool(setting, offers[k])]))

-----------------------------------------------------------------------------
(* The arguments a model may write for a schema *)

ArgumentsOf(fields, required) ==
    UNION {[keys -> {<<"v">>}] : keys \in {s \in SUBSET fields : required \subseteq s}}

Inlined(action, o) == [action |-> action] @@ o
Wrapped(action, o) == [action |-> action, params |-> o]

\* flattenSchemaComposition: Anthropic is sent one object that has the fields
\* of every branch and requires none.
Merged(branches) ==
    [k \in DOMAIN branches |->
       [branches[k] EXCEPT !.fields = UNION {b.fields : b \in ToSet(branches)}, !.required = {}]]
SentBranches(upstream, schema) ==
    IF upstream = "anthropic" /\ schema.form \in NestedKinds THEN Merged(schema.branches)
    ELSE schema.branches

Operations == [op : {"add_file", "update_file"}, path : {<<"p">>, <<>>}]

Arguments(upstream, schema) ==
    LET branches == ToSet(SentBranches(upstream, schema))
        Filled(Form(_, _)) ==
            UNION {{Form(b.action, o) : o \in ArgumentsOf(b.fields, b.required)} : b \in branches}
    IN CASE schema.form = "object" -> Filled(LAMBDA a, o : o)
         [] schema.form = "nested_oneof" -> Filled(Inlined)
         [] schema.form = "nested_anyof" -> Filled(Wrapped)
         [] schema.form = "operation" -> {[path |-> p] : p \in {<<"p">>, <<>>}}
         [] schema.form = "batch" -> {[operations |-> ops] : ops \in Operations \X Operations}
         [] schema.form = "exec" -> {[source |-> Text("v")]}
         [] schema.form = "local_shell" -> {[command |-> Text("v")]}
         [] OTHER -> {[input |-> Text("v")]}

\* A nested tool's arguments in the other form, or without an action.
Misformed(schema) ==
    CASE schema.form = "nested_oneof" -> {Wrapped(b.action, NoArgs) : b \in ToSet(schema.branches)}
      [] schema.form = "nested_anyof" -> {NoArgs} \cup {Inlined(b.action, NoArgs) : b \in ToSet(schema.branches)}
      [] OTHER -> {}

-----------------------------------------------------------------------------
(* The tool map *)

Actions(t) == IF t.spec.kind \in NestedKinds THEN {b.action : b \in ToSet(t.schema.branches)} ELSE {}

BuildToolMap(tools) ==
    [name \in {t.name : t \in {s \in ToSet(tools) : s.spec # NoSpec}} |->
       LET t == tools[SelectInSeq(tools, LAMBDA s : s.name = name)]
       IN [kind |-> t.spec.kind, name |-> t.spec.name, ns |-> t.spec.ns, actions |-> Actions(t)]]

Wrappers(map, action) ==
    {n \in DOMAIN map : map[n].kind \in NestedKinds /\ action \in map[n].actions}

\* The namespace of a bare action, <<>> when there is none or more than one.
LookupNamespaceAction(map, action) ==
    LET namespaces == {map[n].ns : n \in Wrappers(map, action)}
    IN IF action \notin DOMAIN map /\ Cardinality(namespaces) = 1
       THEN CHOOSE ns \in namespaces : TRUE ELSE <<>>

-----------------------------------------------------------------------------
(* A model's call, decoded *)

\* DecodeNestedCall, <<>> for the action that is not there.
NestedAction(args) == IF "action" \in DOMAIN args THEN args.action ELSE <<>>
NestedParams(kind, args) ==
    CASE kind = "nested_oneof" -> [key \in DOMAIN args \ {"action"} |-> args[key]]
      [] "params" \in DOMAIN args -> args.params
      [] OTHER -> NoArgs

Block(name, ns, args) == [name |-> name, ns |-> ns, args |-> args]

DecodedParams(kind, args) ==
    IF kind = "nested_anyof" /\ NestedParams(kind, args) = NoArgs
    THEN NestedParams("nested_oneof", args) ELSE NestedParams(kind, args)

CoreToolCallFromProvider(map, name, input) ==
    LET args == IF Valid(input) THEN input ELSE NoArgs IN
    CASE name \notin DOMAIN map -> Block(name, LookupNamespaceAction(map, name), args)
      [] name \in DOMAIN map /\ map[name].kind \in NestedKinds ->
           IF NestedAction(args) = <<>> THEN Block(name, map[name].ns, args)
           ELSE Block(NestedAction(args), map[name].ns, DecodedParams(map[name].kind, args))
      [] OTHER -> Block(name, map[name].ns, args)

-----------------------------------------------------------------------------
(* The text of a custom tool's call *)

InputFromRaw(args) == IF "input" \in DOMAIN args THEN args.input ELSE args

\* appendApplyPatchOperation: an operation without a path is left out.
Written(ops) == SelectSeq(ops, LAMBDA o : o.path # <<>>)

\* A call of one of the five patch tools, as operations.
Described(action, args) ==
    CASE action = "batch" /\ "operations" \in DOMAIN args -> args.operations
      [] action # "batch" /\ "path" \in DOMAIN args -> <<[op |-> action, path |-> args.path]>>
      [] OTHER -> <<>>

\* Mutant: a batch is the patch of its first operation.
RebuildApplyPatchFirst(action, args) ==
    LET ops == Written(Described(action, args))
    IN IF ops = <<>> THEN args ELSE Patch(SubSeq(ops, 1, 1))

\* Arguments that describe nothing are passed on as they are.
RebuildApplyPatch(action, args) ==
    LET ops == Written(Described(action, args)) IN IF ops = <<>> THEN args ELSE Patch(ops)

\* localShellActionFromRaw.
ShellCommand(args) == IF "command" \in DOMAIN args THEN args.command ELSE Text("")

RebuildExec(args) == IF "source" \in DOMAIN args THEN args.source ELSE args

RebuildGrammar(name, args) ==
    CASE name[1] = "apply_patch" /\ Len(name) = 2 -> RebuildApplyPatch(name[2], args)
      [] name[1] = "exec" /\ Len(name) > 1 -> RebuildExec(args)
      [] OTHER -> InputFromRaw(args)

-----------------------------------------------------------------------------
(* The client's items *)

Item(type, name, ns, args, input) ==
    [type |-> type, name |-> name, ns |-> ns, args |-> args, input |-> input]

\* OutputItemFromBlock, for a block without a namespace of its own.  A nested
\* tool's block has one.
OutputItemFromBlock(map, name, args) ==
    IF name \notin DOMAIN map
    THEN Item("function_call", name, LookupNamespaceAction(map, name), args, args)
    ELSE LET spec == map[name] IN
         CASE spec.kind = "local_shell" -> Item("local_shell_call", <<>>, <<>>, NoArgs, ShellCommand(args))
           [] spec.kind \in {"apply_patch", "exec"} ->
                Item("custom_tool_call", spec.name, <<>>, args, RebuildGrammar(name, args))
           [] spec.kind = "raw" ->
                Item("custom_tool_call", spec.name, <<>>, args, InputFromRaw(args))
           [] OTHER -> Item("function_call", spec.name, spec.ns, args, args)

BuildToolOutputItem(map, block) ==
    IF block.ns # <<>> THEN Item("function_call", block.name, block.ns, block.args, block.args)
    ELSE OutputItemFromBlock(map, block.name, block.args)

\* On a stream the item is made from the name, and the arguments that follow
\* become its arguments and a custom tool's input.  A nested tool's item waits
\* for the action.
StreamedItem(map, name, args) ==
    IF name \in DOMAIN map /\ map[name].kind \in NestedKinds
    THEN LET action == NestedAction(args)
         IN Item("function_call", IF action = <<>> THEN name ELSE action, map[name].ns, args, args)
    ELSE LET item == OutputItemFromBlock(map, name, NoArgs) IN
         CASE item.type = "custom_tool_call" ->
                [item EXCEPT !.args = args, !.input = RebuildGrammar(name, args)]
           [] OTHER -> [item EXCEPT !.args = args]

\* Mutant: an item of a namespace is shown under its joined name.
EchoJoined(item) ==
    CASE item.type = "function_call" -> [name |-> Namespaced(item.ns, item.name), args |-> item.args]
      [] item.type = "custom_tool_call" -> [name |-> item.name, args |-> [input |-> item.input]]
      [] OTHER -> [name |-> item.name, args |-> [command |-> item.input]]

\* convertInput on the item a client sends back, a custom call with its input
\* alone: what upstream is shown as the model's own call.
Echo(item) ==
    CASE item.type = "function_call" ->
           [name |-> item.name, args |-> IF Valid(item.args) THEN item.args ELSE NoArgs]
      [] item.type = "custom_tool_call" -> [name |-> item.name, args |-> [input |-> item.input]]
      [] OTHER -> [name |-> item.name, args |-> [command |-> item.input]]
=============================================================================
