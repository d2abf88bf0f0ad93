----------------------------- MODULE SearchModes -----------------------------
(* Which web search a request is served with: the native tool of its          *)
(* provider, the injected one the bridge runs itself, or none.  At boot every *)
(* provider is resolved, those set to auto by probes that run side by side,   *)
(* then every model and route; requests read the outcome, and a reload of the *)
(* runtime builds a provider manager that has none.                           *)
EXTENDS Naturals, Sequences, FiniteSets, SequencesExt

CONSTANTS Configs,      \* the configurations a bridge may boot with
          MaxRequests   \* bound: requests that are remembered

Supports == {"auto", "enabled", "disabled", "injected"}

\* A web_search section: its setting, "" if it states none, and whether it has
\* a key for the searches the bridge runs, Tavily's or Firecrawl's.
Sections == [support : Supports \cup {""}, key : BOOLEAN]

\* A configuration: providers with their protocol, section and catalog of
\* models with theirs; routes; the global setting, key, and whether that key or
\* one beside it is Tavily's.
ASSUME ConfigsAssumption ==
    \A c \in Configs :
        /\ c.support \in Supports /\ c.key \in BOOLEAN /\ c.tavily \in BOOLEAN /\ (c.tavily => c.key)
        /\ \A p \in DOMAIN c.providers :
              /\ c.providers[p].search \in Sections
              /\ \A m \in DOMAIN c.providers[p].models : c.providers[p].models[m] \in Sections
        /\ \A r \in DOMAIN c.routes :
              c.routes[r].provider \in DOMAIN c.providers /\ c.routes[r].search \in Sections
ASSUME BoundAssumption == MaxRequests \in Nat

VARIABLES
    config,
    phase,       \* "providers", "models", "routes", "serving"
    left,        \* what the phase has not visited: its maps have no order
    probing,     \* the providers whose probe runs
    probed,      \* the probes that ended, in order
    resolved,    \* resolvedWS: a mode under the key of a provider, a pair or a name
    reloaded,    \* whether the runtime was reloaded
    served       \* the requests and the mode each was served with

vars == <<config, phase, left, probing, probed, resolved, reloaded, served>>

Providers == DOMAIN config.providers
Catalog(p) == config.providers[p].models
Protocol(p) == config.providers[p].protocol

ProviderKey(p) == <<"provider", p>>
CandidateKey(p, m) == <<"candidate", p, m>>
ModelKey(alias) == <<"model", alias>>

\* The names of a request: a route, or the two forms of a model of a provider.
Route(r) == [form |-> "route", provider |-> config.routes[r].provider, model |-> config.routes[r].model, name |-> r]
Slug(p, m) == [form |-> "provider/model", provider |-> p, model |-> m, name |-> ""]
Named(p, m) == [form |-> "model(provider)", provider |-> p, model |-> m, name |-> ""]

-----------------------------------------------------------------------------
(* The configuration's word *)

\* parseWebSearchSupport: a provider that says nothing says auto, so that the
\* global setting below is not reached.
ParseSupport(raw) == IF raw = "" THEN "auto" ELSE raw

WebSearchForProvider(p) ==
    LET support == ParseSupport(config.providers[p].search.support)
    IN IF support # "" THEN support ELSE config.support

\* The section of a name: its route's, else its model's, if that states a
\* setting.  A section that states none counts for nothing, its key neither.
\* (No route has the name of a model.)
SectionForModel(alias) ==
    LET models == Catalog(alias.provider)
        none == [support |-> "", key |-> FALSE]
        ofRoute == IF alias.form = "route" THEN config.routes[alias.name].search ELSE none
        ofModel == IF alias.model \in DOMAIN models THEN models[alias.model] ELSE none
    IN CASE ofRoute.support # "" -> ofRoute
         [] ofRoute.support = "" /\ ofModel.support # "" -> ofModel
         [] OTHER -> none

WebSearchForModel(alias) ==
    IF SectionForModel(alias).support # "" THEN SectionForModel(alias).support
    ELSE WebSearchForProvider(alias.provider)

\* A key of the name's own, its provider's or the global one.
InjectedSearchConfigured(alias) ==
    SectionForModel(alias).key \/ config.providers[alias.provider].search.key \/ config.key

\* A route may lead to a model that the catalog does not list.
Routed(p) ==
    {config.routes[r].model : r \in {q \in DOMAIN config.routes : config.routes[q].provider = p}}

\* FirstUpstreamModelForKey: any route to the provider, else its first model.
FirstUpstreamModels(p) == IF Routed(p) # {} THEN Routed(p) ELSE DOMAIN Catalog(p)

-----------------------------------------------------------------------------
(* Boot: providers *)

With(keys, mode) ==
    [k \in keys \cup DOMAIN resolved |-> IF k \in keys THEN mode ELSE resolved[k]]

Init ==
    /\ config \in Configs
    /\ phase = "providers"
    /\ left = Providers
    /\ probing = {}
    /\ probed = <<>>
    /\ resolved = <<>>
    /\ reloaded = FALSE
    /\ served = <<>>

Probes(p) == Protocol(p) = "anthropic" /\ WebSearchForProvider(p) = "auto"

\* A Responses upstream searches itself unless the setting forbids it.
ResponsesMode(setting) == IF setting \in {"disabled", "injected"} THEN "disabled" ELSE "enabled"

SettledMode(p) ==
    CASE Protocol(p) = "anthropic" -> WebSearchForProvider(p)
      [] Protocol(p) = "openai-response" -> ResponsesMode(WebSearchForProvider(p))
      [] OTHER -> IF config.tavily THEN "injected" ELSE "disabled"

ResolvesProvider ==
    /\ phase = "providers"
    /\ \E p \in left :
        /\ left' = left \ {p}
        /\ IF Probes(p)
           THEN probing' = probing \cup {p} /\ UNCHANGED resolved
           ELSE resolved' = With({ProviderKey(p)}, SettledMode(p)) /\ UNCHANGED probing
    /\ UNCHANGED <<config, phase, probed, reloaded, served>>

\* Mutant: a refusal falls back to the injected search, key or not.
FallbackBlind(supported, configured) == IF supported THEN "enabled" ELSE "injected"

\* What a probe's answer makes of auto; a probe that fails is a refusal.
Fallback(supported, configured) ==
    CASE supported -> "enabled"
      [] ~supported /\ configured -> "injected"
      [] OTHER -> "disabled"

\* Mutant: a provider without models leaves its goroutine without wg.Done.
ProbingAfterUndone(p) == IF FirstUpstreamModels(p) = {} THEN probing ELSE probing \ {p}

\* The goroutines the boot waits for, once p's probe has ended.
ProbingAfter(p) == probing \ {p}

\* A goroutine's probe ends, within its timeout: answered, or failed, which is
\* a refusal.  (Every provider has a client that can be asked.)  The model it
\* asked for and the one the answer is kept for come from two reads of an
\* unordered map; only a global Tavily key is a fallback here.
ProbeEnds ==
    \E p \in probing, native \in BOOLEAN :
        LET models == FirstUpstreamModels(p) IN
        /\ probing' = ProbingAfter(p)
        /\ IF models = {}
           THEN resolved' = With({ProviderKey(p)}, Fallback(FALSE, config.tavily)) /\ UNCHANGED probed
           ELSE \E asked, kept \in models :
                 /\ probed' = Append(probed, [by |-> "provider", provider |-> p, model |-> asked, native |-> native])
                 /\ resolved' = With({CandidateKey(p, kept), ProviderKey(p)}, Fallback(native, config.tavily))
        /\ UNCHANGED <<config, phase, left, reloaded, served>>

\* wg.Wait.
EndsProviders ==
    /\ phase = "providers" /\ left = {} /\ probing = {}
    /\ phase' = "models"
    /\ left' = UNION {{<<p, m>> : m \in DOMAIN Catalog(p)} : p \in Providers}
    /\ UNCHANGED <<config, probing, probed, resolved, reloaded, served>>

-----------------------------------------------------------------------------
(* Boot: models, then routes *)

Keys(aliases, p, m) == {ModelKey(a) : a \in aliases} \cup {CandidateKey(p, m)}

\* Mutant: a pair that has a mode keeps it, whatever the setting says.
SettlesLate(p, m, setting) ==
    Protocol(p) = "anthropic" /\ setting # "auto" /\ CandidateKey(p, m) \notin DOMAIN resolved

\* Whether the setting is the outcome.
Settles(p, m, setting) == Protocol(p) = "anthropic" /\ setting # "auto"

\* resolveModelWebSearch, for names of one model with one section.
Resolves(aliases, alias) ==
    LET p == alias.provider
        m == alias.model
        setting == WebSearchForModel(alias)
        candidate == CandidateKey(p, m)
        Settle(mode) == resolved' = With(Keys(aliases, p, m), mode) /\ UNCHANGED probed
    IN CASE Protocol(p) = "openai-response" -> Settle(ResponsesMode(setting))
         [] Protocol(p) \notin {"anthropic", "openai-response"} -> Settle("disabled")
         [] Settles(p, m, setting) -> Settle(setting)
         [] Protocol(p) = "anthropic" /\ ~Settles(p, m, setting) /\ candidate \in DOMAIN resolved ->
              Settle(resolved[candidate])
         [] OTHER ->
              \E native \in BOOLEAN :
                  /\ probed' = Append(probed, [by |-> "model", provider |-> p, model |-> m, native |-> native])
                  /\ resolved' = With(Keys(aliases, p, m), Fallback(native, InjectedSearchConfigured(alias)))

ResolvesModel ==
    /\ phase = "models"
    /\ \E pm \in left :
        /\ left' = left \ {pm}
        /\ Resolves({Slug(pm[1], pm[2]), Named(pm[1], pm[2])}, Slug(pm[1], pm[2]))
    /\ UNCHANGED <<config, phase, probing, reloaded, served>>

EndsModels ==
    /\ phase = "models" /\ left = {}
    /\ phase' = "routes"
    /\ left' = DOMAIN config.routes
    /\ UNCHANGED <<config, probing, probed, resolved, reloaded, served>>

ResolvesRoute ==
    /\ phase = "routes"
    /\ \E r \in left :
        /\ left' = left \ {r}
        /\ Resolves({Route(r)}, Route(r))
    /\ UNCHANGED <<config, phase, probing, reloaded, served>>

EndsRoutes ==
    /\ phase = "routes" /\ left = {}
    /\ phase' = "serving"
    /\ UNCHANGED <<config, left, probing, probed, resolved, reloaded, served>>

-----------------------------------------------------------------------------
(* Requests and reloads *)

Mode(key) == IF key \in DOMAIN resolved THEN resolved[key] ELSE ""
FirstMode(keys) ==
    LET k == SelectInSeq(keys, LAMBDA key : key \in DOMAIN resolved)
    IN IF k = 0 THEN "" ELSE resolved[keys[k]]

ResolvedForModel(alias) ==
    FirstMode(<<ModelKey(alias), CandidateKey(alias.provider, alias.model), ProviderKey(alias.provider)>>)
ResolvedForCandidate(alias) ==
    FirstMode(<<CandidateKey(alias.provider, alias.model), ProviderKey(alias.provider)>>)

\* A Responses upstream is chosen by the name, any other by the pair it stands for.
ServedMode(alias) ==
    CASE Protocol(alias.provider) = "openai-response" -> ResolvedForModel(alias)
      [] Protocol(alias.provider) # "openai-response" /\ ResolvedForCandidate(alias) # "" -> ResolvedForCandidate(alias)
      [] OTHER -> ResolvedForModel(alias)

\* injectCoreWebSearch: no key, no injected tools.
ServedTools(alias) ==
    CASE ServedMode(alias) = "enabled" -> "native"
      [] ServedMode(alias) = "injected" /\ InjectedSearchConfigured(alias)
           /\ Protocol(alias.provider) # "openai-response" -> "injected"
      [] OTHER -> "none"

\* The names the boot resolves.
BootNames ==
    {Route(r) : r \in DOMAIN config.routes}
    \cup UNION {UNION {{Slug(p, m), Named(p, m)} : m \in DOMAIN Catalog(p)} : p \in Providers}

\* A provider serves models its catalog does not list as well.
Aliases ==
    BootNames
    \cup UNION {UNION {{Slug(p, m), Named(p, m)} : m \in Routed(p) \cup {"unlisted"}} : p \in Providers}

Serves ==
    /\ phase = "serving" /\ Len(served) < MaxRequests
    /\ \E alias \in Aliases :
        served' = Append(served, [alias |-> alias, mode |-> ServedMode(alias),
                                  tools |-> ServedTools(alias), reloaded |-> reloaded])
    /\ UNCHANGED <<config, phase, left, probing, probed, resolved, reloaded>>

\* Runtime.Reload, for a change that leaves the search settings alone.
Reloads ==
    /\ phase = "serving" /\ ~reloaded
    /\ reloaded' = TRUE
    /\ resolved' = <<>>
    /\ UNCHANGED <<config, phase, left, probing, probed, served>>

Next == \/ ResolvesProvider \/ ProbeEnds \/ EndsProviders
        \/ ResolvesModel \/ EndsModels \/ ResolvesRoute \/ EndsRoutes
        \/ Serves \/ Reloads

\* Boot goes on by itself and a probe ends by its timeout.
Boots == ResolvesProvider \/ ProbeEnds \/ EndsProviders \/ ResolvesModel
         \/ EndsModels \/ ResolvesRoute \/ EndsRoutes
Spec == Init /\ [][Next]_vars /\ WF_vars(Boots)

-----------------------------------------------------------------------------
(* Properties *)

\* The names of a pair that the boot resolves, and what they are set to.
NamesOf(p, m) == {a \in BootNames : a.provider = p /\ a.model = m}
Settings(p, m) ==
    IF NamesOf(p, m) = {} THEN {WebSearchForProvider(p)} ELSE {WebSearchForModel(a) : a \in NamesOf(p, m)}

\* No name that is resolved with or after this one states another setting: the
\* routes come after the catalogs.
Undisputed(a) ==
    \A b \in NamesOf(a.provider, a.model) :
        (a.form = "route" => b.form = "route") => WebSearchForModel(b) \in {WebSearchForModel(a), "auto"}

\* What a request must be served with.  At an Anthropic provider: with its own
\* name's setting where none disputes it, and with a setting of its pair where
\* no name of the pair leaves it to the probes, whichever name is resolved
\* first, whatever the probes of the provider answer and whatever was kept for
\* the pair before.  At a Responses provider: as its own name's setting says,
\* or one of its pair's if the boot does not know the name.
ServedAsSet(request) ==
    LET a == request.alias
        settings == Settings(a.provider, a.model)
        own == IF a \in BootNames THEN {WebSearchForModel(a)} ELSE settings
    IN /\ Protocol(a.provider) = "anthropic" =>
              /\ a \in BootNames /\ WebSearchForModel(a) # "auto" /\ Undisputed(a)
                    => request.mode = WebSearchForModel(a)
              /\ "auto" \notin settings => request.mode \in settings
       /\ Protocol(a.provider) = "openai-response" => \E s \in own : request.mode = ResponsesMode(s)

\* It is, until a reload.
SettingsServed ==
    \A k \in DOMAIN served : ~served[k].reloaded => ServedAsSet(served[k])

\* And after it.  The code does not do this.
SearchOutlivesReload == \A k \in DOMAIN served : ServedAsSet(served[k])

\* What auto makes of a request: the native search only if the provider
\* accepted a probe, the bridge's only after a refusal, none only after one and
\* without a global Tavily key; and the bridge does run the search it chose,
\* where the names of the pair agree on having a key for it.
FollowsProbes(request) ==
    LET a == request.alias
        p == a.provider
        Answered(native) == \E n \in DOMAIN probed : probed[n].provider = p /\ probed[n].native = native
        refused == Answered(FALSE) \/ FirstUpstreamModels(p) = {}
    IN /\ request.tools = "native" => Answered(TRUE)
       /\ request.mode = "injected" => refused
       /\ request.mode = "disabled" => refused /\ ~config.tavily
       /\ request.mode = "injected"
          /\ (\A b \in NamesOf(p, a.model) : InjectedSearchConfigured(b) = InjectedSearchConfigured(a))
             => request.tools = "injected"

\* A pair whose names all say auto is searched as the probes of its provider
\* allow; and however many names a pair has, resolving them asks its upstream
\* once at most.
AutoFollowsProbes ==
    /\ \A k \in DOMAIN served :
          LET a == served[k].alias
          IN Protocol(a.provider) = "anthropic" /\ Settings(a.provider, a.model) = {"auto"}
             => FollowsProbes(served[k])
    /\ \A j, k \in DOMAIN probed :
          probed[j].by = "model" /\ probed[k].by = "model"
          /\ probed[j].provider = probed[k].provider /\ probed[j].model = probed[k].model => j = k

\* So is a name that says auto where another name of its pair does not.  The
\* code does not do this: what a pair was resolved to is shared by its names.
AutoStaysAuto ==
    \A k \in DOMAIN served :
        LET a == served[k].alias
        IN ~served[k].reloaded /\ a \in BootNames /\ Protocol(a.provider) = "anthropic"
           /\ WebSearchForModel(a) = "auto" => FollowsProbes(served[k])

\* Whatever the probes do, the bridge comes to serve, with a mode for each name
\* of its catalogs and routes.
BootEnds ==
    <>(phase = "serving" /\ (reloaded \/ \A a \in BootNames : Mode(ModelKey(a)) # ""))
=============================================================================
