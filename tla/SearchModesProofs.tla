------------------------- MODULE SearchModesProofs -------------------------
(***************************************************************************)
(* The search modes of the boot, for every configuration: any providers,   *)
(* catalogs and routes, resolved in any order, with any answers to the     *)
(* probes.                                                                 *)
(*                                                                         *)
(* IInv says which keys have a mode at each point of the boot and where    *)
(* that mode comes from: a setting that one of the names states, or a      *)
(* probe that was answered.                                                *)
(***************************************************************************)
EXTENDS SearchModes, SequenceTheorems, FiniteSetTheorems, TLAPS

---------------------------------------------------------------------------
(* The inductive invariant *)

Phases == {"providers", "models", "routes", "serving"}
PairsListed == UNION {{<<p, m>> : m \in DOMAIN Catalog(p)} : p \in Providers}
Models == UNION {DOMAIN Catalog(p) \cup Routed(p) : p \in Providers}
Probed == [by : {"provider", "model"}, provider : Providers, model : Models, native : BOOLEAN]
Request == [alias : Aliases, mode : Supports \cup {""}, tools : {"native", "injected", "none"},
            reloaded : BOOLEAN]

TypeInv ==
    /\ config \in Configs
    /\ phase \in Phases /\ reloaded \in BOOLEAN
    /\ left \subseteq CASE phase = "providers" -> Providers
                        [] phase = "models" -> PairsListed
                        [] phase = "routes" -> DOMAIN config.routes
                        [] phase = "serving" -> {}
    /\ probing \subseteq {p \in Providers : Probes(p)}
    /\ phase # "providers" => probing = {}
    /\ reloaded => phase = "serving" /\ DOMAIN resolved = {}
    /\ probed \in Seq(Probed)
    /\ served \in Seq(Request)
    /\ \A k \in DOMAIN resolved : resolved[k] \in Supports

\* The name has been resolved.
Visited(a) ==
    \/ phase = "serving"
    \/ phase = "routes" /\ (a.form = "route" => a.name \notin left)
    \/ phase = "models" /\ a.form # "route" /\ <<a.provider, a.model>> \notin left

PairKey(a) == CandidateKey(a.provider, a.model)

Answered(p, native) == \E n \in DOMAIN probed : probed[n].provider = p /\ probed[n].native = native

Refused(p) == Answered(p, FALSE) \/ FirstUpstreamModels(p) = {}

\* A mode that follows from the probes of p, where a key is at hand or not.
FromProbes(p, mode, keyed) ==
    /\ mode \in {"enabled", "injected", "disabled"}
    /\ mode = "enabled" => Answered(p, TRUE)
    /\ mode = "injected" => keyed /\ Refused(p)
    /\ mode = "disabled" => ~config.tavily /\ Refused(p)

\* A name of the pair has a key.
KeyedPair(p, m) == \E a \in NamesOf(p, m) : InjectedSearchConfigured(a)

\* Which keys have a mode: those of what was visited, and of nothing unknown.
KeysInv ==
    /\ \A p \in Providers :
          phase # "providers" \/ (p \notin left /\ p \notin probing) => ProviderKey(p) \in DOMAIN resolved
    /\ \A a \in BootNames : Visited(a) => {ModelKey(a), PairKey(a)} \subseteq DOMAIN resolved
    /\ \A a : ModelKey(a) \in DOMAIN resolved => a \in BootNames
    /\ \A p, m : CandidateKey(p, m) \in DOMAIN resolved =>
                    \E a \in BootNames : a.provider = p /\ a.model = m

ProvidersInv ==
    \A p \in Providers : ProviderKey(p) \in DOMAIN resolved =>
        IF Probes(p) THEN FromProbes(p, resolved[ProviderKey(p)], config.tavily)
        ELSE resolved[ProviderKey(p)] = SettledMode(p)

\* The mode of a pair is a setting of its visited names, and that of each one
\* that none disputes.
HoldsFor(p, m, mode) ==
    \A a \in NamesOf(p, m) : Visited(a) =>
        /\ "auto" \notin Settings(p, m) => mode \in Settings(p, m)
        /\ WebSearchForModel(a) # "auto" /\ Undisputed(a) => mode = WebSearchForModel(a)

PairsInv ==
    \A p, m : p \in Providers /\ CandidateKey(p, m) \in DOMAIN resolved =>
        LET mode == resolved[CandidateKey(p, m)] IN
        /\ Protocol(p) = "openai-response" => \E s \in Settings(p, m) : mode = ResponsesMode(s)
        /\ Protocol(p) = "anthropic" /\ Settings(p, m) = {"auto"} => FromProbes(p, mode, KeyedPair(p, m))
        /\ Protocol(p) = "anthropic" => HoldsFor(p, m, mode)

NamesInv ==
    \A a \in BootNames :
        Protocol(a.provider) = "openai-response" /\ ModelKey(a) \in DOMAIN resolved =>
            resolved[ModelKey(a)] = ResponsesMode(WebSearchForModel(a))

\* A model is asked about only while its pair has no mode.
ProbesInv ==
    /\ phase # "serving" => \A n \in DOMAIN probed :
          probed[n].by = "model" => PairKey(probed[n]) \in DOMAIN resolved
    /\ \A j, k \in DOMAIN probed :
          probed[j].by = "model" /\ probed[k].by = "model"
          /\ probed[j].provider = probed[k].provider /\ probed[j].model = probed[k].model => j = k

AutoFollows(request) ==
    Protocol(request.alias.provider) = "anthropic"
    /\ Settings(request.alias.provider, request.alias.model) = {"auto"} => FollowsProbes(request)

ServedInv ==
    \A k \in DOMAIN served :
        /\ ~served[k].reloaded => ServedAsSet(served[k])
        /\ AutoFollows(served[k])

IInv == /\ TypeInv
        /\ ~reloaded => KeysInv /\ ProvidersInv /\ PairsInv /\ NamesInv
        /\ ProbesInv /\ ServedInv

---------------------------------------------------------------------------
(* Keys, settings and the map of modes *)

LEMMA KeysDiffer ==
    ASSUME NEW p, NEW q, NEW m, NEW n, NEW a, NEW b
    PROVE  /\ ProviderKey(p) # CandidateKey(q, m) /\ ProviderKey(p) # ModelKey(a)
           /\ CandidateKey(p, m) # ModelKey(a)
           /\ ProviderKey(p) = ProviderKey(q) => p = q
           /\ CandidateKey(p, m) = CandidateKey(q, n) => p = q /\ m = n
           /\ ModelKey(a) = ModelKey(b) => a = b
BY DEF ProviderKey, CandidateKey, ModelKey

\* What a step writes to the map.
LEMMA WithFacts ==
    ASSUME NEW keys, NEW mode
    PROVE  /\ DOMAIN With(keys, mode) = keys \cup DOMAIN resolved
           /\ \A k \in keys : With(keys, mode)[k] = mode
           /\ \A k \in DOMAIN resolved : k \notin keys => With(keys, mode)[k] = resolved[k]
BY DEF With

LEMMA SettingFacts ==
    ASSUME config \in Configs
    PROVE  /\ \A p \in Providers : WebSearchForProvider(p) \in Supports
           /\ \A a : a.provider \in Providers
                     /\ (a.form = "route" => a.name \in DOMAIN config.routes)
                     => WebSearchForModel(a) \in Supports /\ SectionForModel(a) \in Sections
<1>1. \A p \in Providers : /\ config.providers[p].search \in Sections
                           /\ \A m \in DOMAIN Catalog(p) : Catalog(p)[m] \in Sections
  BY ConfigsAssumption DEF Providers, Catalog
<1>2. \A r \in DOMAIN config.routes : config.routes[r].search \in Sections
  BY ConfigsAssumption
<1>3. \A p \in Providers : WebSearchForProvider(p) \in Supports
  BY <1>1 DEF WebSearchForProvider, ParseSupport, Supports, Sections
<1>4. ASSUME NEW a, a.provider \in Providers,
             a.form = "route" => a.name \in DOMAIN config.routes
      PROVE  WebSearchForModel(a) \in Supports /\ SectionForModel(a) \in Sections
  <2> DEFINE none == [support |-> "", key |-> FALSE]
             ofRoute == IF a.form = "route" THEN config.routes[a.name].search ELSE none
             ofModel == IF a.model \in DOMAIN Catalog(a.provider)
                        THEN Catalog(a.provider)[a.model] ELSE none
  <2>1. none \in Sections
    BY DEF Sections
  <2>2. SectionForModel(a) = CASE ofRoute.support # "" -> ofRoute
                               [] ofRoute.support = "" /\ ofModel.support # "" -> ofModel
                               [] OTHER -> none
    BY DEF SectionForModel
  <2> HIDE DEF none
  <2>3. ofRoute \in Sections /\ ofModel \in Sections
    BY <1>1, <1>2, <1>4, <2>1
  <2> HIDE DEF ofRoute, ofModel
  <2>4. SectionForModel(a) \in Sections
    BY <2>1, <2>2, <2>3
  <2>5. SectionForModel(a).support \in Supports \cup {""}
    BY <2>4 DEF Sections
  <2> QED BY <1>3, <1>4, <2>4, <2>5 DEF WebSearchForModel
<1> QED BY <1>3, <1>4

\* A name of the boot: its parts, and what it is set to.
LEMMA BootNameFacts ==
    ASSUME config \in Configs, NEW a \in BootNames
    PROVE  /\ a.provider \in Providers /\ WebSearchForModel(a) \in Supports
           /\ \/ a.form = "route" /\ a.name \in DOMAIN config.routes /\ a = Route(a.name)
              \/ /\ a.form \in {"provider/model", "model(provider)"}
                 /\ a.model \in DOMAIN Catalog(a.provider)
                 /\ a \in {Slug(a.provider, a.model), Named(a.provider, a.model)}
<1>1. CASE \E r \in DOMAIN config.routes : a = Route(r)
  <2>1. PICK r \in DOMAIN config.routes : a = Route(r)
    BY <1>1
  <2>2. config.routes[r].provider \in Providers
    BY ConfigsAssumption DEF Providers
  <2>3. a.form = "route" /\ a.name = r /\ a.provider \in Providers
    BY <2>1, <2>2 DEF Route
  <2>4. WebSearchForModel(a) \in Supports
    BY <2>3, SettingFacts
  <2> QED BY <2>1, <2>3, <2>4
<1>2. CASE \E p \in Providers : \E m \in DOMAIN Catalog(p) : a \in {Slug(p, m), Named(p, m)}
  <2>0. PICK p \in Providers : \E m \in DOMAIN Catalog(p) : a \in {Slug(p, m), Named(p, m)}
    BY <1>2
  <2>1. PICK m \in DOMAIN Catalog(p) : a \in {Slug(p, m), Named(p, m)}
    BY <2>0
  <2>2. a.form \in {"provider/model", "model(provider)"} /\ a.provider = p /\ a.model = m
    <3>1. CASE a = Slug(p, m)
      BY <3>1 DEF Slug
    <3>2. CASE a = Named(p, m)
      BY <3>2 DEF Named
    <3> QED BY <2>1, <3>1, <3>2
  <2>3. WebSearchForModel(a) \in Supports
    BY <2>2, SettingFacts
  <2> QED BY <2>1, <2>2, <2>3
<1> QED BY <1>1, <1>2 DEF BootNames

\* The configuration does not change, nor what is read off it.
LEMMA ConfigFixed ==
    ASSUME config' = config
    PROVE  /\ Providers' = Providers /\ BootNames' = BootNames /\ Aliases' = Aliases
           /\ PairsListed' = PairsListed /\ Models' = Models
           /\ \A p : /\ Protocol(p)' = Protocol(p) /\ Probes(p)' = Probes(p)
                     /\ SettledMode(p)' = SettledMode(p)
                     /\ FirstUpstreamModels(p)' = FirstUpstreamModels(p)
           /\ \A a : /\ WebSearchForModel(a)' = WebSearchForModel(a)
                     /\ InjectedSearchConfigured(a)' = InjectedSearchConfigured(a)
                     /\ Undisputed(a)' = Undisputed(a)
           /\ \A p, m : /\ Settings(p, m)' = Settings(p, m) /\ NamesOf(p, m)' = NamesOf(p, m)
                        /\ KeyedPair(p, m)' = KeyedPair(p, m)
<1>1. Providers' = Providers /\ \A p : Catalog(p)' = Catalog(p) /\ Protocol(p)' = Protocol(p)
  BY DEF Providers, Catalog, Protocol
<1>2. \A r : Route(r)' = Route(r)
  BY DEF Route
<1>3. BootNames' = BootNames
  <2> DEFINE names(c) ==
          {[form |-> "route", provider |-> c.routes[r].provider, model |-> c.routes[r].model, name |-> r] :
              r \in DOMAIN c.routes}
          \cup UNION {UNION {{Slug(p, m), Named(p, m)} : m \in DOMAIN c.providers[p].models} :
                          p \in DOMAIN c.providers}
  <2>1. BootNames = names(config)
    BY DEF BootNames, Route, Providers, Catalog
  <2>2. BootNames' = names(config')
    BY DEF BootNames, Route, Providers, Catalog, Slug, Named
  <2> HIDE DEF names
  <2> QED BY <2>1, <2>2
<1>4. \A p : Routed(p)' = Routed(p)
  BY DEF Routed
<1>5. Aliases' = Aliases
  <2> DEFINE routed(c, p) ==
                 {c.routes[r].model : r \in {q \in DOMAIN c.routes : c.routes[q].provider = p}}
             others(c) ==
                 UNION {UNION {{Slug(p, m), Named(p, m)} : m \in routed(c, p) \cup {"unlisted"}} :
                            p \in DOMAIN c.providers}
  <2>1. Aliases = BootNames \cup others(config)
    BY DEF Aliases, Routed, Providers
  <2>2. Aliases' = BootNames' \cup others(config')
    BY DEF Aliases, Routed, Providers, Slug, Named
  <2> HIDE DEF others
  <2> QED BY <1>3, <2>1, <2>2
<1>6. PairsListed' = PairsListed /\ Models' = Models
  BY <1>1, <1>4 DEF PairsListed, Models
<1>7. \A p : WebSearchForProvider(p)' = WebSearchForProvider(p)
  BY DEF WebSearchForProvider
<1>8. \A p : /\ Probes(p)' = Probes(p) /\ SettledMode(p)' = SettledMode(p)
             /\ FirstUpstreamModels(p)' = FirstUpstreamModels(p)
  BY <1>1, <1>4, <1>7 DEF Probes, SettledMode, FirstUpstreamModels
<1>9. \A a : SectionForModel(a)' = SectionForModel(a)
  BY <1>1 DEF SectionForModel
<1>10. \A a : /\ WebSearchForModel(a)' = WebSearchForModel(a)
              /\ InjectedSearchConfigured(a)' = InjectedSearchConfigured(a)
  BY <1>7, <1>9 DEF WebSearchForModel, InjectedSearchConfigured
<1>11. \A p, m : NamesOf(p, m)' = NamesOf(p, m)
  BY <1>3 DEF NamesOf
<1>12. \A p, m : Settings(p, m)' = Settings(p, m) /\ KeyedPair(p, m)' = KeyedPair(p, m)
  BY <1>7, <1>10, <1>11 DEF Settings, KeyedPair
<1>13. \A a : Undisputed(a)' = Undisputed(a)
  BY <1>10, <1>11 DEF Undisputed
<1> QED BY <1>1, <1>3, <1>5, <1>6, <1>8, <1>10, <1>11, <1>12, <1>13

LEMMA PairFacts ==
    ASSUME config \in Configs, NEW a \in BootNames
    PROVE  /\ a.model \in Models /\ WebSearchForModel(a) \in Settings(a.provider, a.model)
           /\ a \in NamesOf(a.provider, a.model)
<1>1. a.model \in DOMAIN Catalog(a.provider) \cup Routed(a.provider)
  BY BootNameFacts DEF Route, Routed
<1>2. a.model \in Models
  BY <1>1, BootNameFacts DEF Models
<1> QED BY <1>2 DEF Settings, NamesOf

\* What the models and routes of a provider leads to is known to the boot.
LEMMA FirstModelsNamed ==
    ASSUME config \in Configs, NEW p \in Providers, NEW m \in FirstUpstreamModels(p)
    PROVE  m \in Models /\ \E a \in BootNames : a.provider = p /\ a.model = m
<1>1. CASE m \in Routed(p)
  <2>1. PICK r \in DOMAIN config.routes : config.routes[r].provider = p /\ config.routes[r].model = m
    BY <1>1 DEF Routed
  <2>2. Route(r) \in BootNames /\ Route(r).provider = p /\ Route(r).model = m
    BY <2>1 DEF BootNames, Route
  <2> QED BY <1>1, <2>2 DEF Models
<1>2. CASE m \in DOMAIN Catalog(p)
  <2>1. Slug(p, m).provider = p /\ Slug(p, m).model = m
    BY DEF Slug
  <2>2. Slug(p, m) \in BootNames
    BY <1>2 DEF BootNames
  <2>3. m \in Models
    BY <1>2 DEF Models
  <2> QED BY <2>1, <2>2, <2>3
<1> QED BY <1>1, <1>2 DEF FirstUpstreamModels

---------------------------------------------------------------------------
(* Probes *)

Extends(e) == probed' = probed \/ (e \in Probed /\ probed' = Append(probed, e))

\* What a probe's answer adds.
LEMMA ProbedGrows ==
    ASSUME probed \in Seq(Probed), NEW e, Extends(e)
    PROVE  /\ probed' \in Seq(Probed)
           /\ \A n \in DOMAIN probed : n \in DOMAIN probed' /\ probed'[n] = probed[n]
           /\ \A n \in DOMAIN probed' : n \in DOMAIN probed \/ (probed' # probed /\ n = Len(probed) + 1 /\ probed'[n] = e)
           /\ probed' # probed => Len(probed) + 1 \in DOMAIN probed' /\ probed'[Len(probed) + 1] = e
           /\ \A p, native : Answered(p, native) => Answered(p, native)'
           /\ probed' # probed => Answered(e.provider, e.native)'
<1>1. Len(probed) \in Nat /\ DOMAIN probed = 1..Len(probed)
  BY LenProperties
<1>2. CASE probed' = probed
  BY <1>2 DEF Answered
<1>3. CASE e \in Probed /\ probed' = Append(probed, e)
  <2>1. /\ probed' \in Seq(Probed) /\ Len(probed') = Len(probed) + 1
        /\ \A n \in 1..Len(probed) : probed'[n] = probed[n]
        /\ probed'[Len(probed) + 1] = e
    BY <1>3, AppendProperties
  <2>2. DOMAIN probed' = 1..(Len(probed) + 1)
    BY <2>1, LenProperties
  <2>3. Len(probed) + 1 \in DOMAIN probed'
    BY <1>1, <2>2
  <2>4. \A n \in DOMAIN probed : n \in DOMAIN probed' /\ probed'[n] = probed[n]
    BY <1>1, <2>1, <2>2
  <2>5. \A n \in DOMAIN probed' : n \in DOMAIN probed \/ n = Len(probed) + 1
    BY <1>1, <2>2
  <2>6. probed' # probed
    BY <1>1, <2>1
  <2>7. \A p, native : Answered(p, native) => Answered(p, native)'
    BY <2>4 DEF Answered
  <2>8. Answered(e.provider, e.native)'
    BY <2>1, <2>3 DEF Answered
  <2> QED BY <2>1, <2>3, <2>4, <2>5, <2>6, <2>7, <2>8
<1> QED BY <1>2, <1>3 DEF Extends

\* What follows from the probes still does when another is answered.
LEMMA FollowingKept ==
    ASSUME config' = config, \A p, native : Answered(p, native) => Answered(p, native)'
    PROVE  /\ \A p, mode, keyed : FromProbes(p, mode, keyed) => FromProbes(p, mode, keyed)'
           /\ \A x : AutoFollows(x) => AutoFollows(x)'
<1>1. \A p : Refused(p) => Refused(p)'
  BY ConfigFixed DEF Refused
<1>2. \A p, mode, keyed : FromProbes(p, mode, keyed) => FromProbes(p, mode, keyed)'
  BY <1>1 DEF FromProbes
<1>3. \A x : FollowsProbes(x) => FollowsProbes(x)'
  BY <1>1, ConfigFixed DEF FollowsProbes, Answered, Refused
<1> QED BY <1>2, <1>3, ConfigFixed DEF AutoFollows

LEMMA ServedKept ==
    ASSUME ServedInv, config' = config, served' = served,
           \A p, native : Answered(p, native) => Answered(p, native)'
    PROVE  ServedInv'
<1>1. \A x : ServedAsSet(x)' <=> ServedAsSet(x)
  BY ConfigFixed DEF ServedAsSet
<1>2. \A x : AutoFollows(x) => AutoFollows(x)'
  BY FollowingKept
<1> QED BY <1>1, <1>2 DEF ServedInv

\* The global Tavily key is a key for every name.
LEMMA KeyFlags ==
    ASSUME config \in Configs
    PROVE  /\ config.tavily \in BOOLEAN
           /\ \A a : config.tavily => InjectedSearchConfigured(a)
           /\ \A a \in BootNames : InjectedSearchConfigured(a) \in BOOLEAN
BY ConfigsAssumption DEF InjectedSearchConfigured

---------------------------------------------------------------------------
(* The resolution of the names of a model *)

\* What the resolution of names with a setting makes of their model.
Outcome(names, p, m, setting, keyed, mode) ==
    /\ resolved' = With(Keys(names, p, m), mode)
    /\ Protocol(p) = "openai-response" => mode = ResponsesMode(setting)
    /\ Protocol(p) = "anthropic" /\ setting # "auto" => mode = setting
    /\ Protocol(p) \notin {"openai-response", "anthropic"} => mode = "disabled"
    /\ \/ /\ probed' = probed
          /\ Protocol(p) = "anthropic" /\ setting = "auto" =>
                CandidateKey(p, m) \in DOMAIN resolved /\ mode = resolved[CandidateKey(p, m)]
       \/ \E native \in BOOLEAN :
             /\ Protocol(p) = "anthropic" /\ setting = "auto"
             /\ CandidateKey(p, m) \notin DOMAIN resolved
             /\ probed' = Append(probed, [by |-> "model", provider |-> p, model |-> m,
                                          native |-> native])
             /\ mode = Fallback(native, keyed)

LEMMA ResolvesEffect ==
    ASSUME NEW names, NEW b, NEW p, NEW m, NEW setting, NEW keyed, Resolves(names, b),
           p = b.provider, m = b.model, setting = WebSearchForModel(b), keyed = InjectedSearchConfigured(b)
    PROVE  \E mode : Outcome(names, p, m, setting, keyed, mode)
<1>1. CASE Protocol(p) = "openai-response"
  <2>1. resolved' = With(Keys(names, p, m), ResponsesMode(setting)) /\ probed' = probed
    BY <1>1 DEF Resolves, Settles
  <2> QED BY <1>1, <2>1 DEF Outcome
<1>2. CASE Protocol(p) \notin {"anthropic", "openai-response"}
  <2>1. resolved' = With(Keys(names, p, m), "disabled") /\ probed' = probed
    BY <1>2 DEF Resolves, Settles
  <2> QED BY <1>2, <2>1 DEF Outcome
<1>3. CASE Protocol(p) = "anthropic" /\ setting # "auto"
  <2>1. resolved' = With(Keys(names, p, m), setting) /\ probed' = probed
    BY <1>3 DEF Resolves, Settles
  <2> QED BY <1>3, <2>1 DEF Outcome
<1>4. CASE Protocol(p) = "anthropic" /\ setting = "auto" /\ CandidateKey(p, m) \in DOMAIN resolved
  <2>1. resolved' = With(Keys(names, p, m), resolved[CandidateKey(p, m)]) /\ probed' = probed
    BY <1>4 DEF Resolves, Settles
  <2> QED BY <1>4, <2>1 DEF Outcome
<1>5. CASE Protocol(p) = "anthropic" /\ setting = "auto" /\ CandidateKey(p, m) \notin DOMAIN resolved
  <2>1. \E native \in BOOLEAN :
            /\ probed' = Append(probed, [by |-> "model", provider |-> p, model |-> m, native |-> native])
            /\ resolved' = With(Keys(names, p, m), Fallback(native, keyed))
    BY <1>5 DEF Resolves, Settles
  <2> QED BY <1>5, <2>1 DEF Outcome
<1> QED BY <1>1, <1>2, <1>3, <1>4, <1>5

\* The names of one model, resolved with the setting they share, leave the
\* invariant as it was, whichever came before them.
LEMMA ResolvesKeeps ==
    ASSUME IInv, phase \in {"models", "routes"}, NEW names, names \subseteq BootNames,
           NEW p \in Providers, NEW m, NEW setting, NEW b \in names, Resolves(names, b),
           \A a \in names : /\ a.provider = p /\ a.model = m /\ WebSearchForModel(a) = setting
                            /\ phase = "routes" => a.form = "route",
           UNCHANGED <<config, phase, probing, reloaded, served>>, left' \subseteq left,
           \A a \in BootNames : Visited(a)' => Visited(a) \/ a \in names
    PROVE  IInv'
<1> DEFINE keys == Keys(names, p, m)
           cand == CandidateKey(p, m)
<1>0. /\ TypeInv /\ KeysInv /\ ProvidersInv /\ PairsInv /\ NamesInv /\ ProbesInv /\ ServedInv
      /\ config \in Configs /\ config' = config /\ probed \in Seq(Probed) /\ ~reloaded
  BY DEF IInv, TypeInv
<1> PICK keyed : keyed = InjectedSearchConfigured(b)
  OBVIOUS
<1>4. b \in BootNames /\ b.provider = p /\ b.model = m /\ WebSearchForModel(b) = setting
  OBVIOUS
<1>1. PICK mode :
              /\ resolved' = With(keys, mode)
              /\ Protocol(p) = "openai-response" => mode = ResponsesMode(setting)
              /\ Protocol(p) = "anthropic" /\ setting # "auto" => mode = setting
              /\ Protocol(p) \notin {"openai-response", "anthropic"} => mode = "disabled"
              /\ \/ /\ probed' = probed
                    /\ Protocol(p) = "anthropic" /\ setting = "auto" =>
                          cand \in DOMAIN resolved /\ mode = resolved[cand]
                 \/ \E native \in BOOLEAN :
                       /\ Protocol(p) = "anthropic" /\ setting = "auto"
                       /\ cand \notin DOMAIN resolved
                       /\ probed' = Append(probed, [by |-> "model", provider |-> p, model |-> m,
                                                    native |-> native])
                       /\ mode = Fallback(native, keyed)
  <2>1. PICK mode : Outcome(names, p, m, setting, keyed, mode)
    BY <1>4, ResolvesEffect
  <2> QED BY <2>1 DEF Outcome
<1>2. /\ DOMAIN resolved' = keys \cup DOMAIN resolved
      /\ \A k \in keys : resolved'[k] = mode
      /\ \A k \in DOMAIN resolved : k \notin keys => resolved'[k] = resolved[k]
  <2>1. resolved' = With(keys, mode)
    BY <1>1
  <2> HIDE DEF keys
  <2> QED BY <2>1 DEF With
<1>3. /\ \A q : ProviderKey(q) \notin keys
      /\ \A q, n : CandidateKey(q, n) \in keys <=> q = p /\ n = m
      /\ \A a : ModelKey(a) \in keys <=> a \in names
      /\ cand \in keys
  BY KeysDiffer DEF Keys
<1> HIDE DEF keys
<1>5. /\ setting \in Supports /\ setting \in Settings(p, m) /\ m \in Models
      /\ b \in NamesOf(p, m) /\ keyed \in BOOLEAN
  BY <1>0, <1>4, PairFacts, BootNameFacts, KeyFlags
<1>6. mode \in Supports
  <2>1. \A k \in DOMAIN resolved : resolved[k] \in Supports
    BY <1>0 DEF TypeInv
  <2>2. ResponsesMode(setting) \in Supports
    BY DEF ResponsesMode, Supports
  <2>3. \A native \in BOOLEAN : Fallback(native, keyed) \in Supports
    BY DEF Fallback, Supports
  <2>4. "disabled" \in Supports
    BY DEF Supports
  <2>5. CASE Protocol(p) = "anthropic" /\ setting = "auto"
    BY <1>1, <2>1, <2>3, <2>5
  <2> QED BY <1>1, <1>5, <2>2, <2>4, <2>5
<1> DEFINE IsEvent(e) ==
               /\ Extends(e)
               /\ probed' # probed => /\ e.by = "model" /\ e.provider = p /\ e.model = m
                                      /\ cand \notin DOMAIN resolved
                                      /\ mode = Fallback(e.native, keyed)
                                      /\ e.native \in BOOLEAN
               /\ probed' = probed => (Protocol(p) = "anthropic" /\ setting = "auto" =>
                          cand \in DOMAIN resolved /\ mode = resolved[cand])
<1>7. \E e : IsEvent(e)
  <2>1. CASE /\ probed' = probed
             /\ Protocol(p) = "anthropic" /\ setting = "auto" =>
                          cand \in DOMAIN resolved /\ mode = resolved[cand]
    BY <2>1 DEF Extends
  <2>2. ASSUME NEW native \in BOOLEAN, cand \notin DOMAIN resolved,
               probed' = Append(probed, [by |-> "model", provider |-> p, model |-> m, native |-> native]),
               mode = Fallback(native, keyed)
        PROVE  \E e : IsEvent(e)
    <3> DEFINE ev == [by |-> "model", provider |-> p, model |-> m, native |-> native]
    <3>1. ev \in Probed
      BY <1>5 DEF Probed
    <3>2. ev.by = "model" /\ ev.provider = p /\ ev.model = m /\ ev.native = native
      OBVIOUS
    <3>3. probed' = Append(probed, ev)
      BY <2>2
    <3> HIDE DEF ev
    <3>4. probed' # probed
      BY <1>0, <3>3, <3>1, AppendProperties, LenProperties
    <3>5. Extends(ev)
      BY <3>1, <3>3 DEF Extends
    <3> QED BY <2>2, <3>2, <3>4, <3>5
  <2> QED BY <1>1, <2>1, <2>2
<1>8. PICK e : IsEvent(e)
  BY <1>7
<1>9. /\ probed' \in Seq(Probed)
      /\ \A n \in DOMAIN probed : n \in DOMAIN probed' /\ probed'[n] = probed[n]
      /\ \A n \in DOMAIN probed' :
            n \in DOMAIN probed \/ (probed' # probed /\ n = Len(probed) + 1 /\ probed'[n] = e)
      /\ \A q, native : Answered(q, native) => Answered(q, native)'
      /\ probed' # probed => Answered(e.provider, e.native)'
  BY <1>0, <1>8, ProbedGrows
<1> HIDE DEF cand
<1>10. \A q, mo, k : FromProbes(q, mo, k) => FromProbes(q, mo, k)'
  BY <1>0, <1>9, FollowingKept
<1>11. \A q, n : /\ Protocol(q)' = Protocol(q) /\ Probes(q)' = Probes(q)
                 /\ SettledMode(q)' = SettledMode(q)
                 /\ Settings(q, n)' = Settings(q, n) /\ NamesOf(q, n)' = NamesOf(q, n)
                 /\ KeyedPair(q, n)' = KeyedPair(q, n)
  BY <1>0, ConfigFixed
<1>12. /\ Providers' = Providers /\ BootNames' = BootNames /\ PairsListed' = PairsListed
       /\ Aliases' = Aliases /\ Models' = Models
       /\ \A a : WebSearchForModel(a)' = WebSearchForModel(a) /\ Undisputed(a)' = Undisputed(a)
  BY <1>0, ConfigFixed
<1>13. ASSUME Protocol(p) = "anthropic", setting = "auto",
              cand \in DOMAIN resolved => FromProbes(p, resolved[cand], KeyedPair(p, m))
       PROVE  FromProbes(p, mode, KeyedPair(p, m))'
  <2>1. CASE probed' = probed
    BY <1>8, <1>10, <1>11, <1>13, <2>1
  <2>2. CASE probed' # probed
    <3>1. PICK native \in BOOLEAN : native = e.native /\ Answered(p, native)' /\ mode = Fallback(native, keyed)
      BY <1>8, <1>9, <2>2
    <3>2. (keyed => KeyedPair(p, m)) /\ (config.tavily => keyed)
      BY <1>0, <1>5, KeyFlags DEF KeyedPair
    <3> QED BY <1>0, <1>5, <1>11, <3>1, <3>2 DEF FromProbes, Fallback, Refused
  <2> QED BY <2>1, <2>2
<1>14. TypeInv'
  <2>1. Probed' = Probed /\ Request' = Request
    BY <1>12 DEF Probed, Request
  <2>2. \A k \in DOMAIN resolved' : resolved'[k] \in Supports
    BY <1>0, <1>2, <1>6 DEF TypeInv
  <2>3. probing' \subseteq {q \in Providers : Probes(q)}'
    BY <1>0, <1>11, <1>12 DEF TypeInv
  <2>4. left' \subseteq CASE phase' = "providers" -> Providers'
                          [] phase' = "models" -> PairsListed'
                          [] phase' = "routes" -> DOMAIN config'.routes
                          [] phase' = "serving" -> {}
    BY <1>0, <1>12 DEF TypeInv
  <2>5. phase' \in Phases /\ reloaded' \in BOOLEAN /\ config' \in Configs
        /\ (phase' # "providers" => probing' = {}) /\ ~reloaded'
        /\ probed' \in Seq(Probed') /\ served' \in Seq(Request')
    BY <1>0, <1>9, <2>1 DEF TypeInv
  <2> QED BY <2>2, <2>3, <2>4, <2>5 DEF TypeInv
<1>15. KeysInv'
  <2>1. \A q \in Providers : ProviderKey(q) \in DOMAIN resolved'
    BY <1>0, <1>2 DEF KeysInv
  <2>2. ASSUME NEW a \in BootNames, Visited(a)'
        PROVE  {ModelKey(a), PairKey(a)} \subseteq DOMAIN resolved'
    <3>1. CASE a \in names
      <4>1. PairKey(a) = cand
        BY <3>1 DEF PairKey, cand
      <4> QED BY <1>2, <1>3, <3>1, <4>1
    <3>2. CASE a \notin names
      BY <1>0, <1>2, <2>2, <3>2 DEF KeysInv
    <3> QED BY <3>1, <3>2
  <2>3. ASSUME NEW a, ModelKey(a) \in DOMAIN resolved'
        PROVE  a \in BootNames
    BY <1>0, <1>2, <1>3, <2>3 DEF KeysInv
  <2>4. ASSUME NEW q, NEW n, CandidateKey(q, n) \in DOMAIN resolved'
        PROVE  \E a \in BootNames : a.provider = q /\ a.model = n
    <3>1. CASE CandidateKey(q, n) \in keys
      BY <1>3, <1>4, <3>1
    <3>2. CASE CandidateKey(q, n) \notin keys
      BY <1>0, <1>2, <2>4, <3>2 DEF KeysInv
    <3> QED BY <3>1, <3>2
  <2> QED BY <1>12, <2>1, <2>2, <2>3, <2>4 DEF KeysInv, ProviderKey, CandidateKey, ModelKey, PairKey
<1>16. ProvidersInv'
  <2>1. ASSUME NEW q \in Providers, ProviderKey(q) \in DOMAIN resolved', NEW mo,
               mo = resolved'[ProviderKey(q)]
        PROVE  IF Probes(q) THEN FromProbes(q, mo, config.tavily)' ELSE mo = SettledMode(q)
    <3>1. ProviderKey(q) \in DOMAIN resolved /\ mo = resolved[ProviderKey(q)]
      BY <1>2, <1>3, <2>1
    <3>2. IF Probes(q) THEN FromProbes(q, mo, config.tavily) ELSE mo = SettledMode(q)
      BY <1>0, <3>1 DEF ProvidersInv
    <3> QED BY <1>10, <3>2
  <2> QED BY <1>11, <1>12, <2>1 DEF ProvidersInv, ProviderKey
<1>17. PairsInv'
  <2>1. ASSUME NEW q, NEW n, q \in Providers, CandidateKey(q, n) \in DOMAIN resolved', NEW mo,
               mo = resolved'[CandidateKey(q, n)]
        PROVE  /\ Protocol(q) = "openai-response" => \E s \in Settings(q, n) : mo = ResponsesMode(s)
               /\ Protocol(q) = "anthropic" /\ Settings(q, n) = {"auto"} => FromProbes(q, mo, KeyedPair(q, n))'
               /\ Protocol(q) = "anthropic" => HoldsFor(q, n, mo)'
    <3>1. CandidateKey(q, n) \in DOMAIN resolved =>
             LET old == resolved[CandidateKey(q, n)] IN
             /\ Protocol(q) = "openai-response" => \E s \in Settings(q, n) : old = ResponsesMode(s)
             /\ Protocol(q) = "anthropic" /\ Settings(q, n) = {"auto"} => FromProbes(q, old, KeyedPair(q, n))
             /\ Protocol(q) = "anthropic" => HoldsFor(q, n, old)
      BY <1>0, <2>1 DEF PairsInv
    <3>2. CASE CandidateKey(q, n) \notin keys
      <4>1. CandidateKey(q, n) \in DOMAIN resolved /\ mo = resolved[CandidateKey(q, n)]
        BY <1>2, <2>1, <3>2
      <4>2. \A a \in NamesOf(q, n) : Visited(a)' => Visited(a)
        BY <1>3, <3>2 DEF NamesOf
      <4>3. HoldsFor(q, n, mo) => HoldsFor(q, n, mo)'
        BY <1>11, <1>12, <4>2 DEF HoldsFor
      <4> QED BY <1>10, <1>11, <3>1, <4>1, <4>3
    <3>3. CASE CandidateKey(q, n) \in keys
      <4>1. q = p /\ n = m /\ CandidateKey(q, n) = cand /\ mo = mode
        BY <1>2, <1>3, <2>1, <3>3 DEF cand
      <4>2. Protocol(p) = "openai-response" => \E s \in Settings(p, m) : mode = ResponsesMode(s)
        BY <1>1, <1>5
      <4>3. Protocol(p) = "anthropic" /\ Settings(p, m) = {"auto"} => FromProbes(p, mode, KeyedPair(p, m))'
        BY <1>5, <1>13, <3>1, <4>1
      <4>4. ASSUME Protocol(p) = "anthropic", "auto" \notin Settings(p, m)
            PROVE  mode \in Settings(p, m)
        BY <1>1, <1>5, <4>4
      <4>5. ASSUME Protocol(p) = "anthropic", NEW a \in NamesOf(p, m), Visited(a)',
                   WebSearchForModel(a) # "auto", Undisputed(a)
            PROVE  mode = WebSearchForModel(a)
        <5>1. CASE a \in names
          BY <1>1, <4>5, <5>1
        <5>2. CASE a \notin names
          <6>1. a \in BootNames /\ a.provider = p /\ a.model = m /\ Visited(a)
            BY <4>5, <5>2 DEF NamesOf
          <6>2. a.form = "route" => b.form = "route"
            BY <6>1 DEF Visited
          <6>3. setting \in {WebSearchForModel(a), "auto"}
            BY <1>4, <1>5, <4>5, <6>1, <6>2 DEF Undisputed
          <6>4. CASE setting = "auto"
            <7>1. cand \in DOMAIN resolved
              BY <1>0, <6>1 DEF KeysInv, PairKey, cand
            <7>2. mode = resolved[cand]
              BY <1>8, <4>5, <6>4, <7>1
            <7> QED BY <3>1, <4>1, <4>5, <6>1, <7>1, <7>2 DEF HoldsFor
          <6>5. CASE setting # "auto"
            BY <1>1, <4>5, <6>3, <6>5
          <6> QED BY <6>4, <6>5
        <5> QED BY <5>1, <5>2
      <4>6. Protocol(p) = "anthropic" => HoldsFor(p, m, mode)'
        BY <1>11, <1>12, <4>4, <4>5 DEF HoldsFor
      <4> QED BY <4>1, <4>2, <4>3, <4>6
    <3> QED BY <3>2, <3>3
  <2> QED BY <1>11, <1>12, <2>1 DEF PairsInv, CandidateKey, ResponsesMode
<1>18. NamesInv'
  <2>1. ASSUME NEW a \in BootNames, Protocol(a.provider) = "openai-response",
               ModelKey(a) \in DOMAIN resolved'
        PROVE  resolved'[ModelKey(a)] = ResponsesMode(WebSearchForModel(a))
    <3>1. CASE a \in names
      BY <1>1, <1>2, <1>3, <2>1, <3>1
    <3>2. CASE a \notin names
      BY <1>0, <1>2, <1>3, <2>1, <3>2 DEF NamesInv
    <3> QED BY <3>1, <3>2
  <2> QED BY <1>11, <1>12, <2>1 DEF NamesInv, ModelKey, ResponsesMode
<1>19. ProbesInv'
  <2>1. PairKey(e) = cand \/ probed' = probed
    BY <1>8 DEF PairKey, cand
  <2>2. \A n \in DOMAIN probed : probed[n].by = "model" => PairKey(probed[n]) \in DOMAIN resolved
    BY <1>0 DEF ProbesInv
  <2>3. \A n \in DOMAIN probed' : probed'[n].by = "model" => PairKey(probed'[n]) \in DOMAIN resolved'
    BY <1>2, <1>3, <1>9, <2>1, <2>2
  <2>4. ASSUME NEW j \in DOMAIN probed', NEW k \in DOMAIN probed',
               probed'[j].by = "model", probed'[k].by = "model",
               probed'[j].provider = probed'[k].provider, probed'[j].model = probed'[k].model
        PROVE  j = k
    <3>1. PairKey(probed'[j]) = PairKey(probed'[k])
      BY <2>4 DEF PairKey
    <3>2. \A n \in DOMAIN probed : n # Len(probed) + 1
      BY <1>0, LenProperties
    <3>3. CASE j \in DOMAIN probed /\ k \in DOMAIN probed
      BY <1>0, <1>9, <2>4, <3>3 DEF ProbesInv
    <3>4. CASE j \notin DOMAIN probed /\ k \notin DOMAIN probed
      BY <1>9, <3>4
    <3>5. CASE j \in DOMAIN probed /\ k \notin DOMAIN probed
      BY <1>8, <1>9, <2>1, <2>2, <2>4, <3>1, <3>5
    <3>6. CASE j \notin DOMAIN probed /\ k \in DOMAIN probed
      BY <1>8, <1>9, <2>1, <2>2, <2>4, <3>1, <3>6
    <3> QED BY <3>3, <3>4, <3>5, <3>6
  <2> QED BY <2>3, <2>4 DEF ProbesInv, PairKey, CandidateKey
<1>20. ServedInv'
  BY <1>0, <1>9, ServedKept
<1> QED BY <1>14, <1>15, <1>16, <1>17, <1>18, <1>19, <1>20 DEF IInv

---------------------------------------------------------------------------
(* Steps *)

LEMMA InitHolds == Init => IInv
<1> SUFFICES ASSUME Init PROVE IInv
  OBVIOUS
<1>1. /\ config \in Configs /\ phase = "providers" /\ left = Providers /\ probing = {}
      /\ probed = <<>> /\ resolved = <<>> /\ reloaded = FALSE /\ served = <<>>
  BY DEF Init
<1>2. DOMAIN resolved = {} /\ DOMAIN probed = {} /\ DOMAIN served = {}
  BY <1>1
<1>3. probed \in Seq(Probed) /\ served \in Seq(Request)
  BY <1>1
<1>4. TypeInv
  BY <1>1, <1>2, <1>3 DEF TypeInv, Phases
<1>5. KeysInv
  BY <1>1, <1>2 DEF KeysInv, Visited
<1>6. ProvidersInv /\ PairsInv /\ NamesInv
  BY <1>2 DEF ProvidersInv, PairsInv, NamesInv
<1>7. ProbesInv /\ ServedInv
  BY <1>2 DEF ProbesInv, ServedInv
<1> QED BY <1>4, <1>5, <1>6, <1>7 DEF IInv

\* What a step that resolves nothing must not do: forget a phase, or call a
\* name resolved that was not.
LEMMA NothingResolvedKeeps ==
    ASSUME IInv, UNCHANGED <<config, probed, resolved, reloaded, served>>, TypeInv',
           \A a \in BootNames : Visited(a)' => Visited(a),
           \A p \in Providers : phase' # "providers" \/ (p \notin left' /\ p \notin probing')
                                => phase # "providers" \/ (p \notin left /\ p \notin probing),
           phase = "serving" => phase' = "serving"
    PROVE  IInv'
<1>1. /\ Providers' = Providers /\ BootNames' = BootNames
      /\ \A q : /\ Protocol(q)' = Protocol(q) /\ Probes(q)' = Probes(q)
                /\ SettledMode(q)' = SettledMode(q)
      /\ \A q, n : /\ Settings(q, n)' = Settings(q, n) /\ NamesOf(q, n)' = NamesOf(q, n)
                   /\ KeyedPair(q, n)' = KeyedPair(q, n)
      /\ \A a : WebSearchForModel(a)' = WebSearchForModel(a) /\ Undisputed(a)' = Undisputed(a)
  BY ConfigFixed
<1>2. \A q, native : Answered(q, native) => Answered(q, native)'
  BY DEF Answered
<1>3. \A q, mo, k : FromProbes(q, mo, k) => FromProbes(q, mo, k)'
  BY <1>2, FollowingKept
<1>10. \A q, n, mo : HoldsFor(q, n, mo) => HoldsFor(q, n, mo)'
  BY <1>1 DEF HoldsFor, NamesOf
<1>4. KeysInv => KeysInv'
  BY <1>1 DEF KeysInv, ModelKey, CandidateKey, ProviderKey, PairKey
<1>5. ProvidersInv => ProvidersInv'
  BY <1>1, <1>3 DEF ProvidersInv, ProviderKey
<1>6. PairsInv => PairsInv'
  BY <1>1, <1>3, <1>10 DEF PairsInv, CandidateKey, ResponsesMode
<1>7. NamesInv => NamesInv'
  BY <1>1 DEF NamesInv, ModelKey, ResponsesMode
<1>8. ProbesInv => ProbesInv'
  BY DEF ProbesInv, PairKey, CandidateKey
<1>9. ServedInv => ServedInv'
  BY <1>2, ServedKept
<1> QED BY <1>4, <1>5, <1>6, <1>7, <1>8, <1>9 DEF IInv

LEMMA StutterKeeps == IInv /\ UNCHANGED vars => IInv'
<1> SUFFICES ASSUME IInv, UNCHANGED vars PROVE IInv'
  OBVIOUS
<1>1. UNCHANGED <<config, phase, left, probing, probed, resolved, reloaded, served>>
  BY DEF vars
<1>2. /\ Providers' = Providers /\ PairsListed' = PairsListed /\ Aliases' = Aliases /\ Models' = Models
      /\ \A q : Probes(q)' = Probes(q)
  BY <1>1, ConfigFixed
<1>3. Probed' = Probed /\ Request' = Request
  BY <1>2 DEF Probed, Request
<1>4. TypeInv'
  BY <1>1, <1>2, <1>3 DEF TypeInv, IInv
<1>5. \A a : Visited(a)' => Visited(a)
  BY <1>1 DEF Visited
<1> QED BY <1>1, <1>4, <1>5, NothingResolvedKeeps

LEMMA PhaseKeeps == IInv /\ (EndsProviders \/ EndsModels \/ EndsRoutes) => IInv'
<1> SUFFICES ASSUME IInv, EndsProviders \/ EndsModels \/ EndsRoutes PROVE IInv'
  OBVIOUS
<1>1. UNCHANGED <<config, probing, probed, resolved, reloaded, served>> /\ left = {}
  BY DEF EndsProviders, EndsModels, EndsRoutes
<1>2. /\ Providers' = Providers /\ PairsListed' = PairsListed /\ Aliases' = Aliases /\ Models' = Models
      /\ \A q : Probes(q)' = Probes(q)
  BY <1>1, ConfigFixed
<1>3. Probed' = Probed /\ Request' = Request
  BY <1>2 DEF Probed, Request
<1>4. /\ phase # "serving" /\ phase' # "providers" /\ phase' \in Phases /\ probing = {}
      /\ left' \subseteq CASE phase' = "providers" -> Providers
                           [] phase' = "models" -> PairsListed
                           [] phase' = "routes" -> DOMAIN config.routes
                           [] phase' = "serving" -> {}
  <2>1. CASE EndsProviders
    BY <2>1 DEF EndsProviders, Phases, PairsListed
  <2>2. CASE EndsModels
    BY <2>2 DEF EndsModels, Phases, IInv, TypeInv
  <2>3. CASE EndsRoutes
    BY <2>3 DEF EndsRoutes, Phases, IInv, TypeInv
  <2> QED BY <2>1, <2>2, <2>3
<1>5. TypeInv'
  BY <1>1, <1>2, <1>3, <1>4 DEF TypeInv, IInv
<1>6. ASSUME NEW a \in BootNames, Visited(a)' PROVE Visited(a)
  <2>1. CASE EndsProviders
    <3>1. phase' = "models" /\ left' = PairsListed /\ config \in Configs
      BY <2>1 DEF EndsProviders, PairsListed, IInv, TypeInv
    <3>2. a.form # "route" /\ <<a.provider, a.model>> \notin PairsListed
      BY <1>6, <3>1 DEF Visited
    <3>3. a.provider \in Providers /\ a.model \in DOMAIN Catalog(a.provider)
      BY <3>1, <3>2, BootNameFacts
    <3>4. <<a.provider, a.model>> \in PairsListed
      BY <3>3 DEF PairsListed
    <3> QED BY <3>2, <3>4
  <2>2. CASE EndsModels
    <3>1. phase = "models" /\ phase' = "routes" /\ left' = DOMAIN config.routes /\ config \in Configs
      BY <2>2 DEF EndsModels, IInv, TypeInv
    <3>2. a.form = "route" => a.name \notin DOMAIN config.routes
      BY <1>6, <3>1 DEF Visited
    <3>3. a.form # "route"
      BY <3>1, <3>2, BootNameFacts
    <3> QED BY <1>1, <3>1, <3>3 DEF Visited
  <2>3. CASE EndsRoutes
    BY <1>1, <2>3 DEF EndsRoutes, Visited
  <2> QED BY <2>1, <2>2, <2>3
<1>7. \A p \in Providers : phase # "providers" \/ (p \notin left /\ p \notin probing)
  BY <1>1, <1>4
<1> QED BY <1>1, <1>4, <1>5, <1>6, <1>7, NothingResolvedKeeps

LEMMA ModelKeeps == IInv /\ (ResolvesModel \/ ResolvesRoute) => IInv'
<1> SUFFICES ASSUME IInv, ResolvesModel \/ ResolvesRoute PROVE IInv'
  OBVIOUS
<1>0. config \in Configs
  BY DEF IInv, TypeInv
<1>1. CASE ResolvesModel
  <2>1. /\ phase = "models" /\ UNCHANGED <<config, phase, probing, reloaded, served>>
        /\ left \subseteq PairsListed
    BY <1>1 DEF ResolvesModel, IInv, TypeInv
  <2>2. PICK pm \in left :
           /\ left' = left \ {pm}
           /\ Resolves({Slug(pm[1], pm[2]), Named(pm[1], pm[2])}, Slug(pm[1], pm[2]))
    BY <1>1 DEF ResolvesModel
  <2>3. PICK p \in Providers : \E m \in DOMAIN Catalog(p) : pm = <<p, m>>
    BY <2>1, <2>2 DEF PairsListed
  <2>4. PICK m \in DOMAIN Catalog(p) : pm = <<p, m>>
    BY <2>3
  <2> DEFINE names == {Slug(p, m), Named(p, m)}
  <2>5. PICK setting : setting = WebSearchForModel(Slug(p, m))
    OBVIOUS
  <2> PICK b : b = Slug(p, m)
    OBVIOUS
  <2>6. Resolves(names, b) /\ left' = left \ {<<p, m>>} /\ b \in names
    BY <2>2, <2>4
  <2>7. \A a \in names : a.provider = p /\ a.model = m /\ a.form # "route"
    <3>1. Slug(p, m).provider = p /\ Slug(p, m).model = m /\ Slug(p, m).form # "route"
      BY DEF Slug
    <3>2. Named(p, m).provider = p /\ Named(p, m).model = m /\ Named(p, m).form # "route"
      BY DEF Named
    <3> QED BY <3>1, <3>2
  <2>8. Slug(p, m) \in BootNames /\ Named(p, m) \in BootNames
    BY DEF BootNames
  <2>9. \A a \in names : WebSearchForModel(a) = setting
    BY <2>5, <2>7 DEF WebSearchForModel, SectionForModel
  <2>10. ASSUME NEW a \in BootNames, Visited(a)' PROVE Visited(a) \/ a \in names
    <3>1. a.form # "route" /\ <<a.provider, a.model>> \notin left \ {<<p, m>>}
      BY <2>1, <2>6, <2>10 DEF Visited
    <3>2. CASE <<a.provider, a.model>> = <<p, m>>
      BY <1>0, <3>1, <3>2, BootNameFacts
    <3>3. CASE <<a.provider, a.model>> # <<p, m>>
      BY <2>1, <3>1, <3>3 DEF Visited
    <3> QED BY <3>2, <3>3
  <2>11. names \subseteq BootNames /\ left' \subseteq left
    BY <2>6, <2>8
  <2> HIDE DEF names
  <2> QED BY <2>1, <2>6, <2>7, <2>9, <2>10, <2>11, ResolvesKeeps
<1>2. CASE ResolvesRoute
  <2>1. phase = "routes" /\ UNCHANGED <<config, phase, probing, reloaded, served>>
        /\ left \subseteq DOMAIN config.routes
    BY <1>2 DEF ResolvesRoute, IInv, TypeInv
  <2>2. PICK r \in left :
           /\ left' = left \ {r}
           /\ Resolves({Route(r)}, Route(r))
    BY <1>2 DEF ResolvesRoute
  <2>3. PICK a : a = Route(r)
    OBVIOUS
  <2>4. a \in BootNames /\ a.form = "route" /\ a.name = r
    BY <2>1, <2>2, <2>3 DEF BootNames, Route
  <2>5. PICK setting : setting = WebSearchForModel(a)
    OBVIOUS
  <2> PICK names : names = {a}
    OBVIOUS
  <2>6. Resolves(names, a) /\ left' = left \ {r} /\ a \in names
    BY <2>2, <2>3
  <2>7. a.provider \in Providers
    BY <1>0, <2>4, BootNameFacts
  <2>8. ASSUME NEW b \in BootNames, Visited(b)' PROVE Visited(b) \/ b \in names
    <3>1. b.form = "route" => b.name \notin left \ {r}
      BY <2>1, <2>6, <2>8 DEF Visited
    <3>2. CASE b.form = "route" /\ b.name = r
      BY <1>0, <2>3, <3>2, BootNameFacts
    <3>3. CASE ~(b.form = "route" /\ b.name = r)
      BY <2>1, <3>1, <3>3 DEF Visited
    <3> QED BY <3>2, <3>3
  <2> PICK p, m : p = a.provider /\ m = a.model
    OBVIOUS
  <2>9. \A b \in names : /\ b.provider = p /\ b.model = m /\ WebSearchForModel(b) = setting
                         /\ phase = "routes" => b.form = "route"
    BY <2>4, <2>5
  <2>10. names \subseteq BootNames /\ left' \subseteq left /\ p \in Providers
    BY <2>4, <2>6, <2>7
  <2> QED BY <2>1, <2>6, <2>8, <2>9, <2>10, ResolvesKeeps
<1> QED BY <1>1, <1>2

\* A provider settles, by its setting or by the answer of its probe.
LEMMA SettlingKeeps ==
    ASSUME IInv, phase = "providers", UNCHANGED <<config, phase, reloaded, served>>,
           NEW p \in Providers, NEW mode \in Supports, NEW kept, NEW keys,
           \/ keys = {ProviderKey(p)}
           \/ keys = {CandidateKey(p, kept), ProviderKey(p)} /\ kept \in FirstUpstreamModels(p) /\ Probes(p),
           resolved' = With(keys, mode),
           NEW e, Extends(e), probed' # probed => e.by = "provider",
           IF Probes(p) THEN FromProbes(p, mode, config.tavily)' ELSE mode = SettledMode(p),
           left' \subseteq left, probing' \subseteq probing,
           \A q \in Providers : q # p /\ q \notin left' /\ q \notin probing' => q \notin left /\ q \notin probing
    PROVE  IInv'
<1>0. /\ TypeInv /\ KeysInv /\ ProvidersInv /\ PairsInv /\ NamesInv /\ ProbesInv /\ ServedInv
      /\ config \in Configs /\ config' = config /\ probed \in Seq(Probed) /\ ~reloaded
  BY DEF IInv, TypeInv
<1>2. /\ DOMAIN resolved' = keys \cup DOMAIN resolved
      /\ \A k \in keys : resolved'[k] = mode
      /\ \A k \in DOMAIN resolved : k \notin keys => resolved'[k] = resolved[k]
  BY DEF With
<1>3. /\ \A q : ProviderKey(q) \in keys <=> q = p
      /\ \A q, n : CandidateKey(q, n) \in keys =>
                      q = p /\ n = kept /\ kept \in FirstUpstreamModels(p) /\ Probes(p)
      /\ \A a : ModelKey(a) \notin keys
  BY KeysDiffer
<1>9. /\ probed' \in Seq(Probed)
      /\ \A n \in DOMAIN probed : n \in DOMAIN probed' /\ probed'[n] = probed[n]
      /\ \A n \in DOMAIN probed' :
            n \in DOMAIN probed \/ (probed' # probed /\ n = Len(probed) + 1 /\ probed'[n] = e)
      /\ \A q, native : Answered(q, native) => Answered(q, native)'
  BY <1>0, ProbedGrows
<1>10. \A q, mo, k : FromProbes(q, mo, k) => FromProbes(q, mo, k)'
  BY <1>0, <1>9, FollowingKept
<1>11. \A q, n : /\ Protocol(q)' = Protocol(q) /\ Probes(q)' = Probes(q)
                 /\ SettledMode(q)' = SettledMode(q)
                 /\ Settings(q, n)' = Settings(q, n) /\ NamesOf(q, n)' = NamesOf(q, n)
                 /\ KeyedPair(q, n)' = KeyedPair(q, n)
  BY <1>0, ConfigFixed
<1>12. /\ Providers' = Providers /\ BootNames' = BootNames /\ PairsListed' = PairsListed
       /\ Aliases' = Aliases /\ Models' = Models
       /\ \A a : WebSearchForModel(a)' = WebSearchForModel(a) /\ Undisputed(a)' = Undisputed(a)
  BY <1>0, ConfigFixed
<1>13. \A a : ~Visited(a)'
  BY DEF Visited
<1>14. TypeInv'
  <2>1. Probed' = Probed /\ Request' = Request
    BY <1>12 DEF Probed, Request
  <2>2. \A k \in DOMAIN resolved' : resolved'[k] \in Supports
    BY <1>0, <1>2 DEF TypeInv
  <2> QED BY <1>0, <1>9, <1>11, <1>12, <2>1, <2>2 DEF TypeInv
<1>15. KeysInv'
  <2>1. ASSUME NEW q \in Providers, q \notin left' /\ q \notin probing'
        PROVE  ProviderKey(q) \in DOMAIN resolved'
    <3>1. CASE q = p
      BY <1>2, <1>3, <3>1
    <3>2. CASE q # p
      BY <1>0, <1>2, <2>1, <3>2 DEF KeysInv
    <3> QED BY <3>1, <3>2
  <2>3. ASSUME NEW a, ModelKey(a) \in DOMAIN resolved'
        PROVE  a \in BootNames
    BY <1>0, <1>2, <1>3, <2>3 DEF KeysInv
  <2>4. ASSUME NEW q, NEW n, CandidateKey(q, n) \in DOMAIN resolved'
        PROVE  \E a \in BootNames : a.provider = q /\ a.model = n
    <3>1. CASE CandidateKey(q, n) \in keys
      BY <1>0, <1>3, <3>1, FirstModelsNamed
    <3>2. CASE CandidateKey(q, n) \notin keys
      BY <1>0, <1>2, <2>4, <3>2 DEF KeysInv
    <3> QED BY <3>1, <3>2
  <2> QED BY <1>12, <1>13, <2>1, <2>3, <2>4 DEF KeysInv, ProviderKey, CandidateKey, ModelKey, PairKey
<1>16. ProvidersInv'
  <2>1. ASSUME NEW q \in Providers, ProviderKey(q) \in DOMAIN resolved', NEW mo,
               mo = resolved'[ProviderKey(q)]
        PROVE  IF Probes(q) THEN FromProbes(q, mo, config.tavily)' ELSE mo = SettledMode(q)
    <3>1. CASE q = p
      BY <1>2, <1>3, <2>1, <3>1
    <3>2. CASE q # p
      <4>1. ProviderKey(q) \in DOMAIN resolved /\ mo = resolved[ProviderKey(q)]
        BY <1>2, <1>3, <2>1, <3>2
      <4>2. IF Probes(q) THEN FromProbes(q, mo, config.tavily) ELSE mo = SettledMode(q)
        BY <1>0, <4>1 DEF ProvidersInv
      <4> QED BY <1>10, <4>2
    <3> QED BY <3>1, <3>2
  <2> QED BY <1>11, <1>12, <2>1 DEF ProvidersInv, ProviderKey
<1>17. PairsInv'
  <2>1. ASSUME NEW q, NEW n, q \in Providers, CandidateKey(q, n) \in DOMAIN resolved', NEW mo,
               mo = resolved'[CandidateKey(q, n)]
        PROVE  /\ Protocol(q) = "openai-response" => \E s \in Settings(q, n) : mo = ResponsesMode(s)
               /\ Protocol(q) = "anthropic" /\ Settings(q, n) = {"auto"} => FromProbes(q, mo, KeyedPair(q, n))'
    <3>1. CASE CandidateKey(q, n) \notin keys
      <4>1. CandidateKey(q, n) \in DOMAIN resolved /\ mo = resolved[CandidateKey(q, n)]
        BY <1>2, <2>1, <3>1
      <4>2. /\ Protocol(q) = "openai-response" => \E s \in Settings(q, n) : mo = ResponsesMode(s)
            /\ Protocol(q) = "anthropic" /\ Settings(q, n) = {"auto"} => FromProbes(q, mo, KeyedPair(q, n))
        BY <1>0, <2>1, <4>1 DEF PairsInv
      <4> QED BY <1>10, <1>11, <4>2
    <3>2. CASE CandidateKey(q, n) \in keys
      <4>1. q = p /\ n = kept /\ kept \in FirstUpstreamModels(p) /\ Probes(p) /\ mo = mode
        BY <1>2, <1>3, <2>1, <3>2
      <4>2. PICK a \in BootNames : a.provider = p /\ a.model = kept
        BY <1>0, <4>1, FirstModelsNamed
      <4>3. config.tavily => KeyedPair(p, kept)
        BY <1>0, <4>2, KeyFlags DEF KeyedPair, NamesOf
      <4>4. FromProbes(p, mode, config.tavily)' /\ config'.tavily = config.tavily
        BY <1>0, <4>1
      <4>5. FromProbes(p, mode, KeyedPair(p, kept))'
        BY <1>11, <4>3, <4>4 DEF FromProbes
      <4>6. Protocol(p) = "anthropic"
        BY <4>1 DEF Probes
      <4> QED BY <4>1, <4>5, <4>6
    <3> QED BY <3>1, <3>2
  <2>2. \A q, n, mo : HoldsFor(q, n, mo)'
    BY <1>13 DEF HoldsFor
  <2> QED BY <1>11, <1>12, <2>1, <2>2 DEF PairsInv, CandidateKey, ResponsesMode
<1>18. NamesInv'
  BY <1>0, <1>2, <1>3, <1>11, <1>12 DEF NamesInv, ModelKey, ResponsesMode
<1>19. ProbesInv'
  <2>1. \A n \in DOMAIN probed : probed[n].by = "model" => PairKey(probed[n]) \in DOMAIN resolved
    BY <1>0 DEF ProbesInv
  <2>2. \A n \in DOMAIN probed' :
            probed'[n].by = "model" => n \in DOMAIN probed /\ probed'[n] = probed[n]
    BY <1>9
  <2>3. \A n \in DOMAIN probed' : probed'[n].by = "model" => PairKey(probed'[n]) \in DOMAIN resolved'
    BY <1>2, <2>1, <2>2
  <2>4. ASSUME NEW j \in DOMAIN probed', NEW k \in DOMAIN probed',
               probed'[j].by = "model", probed'[k].by = "model",
               probed'[j].provider = probed'[k].provider, probed'[j].model = probed'[k].model
        PROVE  j = k
    BY <1>0, <2>2, <2>4 DEF ProbesInv
  <2> QED BY <2>3, <2>4 DEF ProbesInv, PairKey, CandidateKey
<1>20. ServedInv'
  BY <1>0, <1>9, ServedKept
<1> QED BY <1>14, <1>15, <1>16, <1>17, <1>18, <1>19, <1>20 DEF IInv

LEMMA ProviderKeeps == IInv /\ ResolvesProvider => IInv'
<1> SUFFICES ASSUME IInv, ResolvesProvider PROVE IInv'
  OBVIOUS
<1>0. config \in Configs /\ config' = config /\ left \subseteq Providers /\ phase = "providers"
  BY DEF IInv, TypeInv, ResolvesProvider
<1>1. UNCHANGED <<config, phase, probed, reloaded, served>>
  BY DEF ResolvesProvider
<1>2. PICK p \in left :
         /\ left' = left \ {p}
         /\ IF Probes(p)
            THEN probing' = probing \cup {p} /\ UNCHANGED resolved
            ELSE resolved' = With({ProviderKey(p)}, SettledMode(p)) /\ UNCHANGED probing
  BY DEF ResolvesProvider
<1>3. CASE Probes(p)
  <2>1. /\ Providers' = Providers /\ PairsListed' = PairsListed /\ Aliases' = Aliases /\ Models' = Models
        /\ \A q : Probes(q)' = Probes(q)
    BY <1>0, ConfigFixed
  <2>2. Probed' = Probed /\ Request' = Request
    BY <2>1 DEF Probed, Request
  <2>3. TypeInv'
    BY <1>0, <1>1, <1>2, <1>3, <2>1, <2>2 DEF TypeInv, IInv
  <2>4. \A a : ~Visited(a)'
    BY <1>0, <1>1 DEF Visited
  <2> QED BY <1>0, <1>1, <1>2, <1>3, <2>3, <2>4, NothingResolvedKeeps
<1>4. CASE ~Probes(p)
  <2>1. PICK mode : mode = SettledMode(p)
    OBVIOUS
  <2>2. mode \in Supports
    BY <1>0, <2>1, SettingFacts DEF SettledMode, ResponsesMode, Supports
  <2>3. PICK keys : keys = {ProviderKey(p)}
    OBVIOUS
  <2>4. resolved' = With(keys, mode) /\ probing' = probing
    BY <1>2, <1>4, <2>1, <2>3
  <2>5. PICK e : Extends(e)
    BY <1>1 DEF Extends
  <2>6. p \in Providers /\ left' \subseteq left /\ probing' \subseteq probing
    BY <1>0, <1>2, <2>4
  <2>7. \A q \in Providers : q # p /\ q \notin left' /\ q \notin probing' => q \notin left /\ q \notin probing
    BY <1>2, <2>4
  <2> QED BY <1>0, <1>1, <1>4, <2>1, <2>2, <2>3, <2>4, <2>5, <2>6, <2>7, SettlingKeeps
<1> QED BY <1>3, <1>4

LEMMA ProbeKeeps == IInv /\ ProbeEnds => IInv'
<1> SUFFICES ASSUME IInv, ProbeEnds PROVE IInv'
  OBVIOUS
<1>0. config \in Configs /\ probed \in Seq(Probed) /\ probing \subseteq {q \in Providers : Probes(q)}
  BY DEF IInv, TypeInv
<1>1. PICK p \in probing : \E native \in BOOLEAN :
        LET models == FirstUpstreamModels(p) IN
        /\ probing' = probing \ {p}
        /\ IF models = {}
           THEN resolved' = With({ProviderKey(p)}, Fallback(FALSE, config.tavily)) /\ UNCHANGED probed
           ELSE \E asked, kept \in models :
                 /\ probed' = Append(probed, [by |-> "provider", provider |-> p, model |-> asked, native |-> native])
                 /\ resolved' = With({CandidateKey(p, kept), ProviderKey(p)}, Fallback(native, config.tavily))
        /\ UNCHANGED <<config, phase, left, reloaded, served>>
  BY DEF ProbeEnds, ProbingAfter
<1>2. /\ p \in Providers /\ Probes(p) /\ probing' = probing \ {p} /\ phase = "providers"
      /\ UNCHANGED <<config, phase, left, reloaded, served>>
  BY <1>0, <1>1 DEF IInv, TypeInv
<1>3. config.tavily \in BOOLEAN
  BY <1>0, KeyFlags
<1>4. FirstUpstreamModels(p)' = FirstUpstreamModels(p) /\ config'.tavily = config.tavily
  BY <1>2, ConfigFixed
<1>5. \A native \in BOOLEAN : Fallback(native, config.tavily) \in Supports
  BY <1>3 DEF Fallback, Supports
<1>6. \A q \in Providers : q # p /\ q \notin left' /\ q \notin probing' => q \notin left /\ q \notin probing
  BY <1>2
<1>7. CASE FirstUpstreamModels(p) = {}
  <2>1. PICK mode : mode = Fallback(FALSE, config.tavily)
    OBVIOUS
  <2>2. PICK keys : keys = {ProviderKey(p)}
    OBVIOUS
  <2>3. resolved' = With(keys, mode) /\ probed' = probed
    BY <1>1, <1>7, <2>1, <2>2
  <2>4. FromProbes(p, mode, config.tavily)'
    BY <1>3, <1>4, <1>7, <2>1 DEF FromProbes, Fallback, Refused
  <2>5. PICK e : Extends(e)
    BY <2>3 DEF Extends
  <2>6. mode \in Supports /\ left' \subseteq left /\ probing' \subseteq probing
    BY <1>2, <1>5, <2>1
  <2> QED BY <1>2, <1>6, <2>2, <2>3, <2>4, <2>5, <2>6, SettlingKeeps
<1>8. CASE FirstUpstreamModels(p) # {}
  <2>1. PICK native \in BOOLEAN, asked \in FirstUpstreamModels(p), kept \in FirstUpstreamModels(p) :
           /\ probed' = Append(probed, [by |-> "provider", provider |-> p, model |-> asked, native |-> native])
           /\ resolved' = With({CandidateKey(p, kept), ProviderKey(p)}, Fallback(native, config.tavily))
    BY <1>1, <1>8
  <2>2. PICK mode : mode = Fallback(native, config.tavily)
    OBVIOUS
  <2>3. PICK keys : keys = {CandidateKey(p, kept), ProviderKey(p)}
    OBVIOUS
  <2>4. resolved' = With(keys, mode)
    BY <2>1, <2>2, <2>3
  <2>5. PICK e : e = [by |-> "provider", provider |-> p, model |-> asked, native |-> native]
    OBVIOUS
  <2>6. e \in Probed /\ e.by = "provider" /\ e.provider = p /\ e.native = native
    BY <1>0, <1>2, <2>5, FirstModelsNamed DEF Probed
  <2>7. probed' = Append(probed, e)
    BY <2>1, <2>5
  <2>8. Extends(e)
    BY <2>6, <2>7 DEF Extends
  <2>9. probed' # probed
    BY <1>0, <2>6, <2>7, AppendProperties, LenProperties
  <2>10. Answered(p, native)'
    BY <1>0, <2>6, <2>8, <2>9, ProbedGrows
  <2>11. FromProbes(p, mode, config.tavily)'
    BY <1>3, <1>4, <2>2, <2>10 DEF FromProbes, Fallback, Refused
  <2>12. mode \in Supports /\ left' \subseteq left /\ probing' \subseteq probing
    BY <1>2, <1>5, <2>2
  <2> QED BY <1>2, <1>6, <2>3, <2>4, <2>6, <2>8, <2>11, <2>12, SettlingKeeps
<1> QED BY <1>7, <1>8

---------------------------------------------------------------------------
(* Requests *)

LEMMA FirstPresent ==
    ASSUME NEW keys, Len(keys) \in Nat, NEW i \in 1..Len(keys), keys[i] \in DOMAIN resolved,
           \A j \in 1..Len(keys) : j < i => keys[j] \notin DOMAIN resolved
    PROVE  FirstMode(keys) = resolved[keys[i]]
<1> DEFINE I == {j \in 1..Len(keys) : keys[j] \in DOMAIN resolved}
           k == SelectInSeq(keys, LAMBDA key : key \in DOMAIN resolved)
<1>1. k = IF I # {} THEN Min(I) ELSE 0
  BY DEF SelectInSeq
<1>2. i \in I /\ i # 0 /\ \A y \in I : i =< y
  OBVIOUS
<1>3. FirstMode(keys) = IF k = 0 THEN "" ELSE resolved[keys[k]]
  BY DEF FirstMode
<1>4. \A z \in I : (\A y \in I : z =< y) => z = i
  BY <1>2
<1> HIDE DEF I, k
<1>5. Min(I) = i
  BY <1>2, <1>4 DEF Min
<1> QED BY <1>1, <1>2, <1>3, <1>5

LEMMA NonePresent ==
    ASSUME NEW keys, \A j \in 1..Len(keys) : keys[j] \notin DOMAIN resolved
    PROVE  FirstMode(keys) = ""
<1> DEFINE I == {j \in 1..Len(keys) : keys[j] \in DOMAIN resolved}
           k == SelectInSeq(keys, LAMBDA key : key \in DOMAIN resolved)
<1>1. k = IF I # {} THEN Min(I) ELSE 0
  BY DEF SelectInSeq
<1>2. I = {}
  OBVIOUS
<1>3. FirstMode(keys) = IF k = 0 THEN "" ELSE resolved[keys[k]]
  BY DEF FirstMode
<1> HIDE DEF I, k
<1> QED BY <1>1, <1>2, <1>3

\* The lookups of a request: its name, then its pair, then its provider.
LEMMA LookupsFound ==
    ASSUME NEW a
    PROVE  /\ ResolvedForModel(a) = IF ModelKey(a) \in DOMAIN resolved THEN resolved[ModelKey(a)]
                                    ELSE ResolvedForCandidate(a)
           /\ ResolvedForCandidate(a) =
                 IF PairKey(a) \in DOMAIN resolved THEN resolved[PairKey(a)]
                 ELSE IF ProviderKey(a.provider) \in DOMAIN resolved THEN resolved[ProviderKey(a.provider)]
                 ELSE ""
<1>0. PICK name, pair, provider : name = ModelKey(a) /\ pair = PairKey(a) /\ provider = ProviderKey(a.provider)
  OBVIOUS
<1> DEFINE two == <<pair, provider>>
           three == <<name, pair, provider>>
           OfProvider == IF provider \in DOMAIN resolved THEN resolved[provider] ELSE ""
           OfPair == IF pair \in DOMAIN resolved THEN resolved[pair] ELSE OfProvider
<1>1. ResolvedForModel(a) = FirstMode(three) /\ ResolvedForCandidate(a) = FirstMode(two)
  BY <1>0 DEF ResolvedForModel, ResolvedForCandidate, PairKey
<1>2. Len(two) = 2 /\ two[1] = pair /\ two[2] = provider
  OBVIOUS
<1>3. Len(three) = 3 /\ three[1] = name /\ three[2] = pair /\ three[3] = provider
  OBVIOUS
<1> HIDE DEF two, three
<1>4. FirstMode(two) = OfPair
  <2>1. CASE pair \in DOMAIN resolved
    <3>1. \A j \in 1..Len(two) : j < 1 => two[j] \notin DOMAIN resolved
      BY <1>2
    <3> QED BY <1>2, <2>1, <3>1, FirstPresent
  <2>2. CASE pair \notin DOMAIN resolved /\ provider \in DOMAIN resolved
    <3>1. \A j \in 1..Len(two) : j < 2 => two[j] \notin DOMAIN resolved
      BY <1>2, <2>2
    <3> QED BY <1>2, <2>2, <3>1, FirstPresent
  <2>3. CASE pair \notin DOMAIN resolved /\ provider \notin DOMAIN resolved
    <3>1. \A j \in 1..Len(two) : two[j] \notin DOMAIN resolved
      BY <1>2, <2>3
    <3>2. FirstMode(two) = ""
      BY <3>1, NonePresent
    <3> QED BY <2>3, <3>2
  <2> QED BY <2>1, <2>2, <2>3
<1>5. FirstMode(three) = IF name \in DOMAIN resolved THEN resolved[name] ELSE OfPair
  <2>0. CASE name \in DOMAIN resolved
    <3>1. \A j \in 1..Len(three) : j < 1 => three[j] \notin DOMAIN resolved
      BY <1>3
    <3> QED BY <1>3, <2>0, <3>1, FirstPresent
  <2>1. CASE name \notin DOMAIN resolved /\ pair \in DOMAIN resolved
    <3>1. \A j \in 1..Len(three) : j < 2 => three[j] \notin DOMAIN resolved
      BY <1>3, <2>1
    <3> QED BY <1>3, <2>1, <3>1, FirstPresent
  <2>2. CASE name \notin DOMAIN resolved /\ pair \notin DOMAIN resolved /\ provider \in DOMAIN resolved
    <3>1. \A j \in 1..Len(three) : j < 3 => three[j] \notin DOMAIN resolved
      BY <1>3, <2>2
    <3> QED BY <1>3, <2>2, <3>1, FirstPresent
  <2>3. CASE name \notin DOMAIN resolved /\ pair \notin DOMAIN resolved /\ provider \notin DOMAIN resolved
    <3>1. \A j \in 1..Len(three) : three[j] \notin DOMAIN resolved
      BY <1>3, <2>3
    <3>2. FirstMode(three) = ""
      BY <3>1, NonePresent
    <3> QED BY <2>3, <3>2
  <2> QED BY <2>0, <2>1, <2>2, <2>3
<1> QED BY <1>0, <1>1, <1>4, <1>5

\* A name that a request may be served by has its provider in the configuration.
LEMMA AliasFacts ==
    ASSUME config \in Configs, NEW a \in Aliases
    PROVE  a.provider \in Providers
<1>1. CASE a \in BootNames
  BY <1>1, BootNameFacts
<1>2. CASE \E p \in Providers : \E m \in Routed(p) \cup {"unlisted"} : a \in {Slug(p, m), Named(p, m)}
  <2>0. PICK p \in Providers : \E m \in Routed(p) \cup {"unlisted"} : a \in {Slug(p, m), Named(p, m)}
    BY <1>2
  <2>1. PICK m \in Routed(p) \cup {"unlisted"} : a \in {Slug(p, m), Named(p, m)}
    BY <2>0
  <2>2. Slug(p, m).provider = p
    BY DEF Slug
  <2>3. Named(p, m).provider = p
    BY DEF Named
  <2> QED BY <2>1, <2>2, <2>3
<1> QED BY <1>1, <1>2 DEF Aliases

\* What the boot left under the keys of a pair and of its provider.
LEMMA PairServed ==
    ASSUME IInv, phase = "serving", ~reloaded, NEW p \in Providers, NEW m
    PROVE  /\ ProviderKey(p) \in DOMAIN resolved
           /\ CandidateKey(p, m) \in DOMAIN resolved <=> \E a \in BootNames : a.provider = p /\ a.model = m
           /\ CandidateKey(p, m) \notin DOMAIN resolved => Settings(p, m) = {WebSearchForProvider(p)}
<1>1. KeysInv /\ \A a : Visited(a)
  BY DEF IInv, Visited
<1>2. ASSUME NEW a \in BootNames, a.provider = p, a.model = m
      PROVE  CandidateKey(p, m) \in DOMAIN resolved
  BY <1>1, <1>2 DEF KeysInv, PairKey
<1>3. CandidateKey(p, m) \in DOMAIN resolved => \E a \in BootNames : a.provider = p /\ a.model = m
  BY <1>1 DEF KeysInv
<1>4. ProviderKey(p) \in DOMAIN resolved
  BY <1>1 DEF KeysInv
<1>5. CandidateKey(p, m) \notin DOMAIN resolved => Settings(p, m) = {WebSearchForProvider(p)}
  BY <1>2 DEF Settings, NamesOf
<1> QED BY <1>2, <1>3, <1>4, <1>5

\* What a request that comes now is served with.
LEMMA ServedWell ==
    ASSUME IInv, phase = "serving", NEW a \in Aliases, NEW req,
           req = [alias |-> a, mode |-> ServedMode(a), tools |-> ServedTools(a), reloaded |-> reloaded]
    PROVE  req \in Request /\ (~reloaded => ServedAsSet(req)) /\ AutoFollows(req)
<1>0. /\ config \in Configs /\ reloaded \in BOOLEAN /\ \A k \in DOMAIN resolved : resolved[k] \in Supports
      /\ reloaded => DOMAIN resolved = {}
      /\ ~reloaded => KeysInv /\ ProvidersInv /\ PairsInv /\ NamesInv
      /\ \A b : Visited(b)
  BY DEF IInv, TypeInv, Visited
<1>1. PICK p, m : p = a.provider /\ m = a.model /\ p \in Providers
  BY <1>0, AliasFacts
<1>2. PICK mode : mode = ServedMode(a)
  OBVIOUS
<1>3. PICK tools : tools = ServedTools(a)
  OBVIOUS
<1>4. req.alias = a /\ req.mode = mode /\ req.tools = tools /\ req.reloaded = reloaded
  BY <1>2, <1>3
<1>5. /\ ResolvedForModel(a) = IF ModelKey(a) \in DOMAIN resolved THEN resolved[ModelKey(a)]
                               ELSE ResolvedForCandidate(a)
      /\ ResolvedForCandidate(a) =
            IF CandidateKey(p, m) \in DOMAIN resolved THEN resolved[CandidateKey(p, m)]
            ELSE IF ProviderKey(p) \in DOMAIN resolved THEN resolved[ProviderKey(p)]
            ELSE ""
  BY <1>1, LookupsFound DEF PairKey
<1>6. mode \in Supports \cup {""}
  <2>1. ResolvedForCandidate(a) \in Supports \cup {""}
    BY <1>0, <1>5
  <2>2. ResolvedForModel(a) \in Supports \cup {""}
    BY <1>0, <1>5, <2>1
  <2> QED BY <1>2, <2>1, <2>2 DEF ServedMode
<1>7. tools \in {"native", "injected", "none"}
  BY <1>3 DEF ServedTools
<1>8. req \in Request
  BY <1>0, <1>2, <1>3, <1>6, <1>7 DEF Request
<1>9. /\ tools = "native" <=> mode = "enabled"
      /\ mode = "injected" /\ InjectedSearchConfigured(a) /\ Protocol(p) # "openai-response"
            => tools = "injected"
  BY <1>1, <1>2, <1>3 DEF ServedTools
<1>10. ASSUME reloaded
       PROVE  AutoFollows(req)
  <2>1. ResolvedForCandidate(a) = "" /\ ResolvedForModel(a) = ""
    BY <1>0, <1>5, <1>10
  <2>2. mode = ""
    BY <1>2, <2>1 DEF ServedMode
  <2>3. mode \notin {"injected", "disabled", "enabled"}
    BY <2>2
  <2> QED BY <1>4, <1>9, <2>3 DEF AutoFollows, FollowsProbes
<1>11. ASSUME ~reloaded, Protocol(p) = "anthropic"
       PROVE  /\ CandidateKey(p, m) \in DOMAIN resolved => mode = resolved[CandidateKey(p, m)]
              /\ CandidateKey(p, m) \notin DOMAIN resolved => mode = resolved[ProviderKey(p)]
              /\ ProviderKey(p) \in DOMAIN resolved
  <2>1. ProviderKey(p) \in DOMAIN resolved
    BY <1>11, <1>1, PairServed
  <2>2. "" \notin Supports
    BY DEF Supports
  <2>3. ResolvedForCandidate(a) # ""
    BY <1>0, <1>5, <2>1, <2>2
  <2>4. mode = ResolvedForCandidate(a)
    BY <1>1, <1>2, <1>11, <2>3 DEF ServedMode
  <2> QED BY <1>5, <2>1, <2>4
<1>12. ASSUME ~reloaded
       PROVE  AutoFollows(req)
  <2>1. CASE Protocol(p) = "anthropic" /\ Settings(p, m) = {"auto"}
    <3>1. ASSUME CandidateKey(p, m) \in DOMAIN resolved
          PROVE  FromProbes(p, mode, KeyedPair(p, m))
      BY <1>0, <1>1, <1>11, <1>12, <2>1, <3>1 DEF PairsInv
    <3>2. ASSUME CandidateKey(p, m) \notin DOMAIN resolved
          PROVE  FromProbes(p, mode, config.tavily)
      <4>1. WebSearchForProvider(p) = "auto"
        BY <1>1, <1>12, <2>1, <3>2, PairServed
      <4>2. Probes(p)
        BY <2>1, <4>1 DEF Probes
      <4> QED BY <1>0, <1>1, <1>11, <1>12, <2>1, <3>2, <4>2 DEF ProvidersInv
    <3>3. /\ mode = "enabled" => Answered(p, TRUE)
          /\ mode = "injected" => Refused(p) /\ (KeyedPair(p, m) \/ config.tavily)
          /\ mode = "disabled" => Refused(p) /\ ~config.tavily
      BY <3>1, <3>2 DEF FromProbes
    <3>4. ASSUME mode = "injected",
                 \A b \in NamesOf(p, m) : InjectedSearchConfigured(b) = InjectedSearchConfigured(a)
          PROVE  tools = "injected"
      <4>1. InjectedSearchConfigured(a)
        BY <1>0, <3>3, <3>4, KeyFlags DEF KeyedPair
      <4>2. Protocol(p) # "openai-response"
        BY <2>1
      <4> QED BY <1>9, <3>4, <4>1, <4>2
    <3>5. FollowsProbes(req)
      BY <1>1, <1>4, <1>9, <3>3, <3>4 DEF FollowsProbes, Answered, Refused
    <3> QED BY <3>5 DEF AutoFollows
  <2>2. CASE ~(Protocol(p) = "anthropic" /\ Settings(p, m) = {"auto"})
    BY <1>1, <1>4, <2>2 DEF AutoFollows
  <2> QED BY <2>1, <2>2
<1>13. ASSUME ~reloaded, Protocol(p) = "anthropic"
       PROVE  /\ a \in BootNames /\ WebSearchForModel(a) # "auto" /\ Undisputed(a)
                    => mode = WebSearchForModel(a)
              /\ "auto" \notin Settings(p, m) => mode \in Settings(p, m)
  <2>1. CASE CandidateKey(p, m) \notin DOMAIN resolved
    <3>1. Settings(p, m) = {WebSearchForProvider(p)} /\ a \notin BootNames
      BY <1>1, <1>13, <2>1, PairServed
    <3>2. ASSUME "auto" \notin Settings(p, m)
          PROVE  mode \in Settings(p, m)
      <4>1. ~Probes(p) /\ SettledMode(p) = WebSearchForProvider(p)
        BY <1>13, <3>1, <3>2 DEF Probes, SettledMode
      <4> QED BY <1>0, <1>1, <1>11, <1>13, <2>1, <3>1, <4>1 DEF ProvidersInv
    <3> QED BY <3>1, <3>2
  <2>2. CASE CandidateKey(p, m) \in DOMAIN resolved
    <3>1. mode = resolved[CandidateKey(p, m)] /\ HoldsFor(p, m, mode)
      BY <1>0, <1>1, <1>11, <1>13, <2>2 DEF PairsInv
    <3>2. PICK b \in BootNames : b.provider = p /\ b.model = m
      BY <1>1, <1>13, <2>2, PairServed
    <3>3. b \in NamesOf(p, m) /\ (a \in BootNames => a \in NamesOf(p, m))
      BY <1>1, <3>2 DEF NamesOf
    <3> QED BY <1>0, <3>1, <3>3 DEF HoldsFor
  <2> QED BY <2>1, <2>2
<1>14. ASSUME ~reloaded, Protocol(p) = "openai-response",
              NEW own, own = IF a \in BootNames THEN {WebSearchForModel(a)} ELSE Settings(p, m)
       PROVE  \E s \in own : mode = ResponsesMode(s)
  <2>1. mode = ResolvedForModel(a)
    BY <1>1, <1>2, <1>14 DEF ServedMode
  <2>2. CASE a \in BootNames
    <3>1. ModelKey(a) \in DOMAIN resolved
      BY <1>0, <1>14, <2>2 DEF KeysInv
    <3>2. resolved[ModelKey(a)] = ResponsesMode(WebSearchForModel(a))
      BY <1>0, <1>1, <1>14, <2>2, <3>1 DEF NamesInv
    <3> QED BY <1>5, <1>14, <2>1, <2>2, <3>1, <3>2
  <2>3. CASE a \notin BootNames
    <3>1. ModelKey(a) \notin DOMAIN resolved
      BY <1>0, <1>14, <2>3 DEF KeysInv
    <3>2. CASE CandidateKey(p, m) \in DOMAIN resolved
      <4>1. \E s \in Settings(p, m) : resolved[CandidateKey(p, m)] = ResponsesMode(s)
        BY <1>0, <1>1, <1>14, <3>2 DEF PairsInv
      <4> QED BY <1>5, <1>14, <2>1, <2>3, <3>1, <3>2, <4>1
    <3>3. CASE CandidateKey(p, m) \notin DOMAIN resolved
      <4>1. ProviderKey(p) \in DOMAIN resolved /\ Settings(p, m) = {WebSearchForProvider(p)}
        BY <1>1, <1>14, <3>3, PairServed
      <4>2. ~Probes(p) /\ SettledMode(p) = ResponsesMode(WebSearchForProvider(p))
        BY <1>14 DEF Probes, SettledMode
      <4>3. resolved[ProviderKey(p)] = ResponsesMode(WebSearchForProvider(p))
        BY <1>0, <1>1, <1>14, <4>1, <4>2 DEF ProvidersInv
      <4> QED BY <1>5, <1>14, <2>1, <2>3, <3>1, <3>3, <4>1, <4>3
    <3> QED BY <3>2, <3>3
  <2> QED BY <2>2, <2>3
<1>15. ~reloaded => ServedAsSet(req)
  <2>0. PICK own : own = IF a \in BootNames THEN {WebSearchForModel(a)} ELSE Settings(p, m)
    OBVIOUS
  <2>1. ASSUME ~reloaded, Protocol(p) = "openai-response"
        PROVE  \E s \in own : mode = ResponsesMode(s)
    BY <1>14, <2>0, <2>1
  <2>2. ServedAsSet(req) <=>
          /\ Protocol(p) = "anthropic" =>
                /\ a \in BootNames /\ WebSearchForModel(a) # "auto" /\ Undisputed(a)
                      => mode = WebSearchForModel(a)
                /\ "auto" \notin Settings(p, m) => mode \in Settings(p, m)
          /\ Protocol(p) = "openai-response" => \E s \in own : mode = ResponsesMode(s)
    BY <1>1, <1>4, <2>0 DEF ServedAsSet
  <2> QED BY <1>13, <2>1, <2>2
<1> QED BY <1>0, <1>8, <1>10, <1>12, <1>15

LEMMA ServesKeeps == IInv /\ Serves => IInv'
<1> SUFFICES ASSUME IInv, Serves PROVE IInv'
  OBVIOUS
<1>1. /\ phase = "serving" /\ UNCHANGED <<config, phase, left, probing, probed, resolved, reloaded>>
      /\ served \in Seq(Request)
  BY DEF Serves, IInv, TypeInv
<1>2. PICK a \in Aliases :
         served' = Append(served, [alias |-> a, mode |-> ServedMode(a),
                                   tools |-> ServedTools(a), reloaded |-> reloaded])
  BY DEF Serves
<1>3. PICK req : req = [alias |-> a, mode |-> ServedMode(a), tools |-> ServedTools(a), reloaded |-> reloaded]
  OBVIOUS
<1>4. req \in Request /\ (~reloaded => ServedAsSet(req)) /\ AutoFollows(req)
  BY <1>1, <1>3, ServedWell
<1>5. req.reloaded = reloaded
  BY <1>3
<1>6. /\ served' \in Seq(Request)
      /\ \A k \in DOMAIN served' : served'[k] = req \/ (k \in DOMAIN served /\ served'[k] = served[k])
  BY <1>1, <1>2, <1>3, <1>4, AppendProperties, LenProperties
<1>7. /\ Providers' = Providers /\ BootNames' = BootNames /\ PairsListed' = PairsListed
      /\ Aliases' = Aliases /\ Models' = Models
      /\ \A q : /\ Protocol(q)' = Protocol(q) /\ Probes(q)' = Probes(q)
                /\ SettledMode(q)' = SettledMode(q)
                /\ FirstUpstreamModels(q)' = FirstUpstreamModels(q)
      /\ \A q, n : /\ Settings(q, n)' = Settings(q, n) /\ NamesOf(q, n)' = NamesOf(q, n)
                   /\ KeyedPair(q, n)' = KeyedPair(q, n)
      /\ \A b : WebSearchForModel(b)' = WebSearchForModel(b) /\ Undisputed(b)' = Undisputed(b)
  BY <1>1, ConfigFixed
<1>8. TypeInv'
  <2>1. Probed' = Probed /\ Request' = Request
    BY <1>7 DEF Probed, Request
  <2> QED BY <1>1, <1>6, <1>7, <2>1 DEF TypeInv, IInv
<1>9. \A b : Visited(b)' <=> Visited(b)
  BY <1>1 DEF Visited
<1>10. \A q, native : Answered(q, native)' <=> Answered(q, native)
  BY <1>1 DEF Answered
<1>11. /\ \A q, mo, k : FromProbes(q, mo, k) => FromProbes(q, mo, k)'
       /\ \A x : AutoFollows(x) => AutoFollows(x)'
  BY <1>1, <1>10, FollowingKept
<1>19. \A q, n, mo : HoldsFor(q, n, mo) => HoldsFor(q, n, mo)'
  BY <1>7, <1>9 DEF HoldsFor
<1>12. KeysInv => KeysInv'
  BY <1>1, <1>7, <1>9 DEF KeysInv, ModelKey, CandidateKey, ProviderKey, PairKey
<1>13. ProvidersInv => ProvidersInv'
  BY <1>1, <1>7, <1>11 DEF ProvidersInv, ProviderKey
<1>14. PairsInv => PairsInv'
  BY <1>1, <1>7, <1>11, <1>19 DEF PairsInv, CandidateKey, ResponsesMode
<1>15. NamesInv => NamesInv'
  BY <1>1, <1>7 DEF NamesInv, ModelKey, ResponsesMode
<1>16. ProbesInv => ProbesInv'
  BY <1>1 DEF ProbesInv, PairKey, CandidateKey
<1>17. \A x : ServedAsSet(x) => ServedAsSet(x)'
  BY <1>7 DEF ServedAsSet, ResponsesMode
<1>18. ServedInv'
  <2>1. ASSUME NEW k \in DOMAIN served'
        PROVE  (~served'[k].reloaded => ServedAsSet(served'[k])) /\ AutoFollows(served'[k])
    <3>1. CASE served'[k] = req
      BY <1>4, <1>5, <3>1
    <3>2. CASE k \in DOMAIN served /\ served'[k] = served[k]
      BY <3>2 DEF ServedInv, IInv
    <3> QED BY <1>6, <3>1, <3>2
  <2>2. ASSUME NEW k \in DOMAIN served', NEW x, x = served'[k]
        PROVE  (~x.reloaded => ServedAsSet(x)') /\ AutoFollows(x)'
    BY <1>11, <1>17, <2>1, <2>2
  <2> QED BY <2>2 DEF ServedInv
<1> QED BY <1>1, <1>8, <1>12, <1>13, <1>14, <1>15, <1>16, <1>18 DEF IInv

LEMMA ReloadKeeps == IInv /\ Reloads => IInv'
<1> SUFFICES ASSUME IInv, Reloads PROVE IInv'
  OBVIOUS
<1>1. /\ phase = "serving" /\ reloaded' = TRUE /\ resolved' = <<>>
      /\ UNCHANGED <<config, phase, left, probing, probed, served>>
  BY DEF Reloads
<1>2. /\ Providers' = Providers /\ PairsListed' = PairsListed /\ Aliases' = Aliases /\ Models' = Models
      /\ \A q : Probes(q)' = Probes(q)
  BY <1>1, ConfigFixed
<1>3. Probed' = Probed /\ Request' = Request
  BY <1>2 DEF Probed, Request
<1>4. DOMAIN resolved' = {}
  BY <1>1
<1>5. TypeInv'
  BY <1>1, <1>2, <1>3, <1>4 DEF TypeInv, IInv
<1>6. ProbesInv'
  BY <1>1 DEF ProbesInv, IInv, PairKey, CandidateKey
<1>7. \A q, native : Answered(q, native) => Answered(q, native)'
  BY <1>1 DEF Answered
<1>8. ServedInv'
  BY <1>1, <1>7, ServedKept DEF IInv
<1> QED BY <1>1, <1>5, <1>6, <1>8 DEF IInv

---------------------------------------------------------------------------
(* Theorems *)

LEMMA Inductive == Spec => []IInv
<1>1. Init => IInv
  BY InitHolds
<1>2. IInv /\ [Next]_vars => IInv'
  BY StutterKeeps, PhaseKeeps, ModelKeeps, ProviderKeeps, ProbeKeeps, ServesKeeps, ReloadKeeps DEF Next
<1> QED BY <1>1, <1>2, PTL DEF Spec

\* The boot has one phase after another, probes only the providers that ask for
\* it, and gives every key a mode that a setting can name: resolvePerProvider-
\* WebSearch and what it writes to the provider manager.
THEOREM TypeCorrect == Spec => []TypeInv
<1>1. IInv => TypeInv
  BY DEF IInv
<1> QED BY <1>1, Inductive, PTL

\* Whatever the configuration, in whatever order the maps give the names of a
\* pair and whatever the probes answer, a request is served as its own name is
\* set where no other disputes it, as one of its pair's names where none leaves
\* it to the probes, and at a Responses provider as its own name says.
THEOREM SettingsRespected == Spec => []SettingsServed
<1>1. IInv => SettingsServed
  BY DEF IInv, ServedInv, SettingsServed
<1> QED BY <1>1, Inductive, PTL

\* However many providers are probed side by side and whatever they answer, a
\* pair that says auto is searched as its provider's probes allow, and no pair
\* is asked about twice.
THEOREM ProbesFollowed == Spec => []AutoFollowsProbes
<1>1. IInv => AutoFollowsProbes
  BY DEF IInv, ServedInv, AutoFollows, ProbesInv, AutoFollowsProbes
<1> QED BY <1>1, Inductive, PTL
=============================================================================
