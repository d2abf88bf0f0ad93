---------------------------- MODULE ConfigData ----------------------------
(***************************************************************************)
(* The configuration document of Moon Bridge as the control plane sees it: *)
(* the five main tables of the config store, the static validation that    *)
(* guards the runtime, the graph operations (PATCH, create, delete) on a   *)
(* document in memory, and the staged changes on the tables.               *)
(*                                                                         *)
(* Only what validation and the control flow tell apart is kept.  A model, *)
(* provider or offer is its key.  A route is the provider it names.  The   *)
(* settings are one hot-reloadable field ("defaults") and one field that   *)
(* needs a restart ("server").                                             *)
(***************************************************************************)
EXTENDS Integers, FiniteSets

CONSTANTS Providers,    \* provider keys
          Models,       \* model slugs
          Aliases,      \* route aliases
          Values,       \* values of a settings field
          NoProvider    \* what an absent route maps to

ASSUME NoProviderAssumption == NoProvider \notin Providers

Offers == Providers \X Models

Config == [settings  : [defaults : Values, server : Values],
           models    : SUBSET Models,
           providers : SUBSET Providers,
           offers    : SUBSET Offers,
           routes    : [Aliases -> Providers \cup {NoProvider}]]

---------------------------------------------------------------------------
(* Validation *)

HasProviderCatalog(c) == c.providers # {}

OffersResolve(c) == \A o \in c.offers : o[1] \in c.providers /\ o[2] \in c.models

HasSomeModel(c) == c.offers # {} \/ \E a \in Aliases : c.routes[a] # NoProvider

RoutesResolve(c) ==
    \A a \in Aliases : c.routes[a] # NoProvider => c.routes[a] \in c.providers

\* An offer row whose provider row is gone becomes a provider with no
\* base_url, which validation rejects: OffersResolve covers it.
Valid(c) == /\ HasProviderCatalog(c)
            /\ OffersResolve(c)
            /\ HasSomeModel(c)
            /\ RoutesResolve(c)

---------------------------------------------------------------------------
(* The graph operations, applied to a document in memory *)

PatchOps ==
         [kind : {"defaults"}, value : Values]
    \cup [kind : {"server"}, value : Values]
    \cup [kind : {"route"}, alias : Aliases, provider : Providers]

PatchApplies(c, op) == op.kind = "route" => c.routes[op.alias] # NoProvider

Patched(c, op) ==
    CASE op.kind = "defaults" -> [c EXCEPT !.settings.defaults = op.value]
      [] op.kind = "server"   -> [c EXCEPT !.settings.server = op.value]
      [] op.kind = "route"    -> [c EXCEPT !.routes[op.alias] = op.provider]

Resources ==
         [kind : {"provider"}, provider : Providers]
    \cup [kind : {"model"}, model : Models]
    \cup [kind : {"offer"}, provider : Providers, model : Models]
    \cup [kind : {"route"}, alias : Aliases, provider : Providers]

OfferOf(r) == <<r.provider, r.model>>

Exists(c, r) ==
    CASE r.kind = "provider" -> r.provider \in c.providers
      [] r.kind = "model"    -> r.model \in c.models
      [] r.kind = "offer"    -> OfferOf(r) \in c.offers
      [] r.kind = "route"    -> c.routes[r.alias] # NoProvider

\* createResource refuses a duplicate, and an offer of an unknown provider.
CreateApplies(c, r) ==
    /\ ~Exists(c, r)
    /\ r.kind = "offer" => r.provider \in c.providers

Created(c, r) ==
    CASE r.kind = "provider" -> [c EXCEPT !.providers = @ \cup {r.provider}]
      [] r.kind = "model"    -> [c EXCEPT !.models = @ \cup {r.model}]
      [] r.kind = "offer"    -> [c EXCEPT !.offers = @ \cup {OfferOf(r)}]
      [] r.kind = "route"    -> [c EXCEPT !.routes[r.alias] = r.provider]

DropProvider(c, p) ==
    [c EXCEPT !.providers = @ \ {p}, !.offers = {o \in @ : o[1] # p}]

\* The offers live inside the provider entry, and go with it.
Deleted(c, r) ==
    CASE r.kind = "provider" -> DropProvider(c, r.provider)
      [] r.kind = "model"    -> [c EXCEPT !.models = @ \ {r.model}]
      [] r.kind = "offer"    -> [c EXCEPT !.offers = @ \ {OfferOf(r)}]
      [] r.kind = "route"    -> [c EXCEPT !.routes[r.alias] = NoProvider]

\* Of the fields modelled, only "server" is declared not hot-reloadable.
RequiresRestart(kind) == kind = "server"

---------------------------------------------------------------------------
(* The staged changes: rows of the changes table *)

Changes ==
         [action : {"upsert", "delete"}, resource : Resources]
    \cup [action : {"set"}, value : Values]

\* What the staging handlers check, against the RUNTIME snapshot: a delete
\* names an existing resource (offers are not checked), and a model still
\* offered by some provider cannot be deleted.
MayStage(c, ch) ==
    ch.action = "delete" =>
        /\ ch.resource.kind # "offer" => Exists(c, ch.resource)
        /\ ch.resource.kind = "model" =>
               \A o \in c.offers : o[2] # ch.resource.model

\* One row applied to the tables.  Nothing is validated here.
ChangeApplied(c, ch) ==
    CASE ch.action = "set"    -> [c EXCEPT !.settings.defaults = ch.value]
      [] ch.action = "upsert" -> Created(c, ch.resource)
      [] ch.action = "delete" -> Deleted(c, ch.resource)
===========================================================================
