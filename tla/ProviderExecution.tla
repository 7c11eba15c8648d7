-------------------------- MODULE ProviderExecution --------------------------
(***************************************************************************)
(* How the gateway of the managed edition calls providers: the process     *)
(* that media_bridge_gateway/entrypoints.py puts together, the generation  *)
(* it serves (runtime.py), ProviderResponsesDownstream (downstream.py),    *)
(* provider_selection.py, and the backends of media_bridge/backends.py and *)
(* media_bridge/llm_backends.py.                                           *)
(*                                                                         *)
(* A provider has its settings in three places: in the table of the        *)
(* control plane, in the published snapshot, and, for the analysis         *)
(* provider, in the backend that the process built when it started.  Its   *)
(* key is in the table only, and is read when a call is made.              *)
(***************************************************************************)
EXTENDS Naturals, FiniteSets

CONSTANTS Llms,           \* ids of the providers of kind "llm"; Nat, for their order
          Readers,        \* ids of the providers of kind "analysis", in order of preference
          Viewer,         \* the id of the provider "openai-vision"
          Supporting,     \* LLM providers whose model is verified for efforts
          OptionCapable,  \* LLM providers whose protocol takes generation options
          Targets,        \* model ids; Nat, in the order of the registry
          Routings,       \* what an administrator may have published: below
          Sites,          \* endpoints
          MaxEdits,       \* bound: updates of the table
          Nil             \* no provider, profile, process or effort; the model "auto"

\* Providers and models are compared by their places in an order.
ASSUME OrderAssumption == Llms \cup Readers \cup Targets \subseteq Nat

ASSUME NilAssumption == Nil \notin Nat \cup {"low", "high"}

ASSUME BoundsAssumption == MaxEdits \in Nat /\ Sites # {}

Vendors == Llms \cup Readers \cup {Viewer}

\* The lowest id: providers are compared by it when all else is equal.
First(ids) == CHOOSE p \in ids : \A q \in ids : p <= q

\* A member of Routings: each model's provider, and whether the model is bound
\* to a profile that is switched off and so not published; the LLM providers
\* of the one published profile; the efforts of the policy and the providers.
RoutingShape ==
    [model : [Targets -> [provider : Llms \cup {Nil}, bound : BOOLEAN]],
     profile : ((SUBSET Llms) \ {{}}) \cup {Nil},
     policy : {Nil, "low"},
     own : [Llms -> {Nil, "high"}]]

ASSUME RoutingsAssumption == Routings \subseteq RoutingShape

VARIABLES
    table,    \* table providers
    edits,    \* updates of it so far
    serving,  \* the current generation: what was published, see Generation
    reader,   \* the analysis backends the process was started with
    inv       \* the request that is being executed

executionVars == <<table, edits, serving, reader, inv>>

\* A row of the table: its switch, its endpoint, and whether the provider can be
\* called.  An LLM provider may be stored with capabilities without "text", or
\* without a value that a call needs, and the vision provider without its model.
Fits == {"full", "textless", "incomplete"}
Rows == [on : BOOLEAN, site : Sites, fit : Fits]

\* A generation: the providers and the routing of one snapshot.
Generation == [rows : [Vendors -> Rows], routing : Routings]

\* A provider that is called at an endpoint.
Backends == [id : Vendors, site : Sites]

Outcomes == {"model_unavailable", "configuration", "no_provider", "cannot_serve", "payload_invalid",
             "unsupported_options", "success", "provider_failed"}

\* A request: how far it is, the generation it is pinned to, the model it
\* asks for, whether that was left to the gateway, the provider that is called
\* for it, and how it ended.
Request ==
    [pc : {"none", "read", "reading", "execute", "called", "ended"},
     gen : Generation \cup {Nil}, target : Targets \cup {Nil}, auto : BOOLEAN,
     call : Backends \cup {Nil}, outcome : Outcomes \cup {Nil}]

NoRequest == [pc |-> "none", gen |-> Nil, target |-> Nil, auto |-> FALSE, call |-> Nil, outcome |-> Nil]

ExecutionInit ==
    /\ table = [p \in Vendors |-> [on |-> TRUE, site |-> CHOOSE s \in Sites : TRUE, fit |-> "full"]]
    /\ edits = 0
    /\ serving \in [rows : {table}, routing : Routings]
    /\ reader = Nil
    /\ inv = NoRequest

-----------------------------------------------------------------------------
(* The control plane *)

\* update_provider: switched on or off, another endpoint, other capabilities or
\* values; of a reader only the endpoint matters, which cannot be missing.
UpdateProvider(p) ==
    /\ edits < MaxEdits
    /\ \E row \in Rows :
         /\ row # table[p]
         /\ row.fit = "textless" => p \in Llms
         /\ row.fit = "incomplete" => p \in Llms \cup {Viewer}
         /\ table' = [table EXCEPT ![p] = row]
    /\ edits' = edits + 1
    /\ UNCHANGED <<serving, reader, inv>>

\* A snapshot is published, of the providers and of any routing that the
\* administrator has set up by then, and loaded.
Load ==
    /\ reader # Nil
    /\ serving' \in [rows : {table}, routing : Routings] \ {serving}
    /\ UNCHANGED <<table, edits, reader, inv>>

-----------------------------------------------------------------------------
(* The process *)

\* build_gateway_process_from_environment: the first analysis provider that is
\* switched on, without which the process does not start, and the vision
\* provider, which may be missing but not incomplete.
Start ==
    /\ reader = Nil
    /\ LET on == {p \in Readers : table[p].on}
           At(p) == [id |-> p, site |-> table[p].site]
       IN /\ on # {}
          /\ table[Viewer].on => table[Viewer].fit = "full"
          /\ reader' = [ocr |-> At(First(on)), vision |-> IF table[Viewer].on THEN At(Viewer) ELSE Nil]
    /\ UNCHANGED <<table, edits, serving, inv>>

\* run_gateway ends, and the request with it.
Stop ==
    /\ reader # Nil
    /\ reader' = Nil
    /\ inv' = NoRequest
    /\ UNCHANGED <<table, edits, serving>>

\* db_provider_credential: read in the table when a call is made; a provider
\* that is switched off has no key.
HasKey(p) == table[p].on

-----------------------------------------------------------------------------
(* Routing, in a generation g *)

\* The LLM providers that may serve a model: those of the published profile,
\* unless the model is bound to another one; else the model's own provider.
RouteOf(g, m) ==
    IF g.routing.profile # Nil /\ ~g.routing.model[m].bound THEN g.routing.profile
    ELSE {g.routing.model[m].provider} \ {Nil}

\* The candidates for a model.
Enabled(g, m) == {p \in RouteOf(g, m) : g.rows[p].on}

\* A faulty choice that asks the model's own provider and not the route.
AutoOfOwn(g) ==
    LET Own(m) == {g.routing.model[m].provider} \ {Nil}
        served == {m \in Targets : \E p \in Own(m) : g.rows[p].on}
    IN IF served = {} THEN Nil ELSE First(served)

\* _auto_model_for_snapshot: the first model with an enabled LLM provider,
\* whether or not that one can be called.
AutoModel(g) ==
    LET served == {m \in Targets : Enabled(g, m) # {}}
    IN IF served = {} THEN Nil ELSE First(served)

\* A faulty selection that takes the first of the route and looks at its values
\* only.
ProviderOfAny(g, m) ==
    LET chosen == First(RouteOf(g, m))
    IN IF RouteOf(g, m) = {} \/ g.rows[chosen].fit = "incomplete" THEN Nil ELSE chosen

\* _provider_for_target and select_provider.  All candidates have the same
\* priority, health and cost, so that every strategy takes the lowest id of
\* those that can do text; when that one lacks a value, no other is asked.
ProviderFor(g, m) ==
    LET able == {p \in Enabled(g, m) : g.rows[p].fit # "textless"}
    IN IF able = {} \/ g.rows[First(able)].fit = "incomplete" THEN Nil ELSE First(able)

\* The effort that is sent: the request's, or the policy's, or the provider's.
Effort(g, p, asked) ==
    CASE asked # Nil -> asked
      [] asked = Nil /\ g.routing.policy # Nil -> g.routing.policy
      [] OTHER -> g.routing.own[p]

-----------------------------------------------------------------------------
(* A request *)

\* The request ends with an outcome.
Over(outcome) == [inv EXCEPT !.pc = "ended", !.call = Nil, !.outcome = outcome]

\* The routes and _resolve_public_request: the request is resolved in the
\* generation it is pinned to; Nil stands for "auto" and for no model.  If it has
\* media, these are read first.
Accept ==
    /\ reader # Nil /\ inv.pc \in {"none", "ended"}
    /\ \E wanted \in Targets \cup {Nil}, pc \in {"read", "execute"} :
         LET target == IF wanted = Nil THEN AutoModel(serving) ELSE wanted IN
         inv' = IF target = Nil
                THEN [NoRequest EXCEPT !.pc = "ended", !.auto = TRUE, !.outcome = "model_unavailable"]
                ELSE [pc |-> pc, gen |-> serving, target |-> target, auto |-> wanted = Nil,
                      call |-> Nil, outcome |-> Nil]
    /\ UNCHANGED <<table, edits, serving, reader>>

\* The request calls p at site, or has no key to do so.
Calls(p, site, pc) ==
    inv' = IF ~HasKey(p) THEN Over("configuration")
           ELSE [inv EXCEPT !.pc = pc, !.call = [id |-> p, site |-> site]]

\* UpstageOcrBackend.extract: the endpoint is the one the process was started
\* with.
ReadText ==
    /\ inv.pc = "read"
    /\ Calls(reader.ocr.id, reader.ocr.site, "reading")
    /\ UNCHANGED <<table, edits, serving, reader>>

\* OpenAICompatibleVisionBackend.describe: likewise; without a vision provider
\* another backend is in its place, which always fails.
Describe ==
    /\ inv.pc = "read"
    /\ IF reader.vision = Nil THEN inv' = Over("configuration")
       ELSE Calls(reader.vision.id, reader.vision.site, "reading")
    /\ UNCHANGED <<table, edits, serving, reader>>

\* ProviderResponsesDownstream.invoke up to the call.  The effort that the
\* request asks for, and whether it has text and generation options, are looked
\* at here only.
Execute ==
    /\ inv.pc = "execute"
    /\ \E asked \in {Nil, "low"}, text, options \in BOOLEAN :
       LET p == ProviderFor(inv.gen, inv.target) IN
       IF p = Nil THEN inv' = Over("no_provider")
       ELSE IF Effort(inv.gen, p, asked) # Nil /\ p \notin Supporting THEN inv' = Over("cannot_serve")
       ELSE IF ~text THEN inv' = Over("payload_invalid")
       ELSE IF options /\ p \notin OptionCapable THEN inv' = Over("unsupported_options")
       ELSE Calls(p, inv.gen.rows[p].site, "called")
    /\ UNCHANGED <<table, edits, serving, reader>>

\* The provider answers, or the call fails in one of several ways (a timeout, the
\* transport, an HTTP error, an answer without text); what an analysis provider
\* has read goes on to the LLM provider.
Answer ==
    /\ inv.pc \in {"reading", "called"}
    /\ \E outcome \in {"success", "provider_failed"} :
         inv' = IF inv.pc = "reading" /\ outcome = "success"
                THEN [inv EXCEPT !.pc = "execute", !.call = Nil]
                ELSE Over(outcome)
    /\ UNCHANGED <<table, edits, serving, reader>>

ExecutionNext ==
    \/ \E p \in Vendors : UpdateProvider(p)
    \/ Load \/ Start \/ Stop \/ Accept \/ ReadText \/ Describe \/ Execute \/ Answer

ExecutionSpec == ExecutionInit /\ [][ExecutionNext]_executionVars

-----------------------------------------------------------------------------
(* Properties *)

\* The type of the state: what the tables, the process and the request can be.
ExecutionTypeOK ==
    /\ table \in [Vendors -> Rows] /\ serving \in Generation
    /\ edits \in 0..MaxEdits
    /\ reader \in [ocr : Backends, vision : Backends \cup {Nil}] \cup {Nil}
    /\ inv \in Request
    /\ reader = Nil => inv = NoRequest

\* Routing as published (_provider_for_target): an LLM provider that is called
\* is one that the generation of the request routes its model to and has
\* switched on, capable of text and complete, at the endpoint published there,
\* whatever was published since.
OnlyRouted ==
    inv.pc = "called" =>
        LET row == inv.gen.rows[inv.call.id] IN
        /\ inv.call.id \in Enabled(inv.gen, inv.target)
        /\ row.fit = "full"
        /\ inv.call.site = row.site

\* "auto" is routed (_auto_model_for_snapshot, _provider_for_target): the two
\* compute the route of a model on their own, and only the second asks what a
\* provider can do.  A request for "auto" that ends without a provider was
\* given a model whose route has a provider that is switched on, and one of
\* those cannot be called: the two disagree about nothing else.
AutoIsRouted ==
    inv.pc = "ended" /\ inv.auto /\ inv.outcome = "no_provider" =>
        \E p \in Enabled(inv.gen, inv.target) : inv.gen.rows[p].fit # "full"

\* A provider is called as published (_provider_for_target, _auto_model_for_snapshot).
RoutedAsPublished == OnlyRouted /\ AutoIsRouted
=============================================================================
