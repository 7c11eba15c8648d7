-------------------------- MODULE GatewayTransaction --------------------------
(***************************************************************************)
(* media_bridge_gateway/transaction.py with what it drives: the middleware  *)
(* that pins a generation to a request, the state store of follow-up        *)
(* conversations (state.py), the decisions of the pre-request gate          *)
(* (media_bridge/gate.py) and the seal check of the downstream              *)
(* (downstream.py).                                                         *)
(*                                                                          *)
(* Requests run as coroutines of one event loop: a step here reaches from   *)
(* one await to the next.  Between two steps of a request other requests    *)
(* run, the clock moves, and the snapshot reloader may swap generations.    *)
(* Texts are abstracted to where they come from, media to their modalities. *)
(***************************************************************************)
EXTENDS Integers, FiniteSets

CONSTANTS
    Slots,        \* requests the event loop can have in flight
    Clients,      \* credential selectors; the tenant is client-<selector>
    Models,       \* model identifiers a request may name
    MaxGen,       \* snapshot versions a gateway may run, 1 .. MaxGen
    Registry,     \* [version -> [model -> capability or Unknown]]
    Unknown,      \* the model is not in the registry of that version
    ResponseIds,  \* identifiers a provider may choose for its responses
    StateTtl,     \* ttl_seconds of the state store
    MaxStates,    \* max_entries of the state store
    MaxRequests,  \* bound on the requests of a behaviour
    MaxTime,      \* bound on the clock
    None

Modality == {"image", "pdf"}
Capability == [mods : SUBSET Modality, pdf : BOOLEAN, until : Nat]

ASSUME RegistryAssumption ==
    Registry \in [1 .. MaxGen -> [Models -> Capability \cup {Unknown}]]
ASSUME BoundsAssumption ==
    /\ MaxGen \in Nat \ {0} /\ StateTtl \in Nat \ {0} /\ MaxStates \in Nat \ {0}
    /\ MaxRequests \in Nat /\ MaxTime \in Nat
ASSUME DistinctAssumption ==
    /\ None \notin ResponseIds \cup Clients \cup Models
    /\ Unknown \notin Capability

VARIABLES
    now,      \* the clock
    gen,      \* version of VerifiedSnapshotRuntime.current()
    req,      \* the request in each slot
    records,  \* GatewayStateStore._records
    puts,     \* how many records were put: the order of the OrderedDict
    begun,    \* history: requests begun
    failed    \* history: requests that ended without a complete response

vars == <<now, gen, req, records, puts, begun, failed>>

Idle == [pc |-> "idle", id |-> 0, client |-> None, gen |-> 0, model |-> None,
         media |-> {}, prev |-> {}, plan |-> "none", out |-> {}, cap |-> "none",
         rid |-> None, origins |-> {}, lineage |-> {}]

RequestType ==
    [pc : {"idle", "body", "gate", "send", "stream"}, id : Nat,
     client : Clients \cup {None}, gen : 0 .. MaxGen, model : Models \cup {None},
     media : SUBSET Modality,    \* modalities of the current user input
     prev : SUBSET Modality,     \* media_modalities of the previous state
     plan : {"none", "text", "passthrough", "converted"},
     out : SUBSET Modality,      \* original media in the sealed payload
     cap : {"none", "vision", "non_vision"},
     rid : ResponseIds \cup {None},
     origins : SUBSET Clients,   \* history: whose text the payload contains
     lineage : SUBSET Modality]  \* history: media providers saw in this chain

StateRecord ==
    [client : Clients, rid : ResponseIds, mods : SUBSET Modality, expires : Nat,
     ord : Nat, id : Nat, origins : SUBSET Clients, lineage : SUBSET Modality]

Init ==
    /\ now = 0
    /\ gen = 1
    /\ req = [s \in Slots |-> Idle]
    /\ records = {}
    /\ puts = 0
    /\ begun = 0
    /\ failed = {}

-------------------------------------------------------------------------------
(* The capability registry of one generation. *)

Resolve(g, m, t) ==
    IF Registry[g][m] = Unknown THEN "unknown"
    ELSE IF Registry[g][m].until <= t THEN "stale"
    ELSE IF Registry[g][m].mods /= {} THEN "vision"
    ELSE "non_vision"

Supports(g, m, mods) == mods \subseteq Registry[g][m].mods

(* The state store.  A record is visible until it expires; putting one       *)
(* replaces the record of the same key and evicts the oldest over capacity.  *)

Live == {r \in records : r.expires > now}

\* A faulty lookup by response identifier alone.
LookupAnyTenant(c, rid) == {r \in Live : r.rid = rid}

Lookup(c, rid) == {r \in Live : r.client = c /\ r.rid = rid}

\* A faulty put that never evicts.
StoreUnbounded(r) == {x \in Live : ~(x.client = r.client /\ x.rid = r.rid)} \cup {r}

StoreWith(r) ==
    LET kept == {x \in Live : ~(x.client = r.client /\ x.rid = r.rid)} \cup {r}
    IN  IF Cardinality(kept) <= MaxStates THEN kept
        ELSE {x \in kept : \E y \in kept : y.ord < x.ord}

(* _check_state_capability: a state that descends from original media may     *)
(* only be continued by a model that takes those modalities itself.           *)
StateAllowed(g, m, mods, t) ==
    \/ mods = {}
    \/ /\ Resolve(g, m, t) = "vision"
       /\ Supports(g, m, mods)
       /\ "pdf" \in mods => Registry[g][m].pdf

\* A faulty gate that treats every target with some vision as able to take
\* whatever media the request has.
PlanByVisionOnly(g, m, media, t) ==
    IF Resolve(g, m, t) \in {"unknown", "stale"} THEN "blocked"
    ELSE IF media = {} THEN "text"
    ELSE IF Resolve(g, m, t) = "vision" THEN "passthrough"
    ELSE "converted"

(* prepare_for_model up to its first await: what will be done with the media. *)
Plan(g, m, media, t) ==
    IF \/ Resolve(g, m, t) \in {"unknown", "stale"}
       \/ Resolve(g, m, t) = "vision" /\ ~Supports(g, m, media) THEN "blocked"
    ELSE IF media = {} THEN "text"
    ELSE IF Resolve(g, m, t) = "vision" /\ media = {"pdf"} /\ Registry[g][m].pdf THEN "passthrough"
    ELSE "converted"

(* The capability the gate signs for a plan, and the media it leaves in.      *)
CapOf(plan, resolved) ==
    CASE plan = "passthrough" -> "vision"
      [] plan = "converted" -> "non_vision"
      [] OTHER -> resolved

OutOf(plan, media) == IF plan = "passthrough" THEN media ELSE {}

(* _verify_seal: the boundary checks the downstream repeats.                  *)
SealAccepted(plan, cap, out) ==
    /\ cap \in {"non_vision", "vision"}
    /\ plan = "converted" => cap = "non_vision"
    /\ cap = "non_vision" => out = {}

-------------------------------------------------------------------------------
Finish(s) == req' = [req EXCEPT ![s] = Idle]

\* DataPlaneAuthMiddleware: the request is bound to the current generation;
\* its body is then read from the network.
Authenticate(s) ==
    /\ req[s].pc = "idle" /\ begun < MaxRequests
    /\ begun' = begun + 1
    /\ \E c \in Clients :
          req' = [req EXCEPT ![s] = [Idle EXCEPT !.pc = "body", !.id = begun + 1,
                                                 !.client = c, !.gen = gen]]
    /\ UNCHANGED <<now, gen, records, puts, failed>>

\* invoke from its start to the first await: resolve the previous state,
\* check it against the target, plan the media.  A text request is sealed
\* and sent without an await in between.
Invoke(s) ==
    /\ req[s].pc = "body"
    /\ \E m \in Models, media \in SUBSET Modality, prevId \in ResponseIds \cup {None} :
       \E prior \in IF prevId = None THEN {None} ELSE Lookup(req[s].client, prevId) :
       LET prev == IF prior = None THEN {} ELSE prior.mods
           plan == Plan(req[s].gen, m, media, now)
           cap == CapOf(plan, Resolve(req[s].gen, m, now))
       IN
       /\ StateAllowed(req[s].gen, m, prev, now)
       /\ plan /= "blocked"
       /\ media = {} => SealAccepted(plan, cap, {})
       /\ records' = IF prevId = None THEN records ELSE Live
       /\ req' = [req EXCEPT ![s] =
             [@ EXCEPT !.pc = IF media = {} THEN "send" ELSE "gate",
                       !.model = m, !.media = media, !.prev = prev, !.plan = plan,
                       !.cap = cap,
                       !.origins = {req[s].client} \cup
                                      (IF prior = None THEN {} ELSE prior.origins),
                       !.lineage = IF prior = None THEN {} ELSE prior.lineage]]
    /\ UNCHANGED <<now, gen, puts, begun, failed>>

\* The gate has acquired and, unless it passes it through, converted and
\* cleaned up the media: the payload is sealed, verified and sent.
GateReady(s) ==
    /\ req[s].pc = "gate"
    /\ LET out == OutOf(req[s].plan, req[s].media) IN
       /\ SealAccepted(req[s].plan, req[s].cap, out)
       /\ req' = [req EXCEPT ![s].pc = "send", ![s].out = out,
                             ![s].lineage = @ \cup out]
    /\ UNCHANGED <<now, gen, records, puts, begun, failed>>

\* The early returns of invoke before its first await: a missing scope, an
\* unavailable state (whose lookup has purged the store), a malformed
\* payload, a refused state or target.
Refuse(s) ==
    /\ req[s].pc = "body"
    /\ failed' = failed \cup {req[s].id}
    /\ records' \in {records, Live}
    /\ Finish(s)
    /\ UNCHANGED <<now, gen, puts, begun>>

\* The later ones: a gate failure, a rejected seal, a transport error, an
\* invalid response; or the task is cancelled.
Fail(s) ==
    /\ req[s].pc \in {"gate", "send"}
    /\ failed' = failed \cup {req[s].id}
    /\ Finish(s)
    /\ UNCHANGED <<now, gen, records, puts, begun>>

\* A faulty _record_state that forgets the modalities of the previous state.
TaintOfThisRequest(r) == r.out

\* Media left in the prepared content, and that of the state it continues.
Taint(r) == r.out \cup r.prev

RecordState(r, rid) ==
    /\ records' = StoreWith([client |-> r.client, rid |-> rid, mods |-> Taint(r),
                             expires |-> now + StateTtl, ord |-> puts, id |-> r.id,
                             origins |-> r.origins, lineage |-> r.lineage])
    /\ puts' = puts + 1

\* A JSON response: the state is recorded unless the store refuses it.
Respond(s) ==
    /\ req[s].pc = "send"
    /\ \E rid \in ResponseIds :
          RecordState(req[s], rid) \/ UNCHANGED <<records, puts>>
    /\ Finish(s)
    /\ UNCHANGED <<now, gen, begun, failed>>

\* A faulty handler that records the state when the stream begins.
StreamStartRecords(s) ==
    /\ req[s].pc = "send"
    /\ \E rid \in ResponseIds :
          /\ req' = [req EXCEPT ![s].pc = "stream", ![s].rid = rid]
          /\ RecordState(req[s], rid)
    /\ UNCHANGED <<now, gen, begun, failed>>

\* A faulty handler that does not keep the identifier of the stream.
StreamStartLosesId(s) ==
    /\ req[s].pc = "send"
    /\ req' = [req EXCEPT ![s].pc = "stream"]
    /\ UNCHANGED <<now, gen, records, puts, begun, failed>>

\* An event stream: its first event names the response, nothing is recorded.
StreamStart(s) ==
    /\ req[s].pc = "send"
    /\ \E rid \in ResponseIds : req' = [req EXCEPT ![s].pc = "stream", ![s].rid = rid]
    /\ UNCHANGED <<now, gen, records, puts, begun, failed>>

StreamEnd(s) ==
    /\ req[s].pc = "stream"
    /\ RecordState(req[s], req[s].rid) \/ UNCHANGED <<records, puts>>
    /\ Finish(s)
    /\ UNCHANGED <<now, gen, begun, failed>>

\* Timeout, transport or size error in the stream, or the client leaves.
StreamBroken(s) ==
    /\ req[s].pc = "stream"
    /\ failed' = failed \cup {req[s].id}
    /\ Finish(s)
    /\ UNCHANGED <<now, gen, records, puts, begun>>

\* The reloader swaps in a newer snapshot; the state store is kept.
Swap ==
    /\ gen < MaxGen
    /\ \E g \in gen + 1 .. MaxGen : gen' = g
    /\ UNCHANGED <<now, req, records, puts, begun, failed>>

Tick ==
    /\ now < MaxTime
    /\ now' = now + 1
    /\ UNCHANGED <<gen, req, records, puts, begun, failed>>

Step(s) ==
    \/ Authenticate(s) \/ Invoke(s) \/ Refuse(s) \/ GateReady(s) \/ Fail(s)
    \/ Respond(s) \/ StreamStart(s) \/ StreamEnd(s) \/ StreamBroken(s)

Next == (\E s \in Slots : Step(s)) \/ Swap \/ Tick

Spec == Init /\ [][Next]_vars

-------------------------------------------------------------------------------
TypeOK ==
    /\ now \in Nat
    /\ gen \in 1 .. MaxGen
    /\ req \in [Slots -> RequestType]
    /\ records \subseteq StateRecord
    /\ puts \in Nat
    /\ begun \in Nat
    /\ failed \subseteq Nat

Sent(s) == req[s].pc \in {"send", "stream"}

\* Original media leaves the gateway only for a model that the request's own
\* generation lists with every one of those modalities and with verified PDF
\* passthrough; a Non-Vision target gets none, whatever was swapped meanwhile.
MediaOnlyToCapableTarget ==
    \A s \in Slots : Sent(s) /\ req[s].out /= {} =>
        /\ Registry[req[s].gen][req[s].model] /= Unknown
        /\ Supports(req[s].gen, req[s].model, req[s].out)
        /\ Registry[req[s].gen][req[s].model].pdf

\* A conversation in which some provider saw original media is continued only
\* by models that take those modalities, through any number of follow-ups,
\* evictions, generation swaps and concurrent requests of the same client.
TaintFollowsConversation ==
    \A s \in Slots : Sent(s) /\ req[s].lineage /= {} =>
        /\ Registry[req[s].gen][req[s].model] /= Unknown
        /\ Supports(req[s].gen, req[s].model, req[s].lineage)
        /\ "pdf" \in req[s].lineage => Registry[req[s].gen][req[s].model].pdf

\* A payload contains text of its own client only, although providers choose
\* the response identifiers and may give one identifier to two clients.
NoForeignText ==
    \A s \in Slots : req[s].origins \subseteq {req[s].client}

\* A request that failed, or whose stream broke, leaves no follow-up state.
NoStateFromFailedRequest ==
    \A r \in records : r.id \notin failed

\* The store holds at most max_entries records, one per client and response.
StoreBounded ==
    /\ Cardinality(records) <= MaxStates
    /\ \A x, y \in records : x.client = y.client /\ x.rid = y.rid => x = y

\* Conversations stay what they are and apart (GatewayStateStore, _record_state):
\* the four properties above together.
ConversationsKeptApart ==
    TaintFollowsConversation /\ NoForeignText /\ NoStateFromFailedRequest /\ StoreBounded

===============================================================================
