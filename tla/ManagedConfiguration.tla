------------------------- MODULE ManagedConfiguration -------------------------
(***************************************************************************)
(* Providers, routing profiles, models and policies of the control plane   *)
(* (media_bridge_control/configuration.py behind the routes of api.py) and *)
(* the drafts made from them.                                              *)
(*                                                                         *)
(* A request runs in a pool thread: it reads rows and checks them, and its *)
(* writes take effect when its transaction commits.  The default isolation *)
(* lets other transactions commit in between; the foreign keys of the      *)
(* tables hold at the commit.  A draft reads table after table in one      *)
(* REPEATABLE READ transaction.                                            *)
(***************************************************************************)
EXTENDS Naturals, FiniteSets

CONSTANTS Requests,   \* concurrent requests of the admin API
          Providers,  \* provider ids
          Profiles,   \* routing profile ids
          Models,     \* model ids
          Policies,   \* policy ids
          MaxDrafts,  \* bound: no request begins after this many drafts
          NoEntry     \* no row, a column without a value

Kinds == {"llm", "analysis"}

\* The rows of the tables.  A profile lists its LLM providers by id in a JSON
\* column, which no foreign key covers (so does it the analysis providers,
\* which nothing below reads); a model refers to its provider and profile.
ProviderRow == [kind : Kinds]
ProfileRow  == [llm : Providers, enabled : BOOLEAN]
ModelRow    == [provider : Providers \cup {NoEntry}, profile : Profiles \cup {NoEntry}]

ASSUME DraftsAssumption == MaxDrafts \in Nat
ASSUME NoEntryAssumption == NoEntry \notin ProviderRow \cup ProfileRow \cup ModelRow

VARIABLES
    provider,  \* table providers
    profile,   \* table routing_profiles
    model,     \* table model_capabilities
    policy,    \* table policies: the ids of its rows
    drafts,    \* table config_drafts
    req        \* what each request is doing: the write it has planned

tables == <<provider, profile, model, policy>>
managedVars == <<tables, drafts, req>>

NoRequest == [pc |-> "idle"]

ManagedInit ==
    /\ provider = [p \in Providers |-> NoEntry]
    /\ profile = [f \in Profiles |-> NoEntry]
    /\ model = [m \in Models |-> NoEntry]
    /\ policy = {}
    /\ drafts = {}
    /\ req = [c \in Requests |-> NoRequest]

-----------------------------------------------------------------------------
(* What a request reads and checks, and the write it plans *)

Insert(table, id, row) == [table |-> table, mode |-> "insert", id |-> id, row |-> row]
Update(table, id, row) == [table |-> table, mode |-> "update", id |-> id, row |-> row]
Delete(table, id)      == [table |-> table, mode |-> "delete", id |-> id, row |-> NoEntry]

\* create_provider, update_provider (its kind may change), delete_provider.
ProviderWrites ==
    {Insert("provider", p, [kind |-> k]) : p \in Providers, k \in Kinds}
    \cup {Update("provider", p, [kind |-> k]) :
            p \in {q \in Providers : provider[q] # NoEntry}, k \in Kinds}
    \cup {Delete("provider", p) : p \in {q \in Providers : provider[q] # NoEntry}}

\* _routing_provider_ids: the providers exist and have the right kind.
RoutableAs(p, kind) == provider[p] # NoEntry /\ provider[p].kind = kind

\* create_routing_profile, update_routing_profile, delete_routing_profile.
ProfileWrites ==
    LET rows == {r \in ProfileRow : /\ RoutableAs(r.llm, "llm")
                                    /\ \E p \in Providers : RoutableAs(p, "analysis")}
    IN {Insert("profile", f, r) : f \in Profiles, r \in rows}
       \cup {Update("profile", f, r) : f \in {g \in Profiles : profile[g] # NoEntry}, r \in rows}
       \cup {Delete("profile", f) : f \in {g \in Profiles : profile[g] # NoEntry}}

\* create_model: an LLM provider, named or taken from the routing profile;
\* a named one must be in the profile.
ModelInserts ==
    {Insert("model", m, r) : m \in Models, r \in
        {[provider |-> p, profile |-> f] : p \in Providers, f \in Profiles \cup {NoEntry}}}

InsertsChecked ==
    {w \in ModelInserts :
        /\ RoutableAs(w.row.provider, "llm")
        /\ w.row.profile # NoEntry =>
               /\ profile[w.row.profile] # NoEntry
               /\ profile[w.row.profile].llm = w.row.provider}

\* update_model: the new provider is looked up, the new profile is not.
ModelUpdates ==
    {Update("model", m, [provider |-> p, profile |-> f]) :
        m \in {n \in Models : model[n] # NoEntry},
        p \in {q \in Providers : RoutableAs(q, "llm")}, f \in Profiles \cup {NoEntry}}

ModelDeletes == {Delete("model", m) : m \in {n \in Models : model[n] # NoEntry}}

\* create_policy, delete_policy; an update does not change which rows exist.
PolicyWrites ==
    {Insert("policy", p, NoEntry) : p \in Policies} \cup {Delete("policy", p) : p \in policy}

Writes == ProviderWrites \cup ProfileWrites \cup InsertsChecked
          \cup ModelUpdates \cup ModelDeletes \cup PolicyWrites

\* The route, the service method up to its flush.
Plan(c) ==
    /\ req[c].pc = "idle" /\ Cardinality(drafts) < MaxDrafts
    /\ \E w \in Writes : req' = [req EXCEPT ![c] = [pc |-> "write", write |-> w]]
    /\ UNCHANGED <<tables, drafts>>

-----------------------------------------------------------------------------
(* Commits *)

\* Faulty tables whose models refer to providers without a foreign key.
ReferencesUnchecked(w) ==
    CASE w.table = "profile" /\ w.mode = "delete" ->
            \A m \in Models : model[m] # NoEntry => model[m].profile # w.id
      [] OTHER -> TRUE

\* The foreign keys of model_capabilities.
References(w) ==
    CASE w.table = "model" /\ w.mode # "delete" ->
            /\ provider[w.row.provider] # NoEntry
            /\ w.row.profile # NoEntry => profile[w.row.profile] # NoEntry
      [] w.table = "provider" /\ w.mode = "delete" ->
            \A m \in Models : model[m] # NoEntry => model[m].provider # w.id
      [] w.table = "profile" /\ w.mode = "delete" ->
            \A m \in Models : model[m] # NoEntry => model[m].profile # w.id
      [] OTHER -> TRUE

\* Inserted names are new; updated and deleted rows are still there.
Present(w) ==
    CASE w.table = "provider" -> provider[w.id] # NoEntry
      [] w.table = "profile"  -> profile[w.id] # NoEntry
      [] w.table = "model"    -> model[w.id] # NoEntry
      [] w.table = "policy"   -> w.id \in policy

Accepted(w) == (w.mode = "insert" <=> ~Present(w)) /\ References(w)

\* The transaction commits.
Commit(c) ==
    /\ req[c].pc = "write"
    /\ LET w == req[c].write IN
       /\ Accepted(w)
       /\ provider' = IF w.table = "provider" THEN [provider EXCEPT ![w.id] = w.row] ELSE provider
       /\ profile' = IF w.table = "profile" THEN [profile EXCEPT ![w.id] = w.row] ELSE profile
       /\ model' = IF w.table = "model" THEN [model EXCEPT ![w.id] = w.row] ELSE model
       /\ policy' = IF w.table # "policy" THEN policy
                    ELSE IF w.mode = "insert" THEN policy \cup {w.id} ELSE policy \ {w.id}
    /\ req' = [req EXCEPT ![c] = NoRequest]
    /\ UNCHANGED drafts

\* It is rolled back: a conflict, an error of the database.
Rollback(c) ==
    /\ req[c].pc = "write"
    /\ req' = [req EXCEPT ![c] = NoRequest]
    /\ UNCHANGED <<tables, drafts>>

-----------------------------------------------------------------------------
(* Drafts *)

Rows(table) == {table[id] : id \in DOMAIN table} \ {NoEntry}

\* _snapshot_body after its providers: the models, the routing profiles that
\* are enabled, the policies, the last revision of a draft.
Body ==
    [models    |-> Rows(model),
     profiles  |-> {f \in Profiles : profile[f] # NoEntry /\ profile[f].enabled},
     policies  |-> Cardinality(policy),
     revisions |-> {d.revision : d \in drafts}]

\* create_validated_draft: the first statement fixes what the transaction
\* sees, and reads the providers.
DraftBegins(c) ==
    /\ req[c].pc = "idle" /\ Cardinality(drafts) < MaxDrafts
    /\ req' = [req EXCEPT ![c] =
         [pc |-> "draft", seen |-> Body,
          providers |-> {p \in Providers : provider[p] # NoEntry}]]
    /\ UNCHANGED <<tables, drafts>>

\* Faulty reads that see what has been committed meanwhile.
SeenNow(c) == Body

\* _set_repeatable_read: the later statements see what the first one saw.
Seen(c) == req[c].seen

\* A faulty draft that does not ask for exactly one policy.
CompleteAnyPolicy(body) == body.models # {}

\* There are models, and exactly one policy.
Complete(body) == body.models # {} /\ body.policies = 1

\* A faulty count that starts with the drafts there are.
NextRevisionFromZero(body) == Cardinality(body.revisions)

\* create_validated_draft: one more than the highest revision.
NextRevision(body) ==
    1 + IF body.revisions = {} THEN 0
        ELSE CHOOSE n \in body.revisions : \A k \in body.revisions : k <= n

\* The insert of the draft, or configuration_incomplete.
DraftEnds(c) ==
    /\ req[c].pc = "draft"
    /\ LET body == Seen(c) IN
       drafts' = IF ~Complete(body) THEN drafts
                 ELSE drafts \cup
                   {[providers |-> req[c].providers, models |-> body.models,
                     profiles |-> body.profiles, policies |-> body.policies,
                     revision |-> NextRevision(body)]}
    /\ req' = [req EXCEPT ![c] = NoRequest]
    /\ UNCHANGED tables

ManagedNext == \E c \in Requests :
    Plan(c) \/ Commit(c) \/ Rollback(c) \/ DraftBegins(c) \/ DraftEnds(c)

ManagedSpec == ManagedInit /\ [][ManagedNext]_managedVars

-----------------------------------------------------------------------------
(* Properties *)

\* Every table holds rows of its type.
ManagedTypeOK ==
    /\ provider \in [Providers -> ProviderRow \cup {NoEntry}]
    /\ profile \in [Profiles -> ProfileRow \cup {NoEntry}]
    /\ model \in [Models -> ModelRow \cup {NoEntry}]
    /\ policy \subseteq Policies
    /\ \A d \in drafts : d.revision \in 1..MaxDrafts
    /\ \A c \in Requests : req[c].pc \in {"idle", "write", "draft"}

\* A draft is closed whatever is changed while it is made: the provider of
\* each of its models is one of its providers, and it has its one policy.
DraftIsClosed ==
    \A d \in drafts :
        /\ \A r \in d.models : r.provider \in d.providers
        /\ d.policies = 1
=============================================================================
