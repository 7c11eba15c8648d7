------------------------ MODULE GatewayTransactionProofs ------------------------
(***************************************************************************)
(* Proofs about the two transactions of media_bridge_gateway/transaction.py: *)
(* responses (GatewayTransaction) and preparations under an idempotency key  *)
(* (IdempotentPreparation), and about the two side by side.                  *)
(***************************************************************************)
EXTENDS MCGatewayTransaction, FiniteSetTheorems, WellFoundedInduction, TLAPS

(***************************************************************************)
(* Responses: generations, media and follow-up states                      *)
(***************************************************************************)

\* The media of a state or a payload may go to a model: the model of that
\* generation takes all of them, verified where they are PDFs.
CanTake(g, m, mods) ==
    \/ mods = {}
    \/ /\ Registry[g][m] /= Unknown
       /\ mods \subseteq Registry[g][m].mods
       /\ "pdf" \in mods => Registry[g][m].pdf

\* What holds of a request in flight.  Its lineage is the media of the state it
\* continues and what it sends itself; both were checked against its model in
\* its own generation, which Registry fixes, so that no swap can undo it.
RequestOK(r) ==
    /\ r \in RequestType
    /\ r.origins \subseteq {r.client}
    /\ r.pc /= "idle" => r.client \in Clients /\ r.gen \in 1 .. MaxGen
    /\ r.pc \in {"body", "gate"} => r.out = {}
    /\ r.pc \in {"gate", "send", "stream"} =>
         /\ r.model \in Models
         /\ CanTake(r.gen, r.model, r.prev)
         /\ r.plan = "passthrough" => r.media = {"pdf"} /\ CanTake(r.gen, r.model, r.media)
         /\ r.out /= {} => r.out = {"pdf"} /\ CanTake(r.gen, r.model, r.out)
         /\ r.lineage \subseteq r.prev \cup r.out
    /\ r.pc = "stream" => r.rid \in ResponseIds

\* What holds of a stored state: it contains text of its client only, and
\* its modalities cover all that providers saw.
RecordOK(r) ==
    /\ r \in StateRecord
    /\ r.origins \subseteq {r.client}
    /\ r.lineage \subseteq r.mods

\* Numbers of requests: each is in one place.
IdsOK ==
    /\ failed \subseteq 1 .. begun
    /\ \A r \in records : r.id \in 1 .. begun /\ r.id \notin failed
    /\ \A s \in Slots : req[s].pc /= "idle" =>
         /\ req[s].id \in 1 .. begun /\ req[s].id \notin failed
         /\ \A r \in records : r.id /= req[s].id
         /\ \A u \in Slots \ {s} : req[u].pc /= "idle" => req[u].id /= req[s].id

\* The store is finite and within its bounds.
StoreOK ==
    /\ IsFiniteSet(records)
    /\ StoreBounded

\* The inductive invariant.
TransactionInv ==
    /\ now \in Nat /\ gen \in 1 .. MaxGen /\ puts \in Nat /\ begun \in Nat
    /\ req \in [Slots -> RequestType]
    /\ \A s \in Slots : RequestOK(req[s])
    /\ \A r \in records : RecordOK(r)
    /\ IdsOK
    /\ StoreOK

\* A nonempty set of naturals has a least element: the oldest record.
LEMMA LeastNumber ==
    ASSUME NEW S \in SUBSET Nat, S # {}
    PROVE  \E n \in S : \A m \in S : n <= m
<1>1. PICK n \in S : \A m \in S : <<m, n>> \notin OpToRel(<, Nat)
    BY NatLessThanWellFounded, WFMin
<1>2. ASSUME NEW m \in S PROVE n <= m
  <2>1. m \in Nat /\ n \in Nat /\ <<m, n>> \in Nat \X Nat
    OBVIOUS
  <2>2. <<m, n>> \in OpToRel(<, Nat) <=> m < n
    BY <2>1 DEF OpToRel
  <2>3. ~(m < n)
    BY <1>1, <2>2
  <2>4. QED
    BY <2>1, <2>3
<1>3. QED
    BY <1>2

\* An empty slot is in order.
LEMMA IdleOK == Idle.pc = "idle" /\ RequestOK(Idle)
BY BoundsAssumption DEF Idle, RequestOK, RequestType, CanTake

\* What is not blocked is planned, and media only pass through to a model
\* that can take them.
LEMMA PlanOK ==
    ASSUME NEW g \in 1 .. MaxGen, NEW m \in Models, NEW media \in SUBSET Modality, NEW t \in Nat,
           Plan(g, m, media, t) /= "blocked"
    PROVE  /\ Plan(g, m, media, t) \in {"text", "passthrough", "converted"}
           /\ Plan(g, m, media, t) = "passthrough" => media = {"pdf"} /\ CanTake(g, m, media)
           /\ CapOf(Plan(g, m, media, t), Resolve(g, m, t)) \in {"vision", "non_vision"}
<1>1. Registry[g][m] \in Capability \cup {Unknown}
    BY RegistryAssumption
<1>2. Resolve(g, m, t) \in {"unknown", "stale", "vision", "non_vision"}
    BY DEF Resolve
<1>3. Resolve(g, m, t) \notin {"unknown", "stale"}
  <2>1. Resolve(g, m, t) \in {"unknown", "stale"} => Plan(g, m, media, t) = "blocked"
    BY DEF Plan
  <2>2. QED
    BY <2>1
<1>4. Resolve(g, m, t) = "vision" => Registry[g][m] /= Unknown
    BY DEF Resolve
<1>5. Plan(g, m, media, t) \in {"text", "passthrough", "converted"}
    BY <1>2, <1>3 DEF Plan
<1>6. ASSUME Plan(g, m, media, t) = "passthrough"
      PROVE  media = {"pdf"} /\ CanTake(g, m, media)
    BY <1>3, <1>4, <1>6 DEF Plan, Supports, CanTake
<1>7. QED
    BY <1>2, <1>3, <1>5, <1>6 DEF CapOf

\* A state that _check_state_capability lets through can be continued.
LEMMA AllowedOK ==
    ASSUME NEW g \in 1 .. MaxGen, NEW m \in Models, NEW mods \in SUBSET Modality, NEW t \in Nat,
           StateAllowed(g, m, mods, t)
    PROVE  CanTake(g, m, mods)
BY DEF StateAllowed, CanTake, Supports, Resolve

\* A record that is put: at most MaxStates remain, one of a key.
LEMMA Put ==
    ASSUME TransactionInv, NEW r, RecordOK(r), r.id \notin {x.id : x \in records}
    PROVE  /\ IsFiniteSet(StoreWith(r)) /\ Cardinality(StoreWith(r)) <= MaxStates
           /\ \A x, y \in StoreWith(r) : x.client = y.client /\ x.rid = y.rid => x = y
           /\ StoreWith(r) \subseteq records \cup {r}
<1> DEFINE others == {x \in Live : ~(x.client = r.client /\ x.rid = r.rid)}
           kept == others \cup {r}
<1>1. others \in SUBSET records /\ r \notin others
    BY DEF Live
<1>2. IsFiniteSet(records) /\ Cardinality(records) <= MaxStates /\ Cardinality(records) \in Nat
    BY FS_CardinalityType DEF TransactionInv, StoreOK, StoreBounded
<1>3. IsFiniteSet(others) /\ Cardinality(others) <= MaxStates /\ Cardinality(others) \in Nat
  <2>1. IsFiniteSet(others) /\ Cardinality(others) <= Cardinality(records) /\ Cardinality(others) \in Nat
    BY <1>1, <1>2, FS_Subset, FS_CardinalityType
  <2>2. QED
    BY <1>2, <2>1, BoundsAssumption
<1>4. IsFiniteSet(kept) /\ Cardinality(kept) = Cardinality(others) + 1
    BY <1>1, <1>3, FS_AddElement
<1>5. \A x, y \in kept : x.client = y.client /\ x.rid = y.rid => x = y
    BY <1>1 DEF TransactionInv, StoreOK, StoreBounded
<1>6. StoreWith(r) \in SUBSET kept /\ kept \subseteq records \cup {r}
    BY <1>1 DEF StoreWith
<1>7. Cardinality(StoreWith(r)) <= MaxStates
  <2>1. CASE Cardinality(kept) <= MaxStates
    BY <2>1 DEF StoreWith
  <2>2. CASE ~(Cardinality(kept) <= MaxStates)
    <3> DEFINE ords == {x.ord : x \in kept}
    <3>1. \A x \in kept : x.ord \in Nat
      BY <1>1 DEF TransactionInv, RecordOK, StateRecord
    <3>2. ords \in SUBSET Nat /\ ords # {}
      BY <3>1
    <3>3. PICK n \in ords : \A m \in ords : n <= m
      BY <3>2, LeastNumber
    <3>4. PICK z \in kept : z.ord = n
      OBVIOUS
    <3>5. ASSUME NEW y \in kept PROVE ~(y.ord < z.ord)
      <4>1. y.ord \in ords /\ y.ord \in Nat /\ n \in Nat
        BY <3>1, <3>2, <3>3
      <4>2. n <= y.ord
        BY <3>3, <4>1
      <4> HIDE DEF ords
      <4>3. QED
        BY <3>4, <4>1, <4>2
    <3>6. StoreWith(r) = {x \in kept : \E y \in kept : y.ord < x.ord}
      BY <2>2 DEF StoreWith
    <3>7. StoreWith(r) \in SUBSET (kept \ {z})
      BY <3>5, <3>6
    <3> HIDE DEF kept, others
    <3>8. IsFiniteSet(kept \ {z}) /\ Cardinality(kept \ {z}) = Cardinality(kept) - 1
      BY <1>4, <3>4, FS_RemoveElement
    <3>9. Cardinality(StoreWith(r)) <= Cardinality(kept \ {z}) /\ Cardinality(StoreWith(r)) \in Nat
      BY <3>7, <3>8, FS_Subset, FS_CardinalityType
    <3>10. QED
      BY <1>3, <1>4, <3>8, <3>9, BoundsAssumption
  <2>3. QED
    BY <2>1, <2>2
<1> HIDE DEF kept, others
<1>8. QED
    BY <1>4, <1>5, <1>6, <1>7, FS_Subset

\* One slot changes, to a request that is in order.
LEMMA OneRequestMoves ==
    ASSUME TransactionInv, NEW s \in Slots, NEW r, req' = [req EXCEPT ![s] = r], RequestOK(r)
    PROVE  /\ req' \in [Slots -> RequestType]
           /\ \A u \in Slots : RequestOK(req'[u])
           /\ req'[s] = r /\ \A u \in Slots \ {s} : req'[u] = req[u]
<1>1. req \in [Slots -> RequestType] /\ r \in RequestType
    BY DEF TransactionInv, RequestOK
<1>2. QED
    BY <1>1 DEF TransactionInv

\* A store that only loses records stays in order.
LEMMA Shrinks ==
    ASSUME TransactionInv, records' \subseteq records
    PROVE  (\A r \in records' : RecordOK(r)) /\ StoreOK'
<1>1. IsFiniteSet(records) /\ Cardinality(records) <= MaxStates
    BY DEF TransactionInv, StoreOK, StoreBounded
<1>2. /\ IsFiniteSet(records') /\ Cardinality(records') <= Cardinality(records)
      /\ Cardinality(records') \in Nat /\ Cardinality(records) \in Nat
    BY <1>1, FS_Subset, FS_CardinalityType
<1>3. Cardinality(records') <= MaxStates
    BY <1>1, <1>2, BoundsAssumption
<1>4. QED
    BY <1>2, <1>3 DEF TransactionInv, StoreOK, StoreBounded

\* A request goes on: nothing is recorded.
LEMMA GoesOn ==
    ASSUME TransactionInv, NEW s \in Slots, NEW r, req' = [req EXCEPT ![s] = r], RequestOK(r),
           req[s].pc /= "idle", r.id = req[s].id,
           records' \subseteq records, UNCHANGED <<now, gen, puts, begun, failed>>
    PROVE  TransactionInv'
<1>1. /\ req' \in [Slots -> RequestType] /\ \A u \in Slots : RequestOK(req'[u])
      /\ req'[s] = r /\ \A u \in Slots \ {s} : req'[u] = req[u]
    BY OneRequestMoves
<1>2. IdsOK'
    BY <1>1 DEF TransactionInv, IdsOK
<1>3. QED
    BY <1>1, <1>2, Shrinks DEF TransactionInv

\* A request ends without a response.
LEMMA EndsFailed ==
    ASSUME TransactionInv, NEW s \in Slots, Finish(s), req[s].pc /= "idle",
           failed' = failed \cup {req[s].id},
           records' \subseteq records, UNCHANGED <<now, gen, puts, begun>>
    PROVE  TransactionInv'
<1>1. /\ req' \in [Slots -> RequestType] /\ \A u \in Slots : RequestOK(req'[u])
      /\ req'[s].pc = "idle" /\ \A u \in Slots \ {s} : req'[u] = req[u]
    BY OneRequestMoves, IdleOK DEF Finish
<1>2. IdsOK'
    BY <1>1, ZenonT(60) DEF TransactionInv, IdsOK
<1>3. QED
    BY <1>1, <1>2, Shrinks DEF TransactionInv

\* A request ends with a response, which may be recorded.
LEMMA EndsWell ==
    ASSUME TransactionInv, NEW s \in Slots, Finish(s), req[s].pc \in {"send", "stream"},
           NEW rid \in ResponseIds,
           RecordState(req[s], rid) \/ UNCHANGED <<records, puts>>,
           UNCHANGED <<now, gen, begun, failed>>
    PROVE  TransactionInv'
<1>1. /\ req' \in [Slots -> RequestType] /\ \A u \in Slots : RequestOK(req'[u])
      /\ req'[s].pc = "idle" /\ \A u \in Slots \ {s} : req'[u] = req[u]
    BY OneRequestMoves, IdleOK DEF Finish
<1>2. CASE UNCHANGED <<records, puts>>
  <2>1. IdsOK'
    BY <1>1, <1>2 DEF TransactionInv, IdsOK
  <2>2. QED
    BY <1>1, <1>2, <2>1, Shrinks DEF TransactionInv
<1>3. CASE RecordState(req[s], rid)
  <2>1. PICK r : r = [client |-> req[s].client, rid |-> rid, mods |-> Taint(req[s]),
                      expires |-> now + StateTtl, ord |-> puts, id |-> req[s].id,
                      origins |-> req[s].origins, lineage |-> req[s].lineage]
    OBVIOUS
  <2>2. records' = StoreWith(r) /\ puts' = puts + 1
    BY <1>3, <2>1 DEF RecordState
  <2>3. RecordOK(r) /\ r.id = req[s].id
    <3>1. RequestOK(req[s]) /\ now + StateTtl \in Nat /\ puts \in Nat
      BY BoundsAssumption DEF TransactionInv
    <3>2. QED
      BY <2>1, <3>1 DEF RequestOK, RequestType, RecordOK, StateRecord, Taint
  <2>4. r.id \notin {x.id : x \in records}
    BY <2>3 DEF TransactionInv, IdsOK
  <2>5. /\ IsFiniteSet(records') /\ Cardinality(records') <= MaxStates
        /\ \A x, y \in records' : x.client = y.client /\ x.rid = y.rid => x = y
        /\ records' \subseteq records \cup {r}
    BY <2>2, <2>3, <2>4, Put
  <2>6. IdsOK'
    <3>1. r.id \in 1 .. begun /\ r.id \notin failed
      BY <2>3 DEF TransactionInv, IdsOK
    <3>2. ASSUME NEW u \in Slots, req'[u].pc /= "idle"
          PROVE  \A x \in records' : x.id /= req'[u].id
      BY <1>1, <2>3, <2>5, <3>2 DEF TransactionInv, IdsOK
    <3>3. QED
      BY <1>1, <2>5, <3>1, <3>2 DEF TransactionInv, IdsOK
  <2>7. puts' \in Nat
    BY <2>2 DEF TransactionInv
  <2>8. QED
    BY <1>1, <2>3, <2>5, <2>6, <2>7 DEF TransactionInv, StoreOK, StoreBounded
<1>4. QED
    BY <1>2, <1>3

\* A new request is bound to a number that no other has.
LEMMA AuthenticateStep ==
    ASSUME TransactionInv, NEW s \in Slots, Authenticate(s)
    PROVE  TransactionInv'
<1>1. PICK c \in Clients :
        req' = [req EXCEPT ![s] = [Idle EXCEPT !.pc = "body", !.id = begun + 1, !.client = c, !.gen = gen]]
    BY DEF Authenticate
<1> DEFINE r == [Idle EXCEPT !.pc = "body", !.id = begun + 1, !.client = c, !.gen = gen]
<1>2. gen \in 1 .. MaxGen /\ begun \in Nat /\ begun + 1 \in Nat
    BY DEF TransactionInv
<1>3. /\ r \in RequestType /\ r.pc = "body" /\ r.id = begun + 1 /\ r.client = c
      /\ r.gen = gen /\ r.out = {} /\ r.origins = {}
  <2>1. Idle \in RequestType /\ Idle.out = {} /\ Idle.origins = {}
    BY IdleOK DEF RequestOK, Idle
  <2>2. gen \in 0 .. MaxGen
    BY <1>2, BoundsAssumption
  <2>3. QED
    BY <1>2, <2>1, <2>2 DEF RequestType
<1> HIDE DEF r
<1>4. RequestOK(r)
    BY <1>2, <1>3 DEF RequestOK
<1>5. /\ req' \in [Slots -> RequestType] /\ \A u \in Slots : RequestOK(req'[u])
      /\ req'[s] = r /\ \A u \in Slots \ {s} : req'[u] = req[u]
    BY <1>1, <1>4, OneRequestMoves DEF r
<1>6. IdsOK'
  <2>1. begun' = begun + 1 /\ failed' = failed /\ records' = records
    BY DEF Authenticate
  <2>2. begun + 1 \notin 1 .. begun /\ 1 .. begun \subseteq 1 .. (begun + 1) /\ begun + 1 \in 1 .. (begun + 1)
    BY <1>2
  <2>3. \A u \in Slots \ {s} : req[u].pc /= "idle" => req[u].id /= begun + 1
    BY <2>2 DEF TransactionInv, IdsOK
  <2>4. QED
    BY <1>3, <1>5, <2>1, <2>2, <2>3 DEF TransactionInv, IdsOK
<1>7. QED
    BY <1>2, <1>5, <1>6, Shrinks DEF TransactionInv, Authenticate

\* The decisions before the first await.
LEMMA InvokeStep ==
    ASSUME TransactionInv, NEW s \in Slots, Invoke(s)
    PROVE  TransactionInv'
<1>1. PICK m \in Models, media \in SUBSET Modality, prevId \in ResponseIds \cup {None} :
        \E prior \in IF prevId = None THEN {None} ELSE Lookup(req[s].client, prevId) :
        LET prev == IF prior = None THEN {} ELSE prior.mods
            plan == Plan(req[s].gen, m, media, now)
            cap == CapOf(plan, Resolve(req[s].gen, m, now))
        IN
        /\ StateAllowed(req[s].gen, m, prev, now)
        /\ plan /= "blocked"
        /\ media = {} => SealAccepted(plan, cap, {})
        /\ records' = IF prevId = None THEN records ELSE Live
        /\ req' = [req EXCEPT ![s] =
              [@ EXCEPT !.pc = IF media = {} THEN "send" ELSE "gate",
                        !.model = m, !.media = media, !.prev = prev, !.plan = plan,
                        !.cap = cap,
                        !.origins = {req[s].client} \cup
                                       (IF prior = None THEN {} ELSE prior.origins),
                        !.lineage = IF prior = None THEN {} ELSE prior.lineage]]
    BY DEF Invoke
<1>0. PICK prior \in IF prevId = None THEN {None} ELSE Lookup(req[s].client, prevId) :
        LET prev == IF prior = None THEN {} ELSE prior.mods
            plan == Plan(req[s].gen, m, media, now)
            cap == CapOf(plan, Resolve(req[s].gen, m, now))
        IN
        /\ StateAllowed(req[s].gen, m, prev, now)
        /\ plan /= "blocked"
        /\ media = {} => SealAccepted(plan, cap, {})
        /\ records' = IF prevId = None THEN records ELSE Live
        /\ req' = [req EXCEPT ![s] =
              [@ EXCEPT !.pc = IF media = {} THEN "send" ELSE "gate",
                        !.model = m, !.media = media, !.prev = prev, !.plan = plan,
                        !.cap = cap,
                        !.origins = {req[s].client} \cup
                                       (IF prior = None THEN {} ELSE prior.origins),
                        !.lineage = IF prior = None THEN {} ELSE prior.lineage]]
    BY <1>1
<1> DEFINE prev == IF prior = None THEN {} ELSE prior.mods
           plan == Plan(req[s].gen, m, media, now)
           cap == CapOf(plan, Resolve(req[s].gen, m, now))
           origins == {req[s].client} \cup (IF prior = None THEN {} ELSE prior.origins)
           lineage == IF prior = None THEN {} ELSE prior.lineage
<1> DEFINE r == [req[s] EXCEPT !.pc = IF media = {} THEN "send" ELSE "gate",
                       !.model = m, !.media = media, !.prev = prev, !.plan = plan,
                       !.cap = cap, !.origins = origins, !.lineage = lineage]
<1>2. /\ req[s].pc = "body" /\ UNCHANGED <<now, gen, puts, begun, failed>>
    BY DEF Invoke
<1>3. /\ RequestOK(req[s]) /\ req[s].gen \in 1 .. MaxGen /\ req[s].out = {}
      /\ req[s].client \in Clients /\ now \in Nat
    BY <1>2 DEF TransactionInv, RequestOK
<1>4. prior /= None => prior \in records /\ prior.client = req[s].client /\ RecordOK(prior)
  BY DEF Lookup, Live, TransactionInv
<1>5. /\ prev \subseteq Modality /\ lineage \subseteq prev /\ origins = {req[s].client}
    BY <1>3, <1>4 DEF RecordOK, StateRecord
<1>6. /\ plan \in {"text", "passthrough", "converted"}
      /\ plan = "passthrough" => media = {"pdf"} /\ CanTake(req[s].gen, m, media)
      /\ cap \in {"vision", "non_vision"}
  <2>1. Plan(req[s].gen, m, media, now) /= "blocked"
    BY <1>0
  <2>2. QED
    BY <1>3, <2>1, PlanOK
<1>7. CanTake(req[s].gen, m, prev)
    BY <1>0, <1>3, <1>5, AllowedOK
<1> HIDE DEF prev, plan, cap, origins, lineage
<1>8. /\ r \in RequestType /\ r.pc \in {"send", "gate"} /\ r.id = req[s].id /\ r.client = req[s].client
      /\ r.gen = req[s].gen /\ r.out = {} /\ r.origins = origins /\ r.lineage = lineage
      /\ r.prev = prev /\ r.plan = plan /\ r.media = media /\ r.model = m
  <2>1. req[s] \in RequestType
    BY <1>3 DEF RequestOK
  <2>2. QED
    BY <1>3, <1>5, <1>6, <2>1, ZenonT(60) DEF RequestType
<1>9. req' = [req EXCEPT ![s] = r]
    BY <1>0 DEF prev, plan, cap, origins, lineage
<1> HIDE DEF r
<1>10. RequestOK(r)
    BY <1>3, <1>5, <1>6, <1>7, <1>8 DEF RequestOK
<1>11. records' \subseteq records
  <2>1. records' = records \/ records' = Live
    BY <1>0
  <2>2. QED
    BY <2>1 DEF Live
<1>12. QED
    BY <1>2, <1>8, <1>9, <1>10, <1>11, GoesOn

\* The gate leaves original media in the payload only as planned.
LEMMA GateReadyStep ==
    ASSUME TransactionInv, NEW s \in Slots, GateReady(s)
    PROVE  TransactionInv'
<1>1. PICK out : /\ out = OutOf(req[s].plan, req[s].media)
                 /\ req' = [req EXCEPT ![s] =
                       [req[s] EXCEPT !.pc = "send", !.out = out, !.lineage = @ \cup out]]
  <2>1. req \in [Slots -> RequestType] /\ req[s] \in RequestType
    BY DEF TransactionInv
  <2>2. QED
    BY <2>1 DEF GateReady, RequestType
<1>2. /\ req[s].pc = "gate" /\ UNCHANGED <<now, gen, records, puts, begun, failed>>
    BY DEF GateReady
<1> DEFINE r == [req[s] EXCEPT !.pc = "send", !.out = out, !.lineage = @ \cup out]
<1>3. RequestOK(req[s])
    BY DEF TransactionInv
<1>4. out /= {} => out = {"pdf"} /\ CanTake(req[s].gen, req[s].model, out)
    BY <1>1, <1>2, <1>3 DEF OutOf, RequestOK
<1>5. out \subseteq Modality
    BY <1>4 DEF Modality
<1>6. /\ r \in RequestType /\ r.pc = "send" /\ r.id = req[s].id /\ r.client = req[s].client
      /\ r.gen = req[s].gen /\ r.out = out /\ r.origins = req[s].origins
      /\ r.lineage = req[s].lineage \cup out
      /\ r.prev = req[s].prev /\ r.plan = req[s].plan /\ r.media = req[s].media
      /\ r.model = req[s].model
  <2>1. req[s] \in RequestType
    BY <1>3 DEF RequestOK
  <2>2. QED
    BY <1>5, <2>1 DEF RequestType
<1>7. req' = [req EXCEPT ![s] = r]
    BY <1>1
<1>8. req[s].lineage \subseteq req[s].prev \cup req[s].out /\ (req[s].out /= {} => req[s].out = {"pdf"})
    BY <1>2, <1>3 DEF RequestOK
<1> HIDE DEF r
<1>9. RequestOK(r)
    BY <1>2, <1>3, <1>4, <1>6, <1>8 DEF RequestOK
<1>10. QED
    BY <1>2, <1>6, <1>7, <1>9, GoesOn

\* A stream keeps what was checked, and the identifier of its response.
LEMMA StreamStartStep ==
    ASSUME TransactionInv, NEW s \in Slots, StreamStart(s)
    PROVE  TransactionInv'
<1>1. PICK rid \in ResponseIds :
        req' = [req EXCEPT ![s] = [req[s] EXCEPT !.pc = "stream", !.rid = rid]]
  <2>1. req \in [Slots -> RequestType] /\ req[s] \in RequestType
    BY DEF TransactionInv
  <2>2. PICK rid \in ResponseIds : req' = [req EXCEPT ![s].pc = "stream", ![s].rid = rid]
    BY DEF StreamStart
  <2>3. req' = [req EXCEPT ![s] = [req[s] EXCEPT !.pc = "stream", !.rid = rid]]
    BY <2>1, <2>2 DEF RequestType
  <2>4. QED
    BY <2>3
<1>2. /\ req[s].pc = "send" /\ UNCHANGED <<now, gen, records, puts, begun, failed>>
    BY DEF StreamStart
<1> DEFINE r == [req[s] EXCEPT !.pc = "stream", !.rid = rid]
<1>3. RequestOK(req[s])
    BY DEF TransactionInv
<1>4. /\ r \in RequestType /\ r.pc = "stream" /\ r.id = req[s].id /\ r.client = req[s].client
      /\ r.gen = req[s].gen /\ r.out = req[s].out /\ r.origins = req[s].origins
      /\ r.lineage = req[s].lineage /\ r.prev = req[s].prev /\ r.plan = req[s].plan
      /\ r.media = req[s].media /\ r.model = req[s].model /\ r.rid = rid
  <2>1. req[s] \in RequestType
    BY <1>3 DEF RequestOK
  <2>2. QED
    BY <2>1 DEF RequestType
<1>5. req' = [req EXCEPT ![s] = r]
    BY <1>1
<1> HIDE DEF r
<1>6. RequestOK(r)
    BY <1>2, <1>3, <1>4 DEF RequestOK
<1>7. QED
    BY <1>2, <1>4, <1>5, <1>6, GoesOn

\* Neither the clock nor a swap touches requests or records.
LEMMA ClockOrSwap ==
    ASSUME TransactionInv, Swap \/ Tick
    PROVE  TransactionInv'
<1>1. now' \in Nat /\ gen' \in 1 .. MaxGen
    BY BoundsAssumption DEF TransactionInv, Swap, Tick
<1>2. UNCHANGED <<req, records, puts, begun, failed>>
    BY DEF Swap, Tick
<1>3. QED
    BY <1>1, <1>2 DEF TransactionInv, IdsOK, StoreOK, StoreBounded

\* Every step keeps the invariant.
LEMMA TransactionStep ==
    ASSUME TransactionInv, Next
    PROVE  TransactionInv'
<1>1. ASSUME NEW s \in Slots, Step(s) PROVE TransactionInv'
  <2>1. CASE Authenticate(s)
    BY <2>1, AuthenticateStep
  <2>2. CASE Invoke(s)
    BY <2>2, InvokeStep
  <2>3. CASE Refuse(s)
    <3>1. records' \subseteq records
      BY <2>3 DEF Refuse, Live
    <3>2. QED
      BY <2>3, <3>1, EndsFailed DEF Refuse
  <2>4. CASE GateReady(s)
    BY <2>4, GateReadyStep
  <2>5. CASE Fail(s)
    BY <2>5, EndsFailed DEF Fail
  <2>6. CASE Respond(s)
    <3>1. PICK rid \in ResponseIds : RecordState(req[s], rid) \/ UNCHANGED <<records, puts>>
      BY <2>6 DEF Respond
    <3>2. QED
      BY <2>6, <3>1, EndsWell DEF Respond
  <2>7. CASE StreamStart(s)
    BY <2>7, StreamStartStep
  <2>8. CASE StreamEnd(s)
    <3>1. req[s].pc = "stream" /\ req[s].rid \in ResponseIds
      BY <2>8 DEF StreamEnd, TransactionInv, RequestOK
    <3>2. QED
      BY <2>8, <3>1, EndsWell DEF StreamEnd
  <2>9. CASE StreamBroken(s)
    BY <2>9, EndsFailed DEF StreamBroken
  <2>10. QED
    BY <1>1, <2>1, <2>2, <2>3, <2>4, <2>5, <2>6, <2>7, <2>8, <2>9 DEF Step
<1>2. QED
    BY <1>1, ClockOrSwap DEF Next

\* So does a step of something else.
LEMMA TransactionStutter ==
    ASSUME TransactionInv, UNCHANGED vars
    PROVE  TransactionInv'
BY DEF vars, TransactionInv, IdsOK, StoreOK, StoreBounded

\* The invariant holds when the gateway starts.
LEMMA TransactionStart == Init => TransactionInv
<1> SUFFICES ASSUME Init PROVE TransactionInv
    OBVIOUS
<1>1. req \in [Slots -> RequestType] /\ \A s \in Slots : req[s] = Idle
    BY IdleOK DEF Init, RequestOK
<1>2. IsFiniteSet(records) /\ Cardinality(records) = 0
    BY FS_EmptySet DEF Init
<1>3. StoreOK
    BY <1>2, BoundsAssumption DEF StoreOK, StoreBounded, Init
<1>4. IdsOK
    BY <1>1, IdleOK DEF IdsOK, Init
<1>5. QED
    BY <1>1, <1>3, <1>4, IdleOK, BoundsAssumption DEF TransactionInv, Init

\* It is an invariant.
LEMMA TransactionInvariance == Spec => []TransactionInv
<1>1. TransactionInv /\ [Next]_vars => TransactionInv'
    BY TransactionStep, TransactionStutter
<1>2. QED
    BY <1>1, TransactionStart, PTL DEF Spec

\* It contains the types.
LEMMA TransactionTyped == TransactionInv => TypeOK
<1> SUFFICES ASSUME TransactionInv PROVE TypeOK
    OBVIOUS
<1>1. records \subseteq StateRecord
    BY DEF TransactionInv, RecordOK
<1>2. failed \subseteq Nat
    BY DEF TransactionInv, IdsOK
<1>3. QED
    BY <1>1, <1>2 DEF TransactionInv, TypeOK

\* Requests, states and histories keep their types (invoke, GatewayStateStore).
THEOREM TransactionTypeCorrect == Spec => []TypeOK
BY TransactionTyped, TransactionInvariance, PTL

\* For any registry, any number of requests and any order of swaps: original
\* media leaves only for models that the generation of the request verified.
THEOREM MediaStaysHome == Spec => []MediaOnlyToCapableTarget
<1>1. TransactionInv => MediaOnlyToCapableTarget
  <2> SUFFICES ASSUME TransactionInv, NEW s \in Slots, Sent(s), req[s].out /= {}
               PROVE  /\ Registry[req[s].gen][req[s].model] /= Unknown
                      /\ Supports(req[s].gen, req[s].model, req[s].out)
                      /\ Registry[req[s].gen][req[s].model].pdf
    BY DEF MediaOnlyToCapableTarget
  <2>1. RequestOK(req[s]) /\ req[s].pc \in {"gate", "send", "stream"}
    BY DEF TransactionInv, Sent
  <2>2. QED
    BY <2>1 DEF RequestOK, CanTake, Supports
<1>2. QED
    BY <1>1, TransactionInvariance, PTL

\* For any number of clients, follow-ups, evictions and swaps: the media of a
\* conversation bind its later models, no text crosses clients, a failed request
\* leaves no state and the store keeps its bound.
THEOREM ConversationsStayApart == Spec => []ConversationsKeptApart
<1>1. TransactionInv => ConversationsKeptApart
  <2> SUFFICES ASSUME TransactionInv PROVE ConversationsKeptApart
    OBVIOUS
  <2>1. ASSUME NEW s \in Slots, Sent(s), req[s].lineage /= {}
        PROVE  /\ Registry[req[s].gen][req[s].model] /= Unknown
               /\ Supports(req[s].gen, req[s].model, req[s].lineage)
               /\ "pdf" \in req[s].lineage => Registry[req[s].gen][req[s].model].pdf
    <3>1. RequestOK(req[s]) /\ req[s].pc \in {"gate", "send", "stream"}
      BY <2>1 DEF TransactionInv, Sent
    <3>2. QED
      BY <2>1, <3>1 DEF RequestOK, CanTake, Supports
  <2>2. TaintFollowsConversation
    BY <2>1 DEF TaintFollowsConversation
  <2>3. NoForeignText
    BY DEF TransactionInv, RequestOK, NoForeignText
  <2>4. NoStateFromFailedRequest
    BY DEF TransactionInv, IdsOK, NoStateFromFailedRequest
  <2>5. StoreBounded
    BY DEF TransactionInv, StoreOK
  <2>6. QED
    BY <2>2, <2>3, <2>4, <2>5 DEF ConversationsKeptApart
<1>2. QED
    BY <1>1, TransactionInvariance, PTL

(***************************************************************************)
(* Preparations under an idempotency key                                   *)
(***************************************************************************)

\* A receipt that is known comes after a verified cleanup.
Known(result) == result.receipt # Absent => result.n \in cleaned

\* What is stored, and what a call holds and returns, is its own.
CallOK(c) ==
    /\ call[c].pc # "idle" => call[c].key \in IdemKeys /\ call[c].fp \in Fingerprints
    /\ call[c].pc \in {"run", "store"} => holder[call[c].key] = c
    /\ call[c].pc = "store" =>
         /\ call[c].value \in Result /\ call[c].value.fp = call[c].fp
         /\ Known(call[c].value)
    /\ call[c].got # Absent => call[c].got.fp = call[c].fp /\ Known(call[c].got)

\* What holds of a key: its entry is of one request, and unless it expired or
\* made room it is still there.
EntryOK(k) ==
    /\ entry[k] # Absent => entry[k].value.fp = entry[k].fp /\ Known(entry[k].value)
    /\ \/ finished[k] = Absent
       \/ finished[k] + EntryTtl <= clock
       \/ k \in trimmed
       \/ entry[k] # Absent /\ entry[k].expires = finished[k] + EntryTtl

\* The keys with an entry.
Full(e) == {k \in IdemKeys : e[k] # Absent}

\* The inductive invariant.
IdemInv ==
    /\ clock \in 0 .. MaxClock /\ calls \in 0 .. MaxCalls
    /\ holder \in [IdemKeys -> Callers \cup {Absent}]
    /\ entry \in [IdemKeys -> Entry \cup {Absent}]
    /\ call \in [Callers -> CallType]
    /\ finished \in [IdemKeys -> Nat \cup {Absent}] /\ trimmed \subseteq IdemKeys
    /\ IsFiniteSet(Full(entry)) /\ Cardinality(Full(entry)) <= MaxEntries
    /\ \A c \in Callers : CallOK(c)
    /\ \A k \in IdemKeys : EntryOK(k)

\* Purging the entries changes nothing that the invariant speaks of.
LEMMA Purges ==
    ASSUME IdemInv
    PROVE  /\ Unexpired \in [IdemKeys -> Entry \cup {Absent}]
           /\ \A k \in IdemKeys : Unexpired[k] = entry[k] \/ Unexpired[k] = Absent
           /\ \A k \in IdemKeys :
                \/ finished[k] = Absent
                \/ finished[k] + EntryTtl <= clock
                \/ k \in trimmed
                \/ Unexpired[k] # Absent /\ Unexpired[k].expires = finished[k] + EntryTtl
           /\ IsFiniteSet(Full(Unexpired)) /\ Cardinality(Full(Unexpired)) <= MaxEntries
<1>1. Unexpired \in [IdemKeys -> Entry \cup {Absent}]
    BY DEF Unexpired, IdemInv
<1>2. \A k \in IdemKeys : Unexpired[k] = entry[k] \/ Unexpired[k] = Absent
    BY DEF Unexpired
<1>3. ASSUME NEW k \in IdemKeys
      PROVE  \/ finished[k] = Absent
             \/ finished[k] + EntryTtl <= clock
             \/ k \in trimmed
             \/ Unexpired[k] # Absent /\ Unexpired[k].expires = finished[k] + EntryTtl
    BY DEF Unexpired, IdemInv, EntryOK
<1>4. Full(Unexpired) \in SUBSET Full(entry)
    BY <1>2 DEF Full
<1>5. IsFiniteSet(Full(entry)) /\ Cardinality(Full(entry)) <= MaxEntries
    BY DEF IdemInv
<1>6. /\ IsFiniteSet(Full(Unexpired)) /\ Cardinality(Full(Unexpired)) <= Cardinality(Full(entry))
      /\ Cardinality(Full(Unexpired)) \in Nat /\ Cardinality(Full(entry)) \in Nat
    BY <1>4, <1>5, FS_Subset, FS_CardinalityType
<1>7. Cardinality(Full(Unexpired)) <= MaxEntries
    BY <1>5, <1>6, LimitsAssumption
<1>8. QED
    BY <1>1, <1>2, <1>3, <1>6, <1>7

\* No call is a call.
LEMMA NoCallOK == NoCall \in CallType /\ NoCall.got = Absent
BY DEF NoCall, CallType

\* One caller's record changes, to one that is in order.
LEMMA OneCallMoves ==
    ASSUME IdemInv, NEW c \in Callers, NEW r \in CallType, call' = [call EXCEPT ![c] = r],
           \A d \in Callers \ {c} : CallOK(d) => CallOK(d)'
    PROVE  /\ call' \in [Callers -> CallType] /\ call'[c] = r
           /\ \A d \in Callers \ {c} : CallOK(d)'
BY DEF IdemInv

\* The first look.
LEMMA CallStep ==
    ASSUME IdemInv, NEW c \in Callers, Call(c)
    PROVE  IdemInv'
<1>1. PICK k \in IdemKeys, fp \in Fingerprints :
        call' = [call EXCEPT ![c] =
                    [NoCall EXCEPT !.pc = IF Mismatch(Unexpired[k], fp) THEN "idle" ELSE "wait",
                                   !.key = k, !.fp = fp, !.n = calls + 1]]
    BY DEF Call
<1> DEFINE r == [NoCall EXCEPT !.pc = IF Mismatch(Unexpired[k], fp) THEN "idle" ELSE "wait",
                               !.key = k, !.fp = fp, !.n = calls + 1]
<1>2. /\ r \in CallType /\ r.pc \in {"idle", "wait"} /\ r.key = k /\ r.fp = fp /\ r.got = Absent
  <2>1. calls + 1 \in Nat
    BY LimitsAssumption DEF IdemInv
  <2>2. QED
    BY <2>1, NoCallOK DEF CallType
<1> HIDE DEF r
<1>3. /\ entry' = Unexpired /\ calls' \in 0 .. MaxCalls
      /\ UNCHANGED <<clock, holder, finished, trimmed, cleaned>>
    BY LimitsAssumption DEF Call, IdemInv
<1>4. call \in [Callers -> CallType]
    BY DEF IdemInv
<1>5. call' \in [Callers -> CallType] /\ call'[c] = r /\ \A d \in Callers \ {c} : call'[d] = call[d]
    BY <1>1, <1>2, <1>4 DEF r
<1>6. ASSUME NEW d \in Callers PROVE CallOK(d)'
    BY <1>2, <1>3, <1>5 DEF IdemInv, CallOK, Known
<1>7. ASSUME NEW j \in IdemKeys PROVE EntryOK(j)'
    BY <1>3, Purges DEF IdemInv, EntryOK, Known
<1>8. QED
    BY <1>3, <1>5, <1>6, <1>7, Purges DEF IdemInv

\* The second look, with the lock of the key.
LEMMA LockStep ==
    ASSUME IdemInv, NEW c \in Callers, Lock(c)
    PROVE  IdemInv'
<1> DEFINE k == call[c].key
<1>1. /\ call[c].pc = "wait" /\ holder[k] = Absent /\ k \in IdemKeys /\ entry' = Unexpired
      /\ call \in [Callers -> CallType] /\ call[c] \in CallType
      /\ UNCHANGED <<clock, calls, finished, trimmed, cleaned>>
    BY DEF Lock, IdemInv, CallOK
<1>2. PICK r \in CallType :
        /\ call' = [call EXCEPT ![c] = r] /\ r.key = k /\ r.fp = call[c].fp
        /\ r.pc \in {"idle", "run"}
        /\ r.got # call[c].got => Unexpired[k] # Absent /\ r.got = Unexpired[k].value
                                  /\ Unexpired[k].fp = call[c].fp
        /\ r.pc = "run" => holder' = [holder EXCEPT ![k] = c]
        /\ r.pc = "idle" => holder' = holder
  <2>1. CASE Unexpired[k] = Absent
    <3>1. call' = [call EXCEPT ![c] = [call[c] EXCEPT !.pc = "run"]] /\ holder' = [holder EXCEPT ![k] = c]
      BY <2>1 DEF Lock, Becomes
    <3>2. PICK r : r = [call[c] EXCEPT !.pc = "run"]
      OBVIOUS
    <3>3. r \in CallType /\ r.key = k /\ r.fp = call[c].fp /\ r.pc = "run" /\ r.got = call[c].got
      BY <1>1, <3>2 DEF CallType
    <3>4. QED
      BY <3>1, <3>2, <3>3
  <2>2. CASE Unexpired[k] # Absent /\ Mismatch(Unexpired[k], call[c].fp)
    <3>1. call' = [call EXCEPT ![c] = [call[c] EXCEPT !.pc = "idle"]] /\ holder' = holder
      BY <2>2 DEF Lock, Becomes
    <3>2. PICK r : r = [call[c] EXCEPT !.pc = "idle"]
      OBVIOUS
    <3>3. r \in CallType /\ r.key = k /\ r.fp = call[c].fp /\ r.pc = "idle" /\ r.got = call[c].got
      BY <1>1, <3>2 DEF CallType
    <3>4. QED
      BY <3>1, <3>2, <3>3
  <2>3. CASE Unexpired[k] # Absent /\ ~Mismatch(Unexpired[k], call[c].fp)
    <3>1. /\ call' = [call EXCEPT ![c] = [call[c] EXCEPT !.pc = "idle", !.got = Unexpired[k].value]]
          /\ holder' = holder /\ Unexpired[k].fp = call[c].fp
      BY <2>3 DEF Lock, Returns, Mismatch
    <3>2. PICK r : r = [call[c] EXCEPT !.pc = "idle", !.got = Unexpired[k].value]
      OBVIOUS
    <3>3. Unexpired[k] \in Entry /\ Unexpired[k].value \in Result
      BY <1>1, <2>3, Purges DEF Entry
    <3>4. /\ r \in CallType /\ r.key = k /\ r.fp = call[c].fp /\ r.pc = "idle"
          /\ r.got = Unexpired[k].value
      BY <1>1, <3>2, <3>3 DEF CallType
    <3>5. QED
      BY <2>3, <3>1, <3>2, <3>4
  <2>4. QED
    BY <2>1, <2>2, <2>3
<1> HIDE DEF k
<1>3. call' \in [Callers -> CallType] /\ call'[c] = r /\ \A d \in Callers \ {c} : call'[d] = call[d]
    BY <1>1, <1>2
<1>4. /\ holder' \in [IdemKeys -> Callers \cup {Absent}]
      /\ \A j \in IdemKeys \ {k} : holder'[j] = holder[j]
      /\ r.pc = "run" => holder'[k] = c
      /\ r.pc = "idle" => holder' = holder
    BY <1>1, <1>2 DEF IdemInv
<1>5. ASSUME NEW d \in Callers PROVE CallOK(d)'
  <2>1. CASE d = c
    <3>1. r.got # Absent => r.got.fp = r.fp /\ Known(r.got)
      BY <1>1, <1>2, Purges DEF IdemInv, CallOK, EntryOK
    <3>2. k \in IdemKeys /\ call[c].fp \in Fingerprints
      BY <1>1 DEF IdemInv, CallOK
    <3>3. QED
      BY <1>1, <1>2, <1>3, <1>4, <2>1, <3>1, <3>2 DEF CallOK, Known
  <2>2. CASE d # c
    <3>1. CallOK(d) /\ call'[d] = call[d] /\ d # Absent
      BY <1>3, <2>2, AbsentAssumption DEF IdemInv
    <3>2. call[d].pc \in {"run", "store"} => call[d].key # k
      BY <1>1, <3>1 DEF CallOK
    <3>3. QED
      BY <1>1, <1>4, <3>1, <3>2 DEF CallOK, Known
  <2>3. QED
    BY <2>1, <2>2
<1>6. ASSUME NEW j \in IdemKeys PROVE EntryOK(j)'
    BY <1>1, Purges DEF IdemInv, EntryOK, Known
<1>7. QED
    BY <1>1, <1>3, <1>4, <1>5, <1>6, Purges DEF IdemInv

\* A caller that holds the lock of its key goes on, or leaves the lock.
LEMMA HolderMoves ==
    ASSUME IdemInv, NEW c \in Callers, call[c].pc \in {"run", "store"}, NEW r \in CallType,
           call' = [call EXCEPT ![c] = r], r.key = call[c].key, r.fp = call[c].fp,
           \/ r.pc = "store" /\ r.value \in Result /\ r.value.fp = r.fp /\ Known(r.value)'
              /\ holder' = holder
           \/ r.pc = "idle" /\ holder' = [holder EXCEPT ![call[c].key] = Absent],
           r.got # call[c].got => r.got \in Result /\ r.got.fp = r.fp /\ Known(r.got)',
           cleaned \subseteq cleaned'
    PROVE  /\ call' \in [Callers -> CallType] /\ holder' \in [IdemKeys -> Callers \cup {Absent}]
           /\ \A d \in Callers : CallOK(d)'
<1>1. /\ call \in [Callers -> CallType] /\ call[c].key \in IdemKeys /\ call[c].fp \in Fingerprints
      /\ holder \in [IdemKeys -> Callers \cup {Absent}] /\ holder[call[c].key] = c
      /\ call[c].got # Absent => call[c].got.fp = call[c].fp /\ Known(call[c].got)
    BY DEF IdemInv, CallOK
<1>2. call' \in [Callers -> CallType] /\ call'[c] = r /\ \A d \in Callers \ {c} : call'[d] = call[d]
    BY <1>1
<1>3. /\ holder' \in [IdemKeys -> Callers \cup {Absent}]
      /\ \A j \in IdemKeys \ {call[c].key} : holder'[j] = holder[j]
      /\ r.pc = "store" => holder' = holder
    BY <1>1
<1>4. CallOK(c)'
    BY <1>1, <1>2, <1>3 DEF CallOK, Known
<1>5. ASSUME NEW d \in Callers \ {c} PROVE CallOK(d)'
  <2>1. CallOK(d) /\ call'[d] = call[d]
    BY <1>2 DEF IdemInv
  <2>2. call[d].pc \in {"run", "store"} => call[d].key # call[c].key
    BY <1>1, <1>5, <2>1 DEF CallOK
  <2>3. QED
    BY <1>3, <2>1, <2>2 DEF CallOK, Known
<1>6. QED
    BY <1>2, <1>3, <1>4, <1>5

\* An operation that raises leaves the lock of its key.
LEMMA RaisesStep ==
    ASSUME IdemInv, NEW c \in Callers, Raises(c)
    PROVE  IdemInv'
<1>1. call[c] \in CallType
    BY DEF IdemInv
<1>2. PICK r : r = [call[c] EXCEPT !.pc = "idle"]
    OBVIOUS
<1>3. /\ r \in CallType /\ r.pc = "idle" /\ r.key = call[c].key /\ r.fp = call[c].fp
      /\ r.got = call[c].got
    BY <1>1, <1>2 DEF CallType
<1>4. /\ call[c].pc = "run" /\ call' = [call EXCEPT ![c] = r]
      /\ holder' = [holder EXCEPT ![call[c].key] = Absent]
      /\ UNCHANGED <<clock, entry, calls, finished, trimmed, cleaned>>
    BY <1>2 DEF Raises, Becomes
<1>5. /\ call' \in [Callers -> CallType] /\ holder' \in [IdemKeys -> Callers \cup {Absent}]
      /\ \A d \in Callers : CallOK(d)'
    BY <1>3, <1>4, HolderMoves
<1>6. QED
    BY <1>4, <1>5 DEF IdemInv, EntryOK, Known

\* An operation that returns.
LEMMA GivesStep ==
    ASSUME IdemInv, NEW c \in Callers, Blocks(c) \/ Prepares(c)
    PROVE  IdemInv'
<1>1. /\ call[c] \in CallType /\ call[c].pc = "run" /\ call[c].fp \in Fingerprints
      /\ clock + EntryTtl \in Nat /\ call[c].n \in Nat
  <2>1. call[c] \in CallType /\ call[c].pc = "run" /\ clock \in 0 .. MaxClock /\ CallOK(c)
    BY DEF IdemInv, Blocks, Prepares
  <2>2. call[c].fp \in Fingerprints /\ call[c].n \in Nat
    BY <2>1 DEF CallOK, CallType
  <2>3. QED
    BY <2>1, <2>2, LimitsAssumption
<1>2. PICK ok \in BOOLEAN :
        /\ call' = [call EXCEPT ![c] = [call[c] EXCEPT !.pc = "store", !.value = Value(c, ok)]]
        /\ ok => cleaned' = cleaned \cup {call[c].n}
        /\ cleaned \subseteq cleaned'
  <2>1. CASE Blocks(c)
    BY <2>1 DEF Blocks, Gives
  <2>2. CASE Prepares(c)
    BY <2>2 DEF Prepares, Gives
  <2>3. QED
    BY <2>1, <2>2
<1>3. UNCHANGED <<clock, entry, holder, calls, finished, trimmed>>
    BY DEF Blocks, Prepares
<1>4. PICK v : v = Value(c, ok)
    OBVIOUS
<1>5. /\ v \in Result /\ v.fp = call[c].fp /\ Known(v)'
    BY <1>1, <1>2, <1>4 DEF Value, Result, Known
<1>6. PICK r : r = [call[c] EXCEPT !.pc = "store", !.value = v]
    OBVIOUS
<1>7. /\ r \in CallType /\ r.pc = "store" /\ r.key = call[c].key /\ r.fp = call[c].fp
      /\ r.got = call[c].got /\ r.value = v
    BY <1>1, <1>5, <1>6 DEF CallType
<1>8. call' = [call EXCEPT ![c] = r] /\ cleaned \subseteq cleaned'
    BY <1>2, <1>4, <1>6
<1>9. /\ call' \in [Callers -> CallType] /\ holder' \in [IdemKeys -> Callers \cup {Absent}]
      /\ \A d \in Callers : CallOK(d)'
    BY <1>1, <1>3, <1>5, <1>7, <1>8, HolderMoves
<1>10. QED
    BY <1>3, <1>8, <1>9 DEF IdemInv, EntryOK, Known

\* Storing an entry leaves at most max_entries.
LEMMA StoreFits ==
    ASSUME IdemInv, NEW k \in IdemKeys, NEW new \in Entry, NEW e, e = [entry EXCEPT ![k] = new]
    PROVE  /\ e \in [IdemKeys -> Entry \cup {Absent}]
           /\ IsFiniteSet(Full(e)) /\ Cardinality(Full(e)) \in Nat
           /\ Cardinality(Full(e)) <= MaxEntries + 1
           /\ \A j \in Full(e) : LET f == [e EXCEPT ![j] = Absent] IN
                IsFiniteSet(Full(f)) /\ Cardinality(Full(f)) <= MaxEntries
<1>1. e \in [IdemKeys -> Entry \cup {Absent}]
    BY DEF IdemInv
<1>2. Full(e) = Full(entry) \cup {k}
    BY AbsentAssumption DEF IdemInv, Full
<1>3. /\ IsFiniteSet(Full(entry)) /\ Cardinality(Full(entry)) <= MaxEntries
      /\ Cardinality(Full(entry)) \in Nat
    BY FS_CardinalityType DEF IdemInv
<1>4. IsFiniteSet(Full(e)) /\ Cardinality(Full(e)) \in Nat /\ Cardinality(Full(e)) <= MaxEntries + 1
  <2>1. /\ IsFiniteSet(Full(e))
        /\ Cardinality(Full(e)) \in {Cardinality(Full(entry)), Cardinality(Full(entry)) + 1}
    <3>1. PICK F : F = Full(entry)
      OBVIOUS
    <3>2. /\ IsFiniteSet(F \cup {k})
          /\ Cardinality(F \cup {k}) = IF k \in F THEN Cardinality(F) ELSE Cardinality(F) + 1
      BY <1>3, <3>1, FS_AddElement
    <3>3. QED
      BY <1>2, <3>1, <3>2
  <2> DEFINE a == Cardinality(Full(entry))
             b == Cardinality(Full(e))
  <2>2. a \in Nat /\ a <= MaxEntries /\ b \in {a, a + 1} /\ MaxEntries \in Nat
    BY <1>3, <2>1, LimitsAssumption
  <2> HIDE DEF a, b
  <2>3. b \in Nat /\ b <= MaxEntries + 1
    BY <2>2
  <2>4. QED
    BY <2>1, <2>3 DEF b
<1>5. ASSUME NEW j \in Full(e)
      PROVE  LET f == [e EXCEPT ![j] = Absent] IN IsFiniteSet(Full(f)) /\ Cardinality(Full(f)) <= MaxEntries
  <2> DEFINE f == [e EXCEPT ![j] = Absent]
             b == Cardinality(Full(e))
             d == Cardinality(Full(f))
  <2>1. Full(f) = Full(e) \ {j}
    BY <1>1 DEF Full
  <2> HIDE DEF f
  <2>2. IsFiniteSet(Full(f)) /\ d = b - 1
    <3>1. PICK F : F = Full(e)
      OBVIOUS
    <3>2. IsFiniteSet(F \ {j}) /\ Cardinality(F \ {j}) = Cardinality(F) - 1
      BY <1>4, <3>1, FS_RemoveElement
    <3>3. QED
      BY <2>1, <3>1, <3>2
  <2>3. b \in Nat /\ b <= MaxEntries + 1 /\ MaxEntries \in Nat
    BY <1>4, LimitsAssumption
  <2> HIDE DEF b, d
  <2>4. d <= MaxEntries
    BY <2>2, <2>3
  <2>5. QED
    BY <2>2, <2>4 DEF d, f
<1>6. QED
    BY <1>1, <1>4, <1>5

\* Its result is stored, which may trim the entry of another key.
LEMMA StoreStep ==
    ASSUME IdemInv, NEW c \in Callers, Store(c)
    PROVE  IdemInv'
<1> DEFINE k == call[c].key
           new == [fp |-> call[c].fp, value |-> call[c].value, expires |-> clock + EntryTtl]
           e == [entry EXCEPT ![k] = new]
<1>1. /\ call[c] \in CallType /\ call[c].pc = "store" /\ k \in IdemKeys /\ call[c].fp \in Fingerprints
      /\ call[c].value \in Result /\ call[c].value.fp = call[c].fp /\ Known(call[c].value)
      /\ clock \in Nat /\ clock + EntryTtl \in Nat
    BY LimitsAssumption DEF IdemInv, CallOK, Store
<1>2. /\ UNCHANGED <<clock, calls, cleaned>>
      /\ finished' = [finished EXCEPT ![k] = clock]
      /\ holder' = [holder EXCEPT ![k] = Absent]
      /\ call' = [call EXCEPT ![c] = [call[c] EXCEPT !.pc = "idle", !.got = call[c].value]]
    BY DEF Store, Returns
<1>3. new \in Entry
    BY <1>1 DEF Entry
<1>4. /\ e \in [IdemKeys -> Entry \cup {Absent}] /\ IsFiniteSet(Full(e)) /\ Cardinality(Full(e)) \in Nat
      /\ \A j \in Full(e) : LET f == [e EXCEPT ![j] = Absent] IN
                IsFiniteSet(Full(f)) /\ Cardinality(Full(f)) <= MaxEntries
    BY <1>1, <1>3, StoreFits
<1>5. /\ entry' \in [IdemKeys -> Entry \cup {Absent}] /\ entry'[k] = new
      /\ IsFiniteSet(Full(entry')) /\ Cardinality(Full(entry')) <= MaxEntries
      /\ trimmed' \subseteq IdemKeys
      /\ \A j \in IdemKeys \ {k} :
           /\ entry'[j] = entry[j] \/ entry'[j] = Absent
           /\ j \in trimmed' \/ (entry'[j] = entry[j] /\ (j \in trimmed' <=> j \in trimmed))
  <2>1. CASE Cardinality(Full(e)) > MaxEntries
    <3>1. PICK j \in IdemKeys \ {k} : /\ Oldest(e, j) /\ entry' = [e EXCEPT ![j] = Absent]
                                      /\ trimmed' = (trimmed \ {k}) \cup {j}
      BY <2>1 DEF Store, Full
    <3>2. j \in Full(e)
      BY <3>1 DEF Oldest, Full
    <3>3. IsFiniteSet(Full(entry')) /\ Cardinality(Full(entry')) <= MaxEntries
      BY <1>4, <3>1, <3>2
    <3>4. /\ entry' \in [IdemKeys -> Entry \cup {Absent}] /\ entry'[k] = new
          /\ \A i \in IdemKeys \ {k} : entry'[i] = IF i = j THEN Absent ELSE entry[i]
      BY <1>1, <1>3, <1>4, <3>1 DEF IdemInv
    <3> HIDE DEF k, new, e
    <3>5. QED
      BY <3>1, <3>3, <3>4 DEF IdemInv
  <2>2. CASE ~(Cardinality(Full(e)) > MaxEntries)
    <3>1. entry' = e /\ trimmed' = trimmed \ {k}
      BY <2>2 DEF Store, Full
    <3>2. Cardinality(Full(e)) <= MaxEntries
      BY <1>4, <2>2, LimitsAssumption
    <3>3. /\ entry'[k] = new
          /\ \A i \in IdemKeys \ {k} : entry'[i] = entry[i]
      BY <1>1, <1>3, <3>1 DEF IdemInv
    <3>4. IsFiniteSet(Full(entry')) /\ Cardinality(Full(entry')) <= MaxEntries
      BY <1>4, <3>1, <3>2
    <3>5. entry' \in [IdemKeys -> Entry \cup {Absent}]
      BY <1>4, <3>1
    <3> HIDE DEF k, new, e
    <3>6. QED
      BY <3>1, <3>3, <3>4, <3>5 DEF IdemInv
  <2>3. QED
    BY <2>1, <2>2
<1>6. new.fp = call[c].fp /\ new.value = call[c].value /\ new.expires = clock + EntryTtl
    OBVIOUS
<1> HIDE DEF new, e
<1>7. PICK r : r = [call[c] EXCEPT !.pc = "idle", !.got = call[c].value]
    OBVIOUS
<1>8. /\ r \in CallType /\ r.pc = "idle" /\ r.key = k /\ r.fp = call[c].fp /\ r.got = call[c].value
    BY <1>1, <1>7 DEF CallType
<1>9. call' = [call EXCEPT ![c] = r]
    BY <1>2, <1>7
<1>10. r.got \in Result /\ r.got.fp = r.fp /\ Known(r.got)'
    BY <1>1, <1>2, <1>8 DEF Known
<1>11. /\ call' \in [Callers -> CallType] /\ holder' \in [IdemKeys -> Callers \cup {Absent}]
       /\ \A d \in Callers : CallOK(d)'
    BY <1>1, <1>2, <1>8, <1>9, <1>10, HolderMoves
<1>12. finished' \in [IdemKeys -> Nat \cup {Absent}] /\ finished'[k] = clock
       /\ \A j \in IdemKeys \ {k} : finished'[j] = finished[j]
    BY <1>1, <1>2 DEF IdemInv
<1>13. ASSUME NEW j \in IdemKeys PROVE EntryOK(j)'
  <2>1. CASE j = k
    BY <1>1, <1>2, <1>3, <1>5, <1>6, <1>12, <2>1, AbsentAssumption DEF EntryOK, Known
  <2>2. CASE j # k
    <3>1. EntryOK(j)
      BY DEF IdemInv
    <3>2. QED
      BY <1>2, <1>5, <1>12, <2>2, <3>1 DEF EntryOK, Known
  <2>3. QED
    BY <2>1, <2>2
<1>14. QED
    BY <1>2, <1>5, <1>11, <1>12, <1>13 DEF IdemInv

\* Time only takes from what an entry promises.
LEMMA TockStep ==
    ASSUME IdemInv, Tock
    PROVE  IdemInv'
<1>1. clock \in Nat /\ clock' = clock + 1 /\ clock' \in 0 .. MaxClock
      /\ UNCHANGED <<entry, holder, call, calls, finished, trimmed, cleaned>>
    BY LimitsAssumption DEF Tock, IdemInv
<1>2. ASSUME NEW k \in IdemKeys PROVE EntryOK(k)'
  <2>1. EntryOK(k) /\ finished[k] \in Nat \cup {Absent}
    BY DEF IdemInv
  <2>2. finished[k] # Absent /\ finished[k] + EntryTtl <= clock => finished[k] + EntryTtl <= clock'
    BY <1>1, <2>1, LimitsAssumption
  <2>3. QED
    BY <1>1, <2>1, <2>2 DEF EntryOK, Known
<1>3. \A c \in Callers : CallOK(c)'
    BY <1>1 DEF IdemInv, CallOK, Known
<1>4. QED
    BY <1>1, <1>2, <1>3 DEF IdemInv

\* Every step keeps the invariant.
LEMMA IdemStep ==
    ASSUME IdemInv, [IdemNext]_idemVars
    PROVE  IdemInv'
<1>1. CASE UNCHANGED idemVars
    BY <1>1 DEF idemVars, IdemInv, CallOK, EntryOK, Known
<1>2. CASE Tock
    BY <1>2, TockStep
<1>3. ASSUME NEW c \in Callers,
             Call(c) \/ Lock(c) \/ Raises(c) \/ Blocks(c) \/ Prepares(c) \/ Store(c)
      PROVE  IdemInv'
    BY <1>3, CallStep, LockStep, RaisesStep, GivesStep, StoreStep
<1>4. QED
    BY <1>1, <1>2, <1>3 DEF IdemNext

\* It holds at the start.
LEMMA IdemStart == IdemInit => IdemInv
<1> SUFFICES ASSUME IdemInit PROVE IdemInv
    OBVIOUS
<1>1. Full(entry) = {}
    BY DEF Full, IdemInit
<1>2. IsFiniteSet(Full(entry)) /\ Cardinality(Full(entry)) <= MaxEntries
  <2>1. IsFiniteSet(Full(entry)) /\ Cardinality(Full(entry)) = 0
    BY <1>1, FS_EmptySet
  <2>2. QED
    BY <2>1, LimitsAssumption
<1>3. call \in [Callers -> CallType] /\ \A c \in Callers : call[c] = NoCall
    BY NoCallOK DEF IdemInit
<1>4. \A c \in Callers : CallOK(c)
    BY <1>3 DEF CallOK, NoCall
<1>5. QED
    BY <1>2, <1>3, <1>4, LimitsAssumption DEF IdemInit, IdemInv, EntryOK

\* It is an invariant.
LEMMA IdemInvariance == IdemSpec => []IdemInv
<1>1. IdemInv /\ [IdemNext]_idemVars => IdemInv'
    BY IdemStep
<1>2. QED
    BY <1>1, IdemStart, PTL DEF IdemSpec

\* It contains the types.
LEMMA IdemTyped == IdemInv => IdemTypeOK
BY DEF IdemInv, IdemTypeOK, Full

\* The store keeps at most max_entries and its state its types (_trim_locked).
THEOREM IdempotentTypeCorrect == IdemSpec => []IdemTypeOK
BY IdemInvariance, IdemTyped, PTL

\* For any number of threads, keys and requests: one run of a key at a time, no
\* result of another request, and no receipt before the cleanup was verified.
THEOREM IdempotencyHeld == IdemSpec => []IdempotencyHolds
<1>1. IdemInv => IdempotencyHolds
  <2> SUFFICES ASSUME IdemInv PROVE IdempotencyHolds
    OBVIOUS
  <2>1. OneRunPerKey
    BY DEF IdemInv, CallOK, OneRunPerKey
  <2>2. NoForeignResult
    BY DEF IdemInv, CallOK, NoForeignResult
  <2>3. ReceiptAfterCleanup
    BY DEF IdemInv, CallOK, Known, ReceiptAfterCleanup
  <2>4. QED
    BY <2>1, <2>2, <2>3 DEF IdempotencyHolds
<1>2. QED
    BY <1>1, IdemInvariance, PTL

\* A second look never misses a result that is still good (run, _purge_locked).
THEOREM RetriesAreNotRepeated == IdemSpec => RetryIsNotRepeated
<1> DEFINE Repeats == \A c \in Callers :
          call[c].pc = "wait" /\ call'[c].pc = "run" =>
              LET k == call[c].key IN
              finished[k] = Absent \/ finished[k] + EntryTtl <= clock \/ k \in trimmed
<1>1. ASSUME IdemInv, [IdemNext]_idemVars, NEW c \in Callers,
             call[c].pc = "wait", call'[c].pc = "run"
      PROVE  LET k == call[c].key IN
              finished[k] = Absent \/ finished[k] + EntryTtl <= clock \/ k \in trimmed
  <2>1. call \in [Callers -> CallType] /\ call[c].key \in IdemKeys
    BY <1>1 DEF IdemInv, CallOK
  <2>2. Lock(c)
    <3>1. ~ UNCHANGED call
      BY <1>1
    <3>2. PICK d \in Callers : Call(d) \/ Lock(d) \/ Raises(d) \/ Blocks(d) \/ Prepares(d) \/ Store(d)
      BY <1>1, <3>1 DEF IdemNext, idemVars, Tock
    <3>3. d = c
      BY <1>1, <2>1, <3>2 DEF Call, Lock, Raises, Blocks, Prepares, Store, Becomes, Returns, Gives
    <3>4. QED
      BY <1>1, <3>2, <3>3 DEF Call, Raises, Blocks, Prepares, Store
  <2>3. Unexpired[call[c].key] = Absent
    BY <1>1, <2>1, <2>2 DEF Lock, Becomes, Returns, CallType
  <2>4. QED
    BY <1>1, <2>1, <2>3, Purges
<1>2. IdemInv /\ [IdemNext]_idemVars => [Repeats]_idemVars
    BY <1>1
<1>3. QED
    BY <1>2, IdemInvariance, PTL DEF IdemSpec, RetryIsNotRepeated

(***************************************************************************)
(* The composition                                                         *)
(***************************************************************************)

\* The transaction that does not run stays as it began.
TransactionsInv == TransactionInv /\ IdemInv

\* Whichever transaction runs, the state has its type.
THEOREM TransactionsTypeCorrect == TransactionsSpec => []TransactionsTypeOK
<1>1. TransactionsInit => TransactionsInv
    BY TransactionStart, IdemStart DEF TransactionsInit, TransactionsInv
<1>2. ASSUME TransactionsInv, [TransactionsNext]_<<part, vars, idemVars>>
      PROVE  TransactionsInv'
  <2>1. [Next]_vars /\ [IdemNext]_idemVars
    BY <1>2 DEF TransactionsNext
  <2>2. QED
    BY <1>2, <2>1, TransactionStep, TransactionStutter, IdemStep DEF TransactionsInv
<1>3. TransactionsInv => TransactionsTypeOK
    BY TransactionTyped, IdemTyped DEF TransactionsInv, TransactionsTypeOK
<1>4. QED
    BY <1>1, <1>2, <1>3, PTL DEF TransactionsSpec
===============================================================================
