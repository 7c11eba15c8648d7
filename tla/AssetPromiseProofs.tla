-------------------------- MODULE AssetPromiseProofs --------------------------
(***************************************************************************)
(* The asset store implements AssetPromise, for any number of tenants,     *)
(* assets, threads, faults and crashes.                                    *)
(***************************************************************************)
EXTENDS AssetStoreProofs

\* An identifier has an owner only once put has returned it.
OwnerInv ==
    /\ \A a \in Assets \ issued : owner[a] = None
    /\ \A t \in Threads : call[t].pc = "record" => owner[call[t].asset] = None

PInv == AInv /\ OwnerInv

\* Every step other than AddRecord leaves the owners, keeps what has been
\* issued, and puts a call before its record only with a fresh identifier.
LEMMA OwnerStep == PInv /\ [Next]_vars => OwnerInv'
<1> SUFFICES ASSUME PInv, [Next]_vars PROVE OwnerInv'
    OBVIOUS
<1>0. TypeOK /\ OwnerInv
    BY DEF PInv, AInv
<1>1. ASSUME NEW t \in Threads, Write(t) PROVE OwnerInv'
  <2>1. PICK a \in Assets \ issued :
           /\ issued' = issued \cup {a}
           /\ call' = [call EXCEPT ![t] = [@ EXCEPT !.asset = a, !.pc = "record"]]
    BY <1>1 DEF Write
  <2>2. owner' = owner /\ owner[a] = None
    BY <1>0, <1>1, <2>1 DEF Write, OwnerInv
  <2>3. call'[t].asset = a /\ \A u \in Threads \ {t} : call'[u] = call[u]
    BY <1>0, <2>1 DEF TypeOK, Calls
  <2>4. QED
    BY <1>0, <2>1, <2>2, <2>3 DEF OwnerInv
<1>2. ASSUME NEW t \in Threads, AddRecord(t) PROVE OwnerInv'
  <2> DEFINE a == call[t].asset
  <2>1. a \in issued /\ issued' = issued /\ call[t].pc = "record"
    BY <1>2 DEF AddRecord, PInv, AInv, InFlight
  <2>2. \A b \in Assets \ {a} : owner'[b] = owner[b]
    BY <1>0, <1>2 DEF AddRecord, TypeOK
  <2>3. call'[t].pc = "idle" /\ \A u \in Threads \ {t} : call'[u] = call[u]
    BY <1>0, <1>2 DEF AddRecord, Return, Idle, TypeOK
  <2>4. ASSUME NEW u \in Threads, call'[u].pc = "record" PROVE owner'[call'[u].asset] = None
    <3>1. u \in Threads \ {t} /\ call'[u] = call[u] /\ call[u].pc = "record"
      BY <2>3, <2>4
    <3>2. call[u].asset /= a /\ call[u].asset \in issued
      BY <3>1, <2>1 DEF PInv, AInv, InFlight
    <3>3. QED
      BY <1>0, <2>2, <3>1, <3>2 DEF OwnerInv, TypeOK
  <2>5. QED
    BY <1>0, <2>1, <2>2, <2>4 DEF OwnerInv
<1>3. ASSUME NEW t \in Threads,
             \/ Begin(t) \/ Purge(t) \/ PurgeFails(t) \/ WriteFails(t) \/ Consume(t)
             \/ ConsumeFails(t) \/ Delete(t) \/ DeleteFails(t)
      PROVE  OwnerInv'
  <2>1. owner' = owner /\ issued \subseteq issued'
    BY <1>3 DEF Begin, Purge, PurgeFails, WriteFails, Consume, ConsumeFails, Delete, DeleteFails
  <2>2. \A u \in Threads : call'[u].pc = "record" => call'[u] = call[u]
    BY <1>0, <1>3 DEF Begin, Purge, PurgeFails, WriteFails, Consume, ConsumeFails, Delete,
                      DeleteFails, Return, Idle, TypeOK, Calls
  <2>3. QED
    BY <1>0, <2>1, <2>2 DEF OwnerInv
<1>4. CASE Clear \/ ClearFails \/ Tick \/ UNCHANGED vars
  BY <1>0, <1>4 DEF Clear, ClearFails, Tick, vars, OwnerInv
<1>5. CASE Crash
  BY <1>0, <1>5 DEF Crash, Idle, OwnerInv
<1>6. QED
  BY <1>1, <1>2, <1>3, <1>4, <1>5 DEF Next, Step

\* The strengthened invariant holds throughout.
LEMMA PInvariance == Spec => []PInv
<1>1. Init => PInv
  BY InitInv DEF Init, Idle, OwnerInv, PInv
<1>2. PInv /\ [Next]_vars => PInv'
  BY NextInv, OwnerStep DEF PInv
<1>3. QED
  BY <1>1, <1>2, PTL DEF Spec
-------------------------------------------------------------------------------
\* A step that only drops records, or none, gives their assets up.
LEMMA Dropping ==
    ASSUME PInv, UNCHANGED <<owner, delivered>>, DOMAIN records' \subseteq DOMAIN records,
           \A a \in DOMAIN records' : records'[a] = records[a]
    PROVE  Promised!GiveUp(DOMAIN records \ DOMAIN records')
<1> DEFINE S == DOMAIN records \ DOMAIN records'
<1>1. ASSUME NEW a \in DOMAIN records
      PROVE  /\ a \in Assets
             /\ PlaceOf(a) = [state |-> "held", tenant |-> records[a].tenant]
             /\ \A w \in Tenants : delivered[a][w] = 0
             /\ owner[a] /= None
  <2>1. a \in Assets /\ records[a] \in Record
    BY DEF PInv, AInv, TypeOK
  <2>2. /\ \A w \in Tenants : delivered[a][w] = 0
        /\ owner[a] = records[a].tenant
    BY DEF PInv, AInv, RecordInv
  <2>3. ~ \E w \in Tenants : delivered[a][w] > 0
    BY <2>2
  <2>4. QED
    BY <2>1, <2>2, <2>3, NoneAssumption DEF PlaceOf, Record
<1>2. \A a \in S : Place[a].state = "held"
  BY <1>1 DEF Place
<1>3. ASSUME NEW a \in Assets
      PROVE  PlaceOf(a)' = IF a \in S THEN [state |-> "given up"] ELSE Place[a]
  <2>1. CASE a \in S
    <3>1. ~(\E w \in Tenants : delivered'[a][w] > 0) /\ a \notin DOMAIN records' /\ owner'[a] /= None
      BY <1>1, <2>1
    <3>2. QED
      BY <2>1, <3>1 DEF PlaceOf
  <2>2. CASE a \notin S
    <3>1. a \in DOMAIN records' <=> a \in DOMAIN records
      BY <2>2
    <3>2. QED
      BY <2>2, <3>1 DEF PlaceOf, Place
  <2>3. QED
    BY <2>1, <2>2
<1>4. Place' = [a \in Assets |-> IF a \in S THEN [state |-> "given up"] ELSE Place[a]]
  BY <1>3 DEF Place
<1>5. QED
  BY <1>2, <1>4 DEF Promised!GiveUp, Promised!GivenUp

\* AddRecord holds the upload for the tenant of the call.
LEMMA Holding ==
    ASSUME PInv, NEW t \in Threads, AddRecord(t), NEW a, a = call[t].asset,
           NEW w, w = call[t].tenant
    PROVE  Promised!Hold(a, w)
<1>0. TypeOK
  BY DEF PInv, AInv
<1>1. /\ a \in issued /\ a \in Assets /\ a \notin DOMAIN records /\ owner[a] = None
      /\ \A v \in Tenants : delivered[a][v] = 0
      /\ w \in Tenants
  BY <1>0 DEF PInv, AInv, AddRecord, InFlight, CallInv, OwnerInv, TypeOK
<1>2. PlaceOf(a) = [state |-> "unknown"]
  BY <1>1 DEF PlaceOf
<1>3. /\ DOMAIN records' = DOMAIN records \cup {a}
      /\ records'[a].tenant = w
      /\ \A b \in DOMAIN records : b /= a => records'[b] = records[b]
      /\ \A b \in Assets : b /= a => owner'[b] = owner[b]
      /\ delivered' = delivered
  BY <1>0 DEF AddRecord, TypeOK
<1>4. PlaceOf(a)' = [state |-> "held", tenant |-> w]
  <2>1. a \in DOMAIN records' /\ records'[a].tenant = w
    BY <1>3
  <2>2. ~(\E v \in Tenants : delivered'[a][v] > 0)
    BY <1>1, <1>3
  <2>3. QED
    BY <2>1, <2>2 DEF PlaceOf
<1>5. ASSUME NEW b \in Assets, b /= a PROVE PlaceOf(b)' = PlaceOf(b)
  BY <1>3, <1>5 DEF PlaceOf
<1>6. Place' = [Place EXCEPT ![a] = [state |-> "held", tenant |-> w]]
  BY <1>1, <1>4, <1>5 DEF Place
<1>7. QED
  BY <1>1, <1>2, <1>6 DEF Promised!Hold, Promised!Held, Promised!Unknown, Place

\* Consume hands the upload out, for the first time, to its owner.
LEMMA HandingOut ==
    ASSUME PInv, NEW t \in Threads, Consume(t), NEW a, a = call[t].asset,
           NEW w, w = call[t].tenant
    PROVE  Promised!HandOut(a, w)
<1>0. TypeOK
  BY DEF PInv, AInv
<1>1. a \in DOMAIN records /\ records[a].tenant = w /\ a \in Assets /\ w \in Tenants
  BY <1>0 DEF Consume, ConsumeReturns, Available, TypeOK, Record
<1>2. \A v \in Tenants : delivered[a][v] = 0
  BY <1>1 DEF PInv, AInv, RecordInv
<1>3. PlaceOf(a) = [state |-> "held", tenant |-> w]
  BY <1>1, <1>2 DEF PlaceOf
<1>4. /\ DOMAIN records' = DOMAIN records \ {a}
      /\ \A b \in DOMAIN records' : records'[b] = records[b]
  BY <1>0, Dropped DEF Consume, ConsumeReturns
<1>5. /\ delivered'[a] = [v \in Tenants |-> IF v = w THEN 1 ELSE 0]
      /\ \A b \in Assets : b /= a => delivered'[b] = delivered[b]
      /\ owner' = owner
  BY <1>0, <1>1, <1>2 DEF Consume, ConsumeReturns, TypeOK
<1>6. PlaceOf(a)' = [state |-> "taken", times |-> [v \in Tenants |-> IF v = w THEN 1 ELSE 0]]
  <2>1. \E v \in Tenants : delivered'[a][v] > 0
    BY <1>1, <1>5
  <2>2. QED
    BY <2>1, <1>5 DEF PlaceOf
<1>7. ASSUME NEW b \in Assets, b /= a PROVE PlaceOf(b)' = PlaceOf(b)
  BY <1>4, <1>5, <1>7 DEF PlaceOf
<1>8. Place' = [Place EXCEPT ![a] = [state |-> "taken",
                                    times |-> [v \in Tenants |-> IF v = w THEN 1 ELSE 0]]]
  BY <1>1, <1>6, <1>7 DEF Place
<1>9. QED
  BY <1>1, <1>3, <1>8 DEF Promised!HandOut, Promised!Held, Promised!Taken, Place

\* The store implements AssetPromise: the bytes of an upload are handed out to
\* the tenant that uploaded them, once, or the upload is given up, whatever
\* the threads, the file system, the clock and crashes do.
THEOREM StoreKeepsPromise == Spec => KeepsPromise
<1>1. Init => Promised!Init
  <2> SUFFICES ASSUME Init PROVE Promised!Init
    OBVIOUS
  <2>1. ASSUME NEW a \in Assets PROVE PlaceOf(a) = [state |-> "unknown"]
    BY DEF Init, PlaceOf
  <2>2. QED
    BY <2>1 DEF Promised!Init, Promised!Unknown, Place
<1>2. PInv /\ [Next]_vars => [Promised!Next]_Place
  <2> SUFFICES ASSUME PInv, [Next]_vars PROVE Promised!Next
    OBVIOUS
  <2>1. ASSUME NEW t \in Threads, AddRecord(t) PROVE Promised!Next
    <3>1. call[t].asset \in Assets /\ call[t].tenant \in Tenants
      BY <2>1 DEF AddRecord, PInv, AInv, TypeOK, InFlight, CallInv
    <3>2. QED
      BY <2>1, <3>1, Holding DEF Promised!Next
  <2>2. ASSUME NEW t \in Threads, Consume(t) PROVE Promised!Next
    <3>1. call[t].asset \in Assets /\ call[t].tenant \in Tenants
      BY <2>2 DEF Consume, ConsumeReturns, Available, PInv, AInv, TypeOK, Record
    <3>2. QED
      BY <2>2, <3>1, HandingOut DEF Promised!Next
  <2>3. ASSUME \/ \E t \in Threads : \/ Begin(t) \/ Purge(t) \/ PurgeFails(t) \/ Write(t)
                                     \/ WriteFails(t) \/ ConsumeFails(t) \/ Delete(t) \/ DeleteFails(t)
               \/ Clear \/ ClearFails \/ Tick \/ Crash \/ UNCHANGED vars
        PROVE  Promised!Next
    <3>1. UNCHANGED <<owner, delivered>>
      BY <2>3 DEF Begin, Purge, PurgeFails, Write, WriteFails, ConsumeFails, Delete, DeleteFails,
                  Clear, ClearFails, Tick, Crash, vars
    <3>2. records' = records \/ \E S : records' = Without(records, S)
      BY <2>3 DEF Begin, Purge, PurgeFails, Write, WriteFails, ConsumeFails, Delete, DeleteFails,
                  Clear, ClearFails, Tick, Crash, vars
    <3>3. /\ DOMAIN records' \subseteq DOMAIN records
          /\ \A a \in DOMAIN records' : records'[a] = records[a]
      BY <3>2, Dropped DEF PInv, AInv
    <3>4. Promised!GiveUp(DOMAIN records \ DOMAIN records')
      BY <3>1, <3>3, Dropping
    <3>5. DOMAIN records \ DOMAIN records' \in SUBSET Assets
      BY DEF PInv, AInv, TypeOK
    <3>6. QED
      BY <3>4, <3>5 DEF Promised!Next
  <2>4. QED
    BY <2>1, <2>2, <2>3 DEF Next, Step
<1>3. QED
  BY <1>1, <1>2, PInvariance, PTL DEF Spec, KeepsPromise, Promised!Spec
===============================================================================
