--------------------------- MODULE AssetStoreProofs ---------------------------
(***************************************************************************)
(* The asset store hands out an asset at most once, to its owner, after     *)
(* deleting it, and keeps track of every file, for any number of tenants,   *)
(* assets, threads, faults and crashes.                                     *)
(***************************************************************************)
EXTENDS AssetStore, TLAPS

\* A put about to add its record: the identifier is its own and unused.
InFlight(t) ==
    call[t].pc = "record" =>
        /\ call[t].asset \in issued
        /\ call[t].asset \notin DOMAIN records
        /\ \A w \in Tenants : delivered[call[t].asset][w] = 0
        /\ \A u \in Threads \ {t} : call[u].pc = "record" => call[u].asset /= call[t].asset

\* A call past its entry has a tenant; its clock reading is in the past.
CallInv(t) ==
    /\ call[t].pc /= "idle" => call[t].tenant \in Tenants
    /\ call[t].at <= now

\* A call past its purge finds no record that had expired when it began.
Purged(t) ==
    call[t].pc = "act" => \A a \in DOMAIN records : records[a].expires > call[t].at

RecordInv ==
    \A a \in DOMAIN records :
        /\ a \in issued
        /\ owner[a] = records[a].tenant
        /\ \A w \in Tenants : delivered[a][w] = 0

IssuedInv ==
    /\ files \subseteq issued
    /\ \A a \in Assets \ issued, w \in Tenants : delivered[a][w] = 0

(* The inductive invariant.  OneShot alone is not inductive: a record must   *)
(* be known to be undelivered and to name its owner, and the identifier of a *)
(* put in flight must be known to be nobody else's.                          *)
AInv ==
    /\ TypeOK
    /\ RecordInv
    /\ IssuedInv
    /\ \A t \in Threads : InFlight(t) /\ CallInv(t)
    /\ OneShot
    /\ DeletedOnceReturned
    /\ EveryFileAccounted

-------------------------------------------------------------------------------
\* The idle call is a call.
LEMMA IdleType == Idle \in Calls
BY DEF Idle, Calls

\* Init establishes the invariant.
LEMMA InitInv == Init => AInv
<1> SUFFICES ASSUME Init PROVE AInv
    OBVIOUS
<1>1. TypeOK
    BY IdleType DEF Init, TypeOK, Record
<1>2. RecordInv /\ IssuedInv
    BY DEF Init, RecordInv, IssuedInv
<1>3. \A t \in Threads : InFlight(t) /\ CallInv(t)
    BY DEF Init, InFlight, CallInv, Idle
<1>4. OneShot /\ DeletedOnceReturned /\ EveryFileAccounted
    BY DEF Init, OneShot, DeletedOnceReturned, EveryFileAccounted
<1>5. QED
    BY <1>1, <1>2, <1>3, <1>4 DEF AInv

-------------------------------------------------------------------------------
\* A step that only drops records, deletes the files it drops the records of
\* (and possibly others), and moves calls that are not about to add a record.
Quiet ==
    /\ DOMAIN records' \subseteq DOMAIN records
    /\ records' \in [DOMAIN records' -> Record]
    /\ \A a \in DOMAIN records' : records'[a] = records[a]
    /\ files' \subseteq files
    /\ \A a \in files' : a \in DOMAIN records => a \in DOMAIN records'
    /\ call' \in [Threads -> Calls]
    /\ \A u \in Threads :
          \/ call'[u] = call[u]
          \/ /\ call[u].pc /= "record" /\ call'[u].pc /= "record"
             /\ call'[u].pc /= "idle" => call'[u].tenant \in Tenants
             /\ call'[u].at <= now'
    /\ now' \in Nat /\ now <= now'
    /\ faults' \in Nat
    /\ UNCHANGED <<issued, owner, delivered, lost>>

\* Such a step preserves the invariant.
LEMMA QuietStep == AInv /\ Quiet => AInv'
<1> SUFFICES ASSUME AInv, Quiet PROVE AInv'
    OBVIOUS
<1> USE DEF AInv, Quiet
<1>1. TypeOK'
    BY DEF TypeOK
<1>2. RecordInv'
    BY DEF RecordInv
<1>3. IssuedInv'
    BY DEF IssuedInv
<1>4. ASSUME NEW t \in Threads PROVE InFlight(t)'
  <2>1. CASE call'[t] = call[t]
    <3>1. ASSUME NEW u \in Threads \ {t}, call'[u].pc = "record"
          PROVE call'[u] = call[u]
        BY <3>1
    <3>2. QED
        BY <2>1, <3>1 DEF InFlight
  <2>2. CASE call'[t].pc /= "record"
        BY <2>2 DEF InFlight
  <2>3. QED
        BY <2>1, <2>2
<1>5. ASSUME NEW t \in Threads PROVE CallInv(t)'
    BY <1>1 DEF CallInv, TypeOK, Calls
<1>6. OneShot' /\ DeletedOnceReturned'
    BY DEF OneShot, DeletedOnceReturned
<1>7. EveryFileAccounted'
  <2> SUFFICES ASSUME NEW a \in files' \ lost', a \notin DOMAIN records'
               PROVE \E t \in Threads : call'[t].pc = "record" /\ call'[t].asset = a
        BY DEF EveryFileAccounted
  <2>1. PICK t \in Threads : call[t].pc = "record" /\ call[t].asset = a
        BY DEF EveryFileAccounted
  <2>2. call'[t] = call[t]
        BY <2>1
  <2>3. QED
        BY <2>1, <2>2
<1>8. QED
    BY <1>1, <1>2, <1>3, <1>4, <1>5, <1>6, <1>7

\* What dropping the records of a set does to the dictionary.
LEMMA Dropped ==
    ASSUME TypeOK, NEW S, records' = Without(records, S)
    PROVE  /\ DOMAIN records' = DOMAIN records \ S
           /\ records' \in [DOMAIN records' -> Record]
           /\ \A a \in DOMAIN records' : records'[a] = records[a]
BY DEF TypeOK, Without

\* Returning from a call that is not about to add a record.
LEMMA Returned ==
    ASSUME AInv, NEW t \in Threads, call[t].pc /= "record", Return(t), now' = now
    PROVE  /\ call' \in [Threads -> Calls]
           /\ \A u \in Threads :
                 \/ call'[u] = call[u]
                 \/ /\ call[u].pc /= "record" /\ call'[u].pc /= "record"
                    /\ call'[u].pc /= "idle" => call'[u].tenant \in Tenants
                    /\ call'[u].at <= now'
<1>1. call' \in [Threads -> Calls]
    BY IdleType DEF AInv, TypeOK, Return
<1>2. call'[t].pc = "idle" /\ call'[t].at = 0 /\ \A u \in Threads \ {t} : call'[u] = call[u]
    BY DEF AInv, TypeOK, Return, Idle
<1>3. QED
    BY <1>1, <1>2 DEF AInv, TypeOK

-------------------------------------------------------------------------------
\* The steps that are quiet: entering a call, the purge and its failure, a
\* refused or failed consume, delete, clear and the clock.
LEMMA QuietActions ==
    ASSUME AInv,
           \/ \E t \in Threads : \/ Begin(t) \/ Purge(t) \/ PurgeFails(t)
                                 \/ ConsumeFails(t) \/ Delete(t) \/ DeleteFails(t)
           \/ Clear \/ ClearFails \/ Tick
    PROVE  AInv'
<1> SUFFICES Quiet
    BY QuietStep
<1> USE BoundsAssumption
<1>0. TypeOK
    BY DEF AInv
<1>1. ASSUME NEW t \in Threads, Begin(t) PROVE Quiet
  <2>1. call' \in [Threads -> Calls]
    BY <1>1, <1>0 DEF Begin, TypeOK, Calls, Ops
  <2>2. /\ call[t].pc = "idle" /\ call'[t].pc = "purge"
        /\ call'[t].tenant \in Tenants /\ call'[t].at = now
        /\ \A u \in Threads \ {t} : call'[u] = call[u]
    BY <1>1, <1>0 DEF Begin, TypeOK
  <2>3. QED
    BY <1>1, <1>0, <2>1, <2>2 DEF Begin, TypeOK, Quiet
<1>2. ASSUME NEW t \in Threads, Purge(t) PROVE Quiet
  <2> DEFINE S == ExpiredAt(call[t].at)
  <2>1. /\ DOMAIN records' = DOMAIN records \ S
        /\ records' \in [DOMAIN records' -> Record]
        /\ \A a \in DOMAIN records' : records'[a] = records[a]
    BY <1>2, <1>0, Dropped DEF Purge
  <2>2. /\ call' \in [Threads -> Calls]
        /\ \A u \in Threads :
              \/ call'[u] = call[u]
              \/ /\ call[u].pc /= "record" /\ call'[u].pc /= "record"
                 /\ call'[u].pc /= "idle" => call'[u].tenant \in Tenants
                 /\ call'[u].at <= now'
    <3>1. CASE call[t].valid
      <4>1. call' = [call EXCEPT ![t].pc = "act"]
        BY <1>2, <3>1 DEF Purge
      <4>2. call' \in [Threads -> Calls]
        <5>1. call[t] \in Calls
          BY <1>0 DEF TypeOK
        <5>2. [call[t] EXCEPT !.pc = "act"] \in Calls
          BY <5>1 DEF Calls
        <5>3. call' = [call EXCEPT ![t] = [call[t] EXCEPT !.pc = "act"]]
          BY <4>1
        <5>4. QED
          BY <5>2, <5>3, <1>0 DEF TypeOK
      <4>3. /\ call'[t].pc = "act" /\ call'[t].tenant = call[t].tenant
            /\ call'[t].at = call[t].at /\ \A u \in Threads \ {t} : call'[u] = call[u]
        BY <4>1, <1>0 DEF TypeOK, Calls
      <4>4. call[t].pc = "purge" /\ call[t].tenant \in Tenants /\ call[t].at <= now /\ now' = now
        BY <1>2 DEF Purge, AInv, CallInv
      <4>5. QED
        BY <4>2, <4>3, <4>4
    <3>2. CASE ~call[t].valid
        BY <1>2, <3>2, Returned DEF Purge
    <3>3. QED
        BY <3>1, <3>2
  <2>3. files' = files \ S
    BY <1>2 DEF Purge
  <2>4. QED
    BY <1>2, <1>0, <2>1, <2>2, <2>3 DEF Purge, TypeOK, Quiet
<1>3. ASSUME NEW t \in Threads, PurgeFails(t) PROVE Quiet
  <2>1. PICK D : files' = files \ D /\ records' = Without(records, D)
    BY <1>3 DEF PurgeFails
  <2>2. /\ DOMAIN records' = DOMAIN records \ D
        /\ records' \in [DOMAIN records' -> Record]
        /\ \A a \in DOMAIN records' : records'[a] = records[a]
    BY <2>1, <1>0, Dropped
  <2>3. faults' \in Nat
    BY <1>3, <1>0 DEF PurgeFails, Fault, TypeOK
  <2>4. call[t].pc /= "record" /\ Return(t) /\ now' = now
    BY <1>3 DEF PurgeFails
  <2>5. QED
    BY <1>3, <1>0, <2>1, <2>2, <2>3, <2>4, Returned DEF PurgeFails, TypeOK, Quiet
<1>4. ASSUME NEW t \in Threads, ConsumeFails(t) \/ DeleteFails(t) PROVE Quiet
  <2>1. faults' \in Nat
    BY <1>4, <1>0 DEF ConsumeFails, DeleteFails, Fault, TypeOK
  <2>2. call[t].pc /= "record" /\ Return(t) /\ now' = now
    BY <1>4 DEF ConsumeFails, DeleteFails
  <2>3. QED
    BY <1>4, <1>0, <2>1, <2>2, Returned DEF ConsumeFails, DeleteFails, TypeOK, Quiet
<1>5. ASSUME NEW t \in Threads, Delete(t) PROVE Quiet
  <2>1. /\ DOMAIN records' = DOMAIN records \ {call[t].asset}
        /\ records' \in [DOMAIN records' -> Record]
        /\ \A a \in DOMAIN records' : records'[a] = records[a]
    BY <1>5, <1>0, Dropped DEF Delete
  <2>2. call[t].pc /= "record" /\ Return(t) /\ now' = now
    BY <1>5 DEF Delete
  <2>3. /\ call' \in [Threads -> Calls]
        /\ \A u \in Threads :
              \/ call'[u] = call[u]
              \/ /\ call[u].pc /= "record" /\ call'[u].pc /= "record"
                 /\ call'[u].pc /= "idle" => call'[u].tenant \in Tenants
                 /\ call'[u].at <= now'
    BY <2>2, Returned
  <2>4. /\ files' = files \ {call[t].asset}
        /\ UNCHANGED <<now, issued, owner, delivered, lost, faults>>
    BY <1>5 DEF Delete
  <2>5. now \in Nat /\ faults \in Nat
    BY <1>0 DEF TypeOK
  <2>6. QED
    BY <2>1, <2>3, <2>4, <2>5 DEF Quiet
<1>6. ASSUME Clear PROVE Quiet
  <2>1. /\ DOMAIN records' = DOMAIN records \ DOMAIN records
        /\ records' \in [DOMAIN records' -> Record]
        /\ \A a \in DOMAIN records' : records'[a] = records[a]
    BY <1>6, <1>0, Dropped DEF Clear
  <2>2. QED
    BY <1>6, <1>0, <2>1 DEF Clear, TypeOK, Quiet
<1>7. ASSUME ClearFails PROVE Quiet
    BY <1>7, <1>0 DEF ClearFails, Fault, TypeOK, Quiet
<1>8. ASSUME Tick PROVE Quiet
    BY <1>8, <1>0 DEF Tick, TypeOK, Quiet
<1>9. QED
    BY <1>1, <1>2, <1>3, <1>4, <1>5, <1>6, <1>7, <1>8

-------------------------------------------------------------------------------
\* put writes a file under an identifier nobody has used and remembers it.
LEMMA WriteInv ==
    ASSUME AInv, NEW t \in Threads, Write(t)
    PROVE  AInv'
<1>0. TypeOK
    BY DEF AInv
<1>1. PICK b \in Assets \ issued :
         /\ issued' = issued \cup {b}
         /\ files' = files \cup {b}
         /\ call' = [call EXCEPT ![t] = [@ EXCEPT !.asset = b, !.pc = "record"]]
    BY DEF Write
<1>2. /\ UNCHANGED <<now, records, owner, delivered, lost, faults>>
      /\ call[t].pc = "act"
    BY DEF Write
<1>3. call' \in [Threads -> Calls]
  <2>1. call[t] \in Calls
    BY <1>0 DEF TypeOK
  <2>2. [call[t] EXCEPT !.asset = b, !.pc = "record"] \in Calls
    BY <2>1 DEF Calls
  <2>3. QED
    BY <2>2, <1>0, <1>1 DEF TypeOK
<1>4. /\ call'[t].asset = b /\ call'[t].pc = "record"
      /\ call'[t].tenant = call[t].tenant /\ call'[t].at = call[t].at
      /\ \A u \in Threads \ {t} : call'[u] = call[u]
    BY <1>0, <1>1 DEF TypeOK, Calls
<1>5. TypeOK'
    BY <1>0, <1>1, <1>2, <1>3 DEF TypeOK
<1>6. RecordInv' /\ IssuedInv'
    BY <1>0, <1>1, <1>2 DEF AInv, RecordInv, IssuedInv, TypeOK
<1>7. ASSUME NEW v \in Threads PROVE InFlight(v)'
  <2>1. CASE v = t
    <3>1. b \in issued' /\ b \notin DOMAIN records' /\ \A w \in Tenants : delivered'[b][w] = 0
      BY <1>1, <1>2 DEF AInv, RecordInv, IssuedInv
    <3>2. \A u \in Threads \ {t} : call'[u].pc = "record" => call'[u].asset /= b
      BY <1>1, <1>4 DEF AInv, InFlight
    <3>3. QED
      BY <2>1, <3>1, <3>2, <1>4 DEF InFlight
  <2>2. CASE v /= t
    <3>1. call'[v] = call[v] /\ InFlight(v)
      BY <2>2, <1>4 DEF AInv
    <3>2. call'[v].pc = "record" => call'[v].asset /= b
      BY <3>1, <1>1 DEF InFlight
    <3>3. QED
      BY <2>2, <3>1, <3>2, <1>1, <1>2, <1>4 DEF InFlight
  <2>3. QED
    BY <2>1, <2>2
<1>8. ASSUME NEW v \in Threads PROVE CallInv(v)'
    BY <1>2, <1>4 DEF AInv, CallInv
<1>9. OneShot' /\ DeletedOnceReturned'
  <2>1. \A w \in Tenants : delivered[b][w] = 0
    BY <1>1 DEF AInv, IssuedInv
  <2>2. QED
    BY <2>1, <1>1, <1>2 DEF AInv, OneShot, DeletedOnceReturned
<1>10. EveryFileAccounted'
  <2> SUFFICES ASSUME NEW a \in files' \ lost', a \notin DOMAIN records'
               PROVE \E v \in Threads : call'[v].pc = "record" /\ call'[v].asset = a
    BY DEF EveryFileAccounted
  <2>1. CASE a = b
    BY <2>1, <1>4
  <2>2. CASE a /= b
    <3>1. PICK v \in Threads : call[v].pc = "record" /\ call[v].asset = a
      BY <2>2, <1>1, <1>2 DEF AInv, EveryFileAccounted
    <3>2. QED
      BY <3>1, <1>2, <1>4
  <2>3. QED
    BY <2>1, <2>2
<1>11. QED
    BY <1>5, <1>6, <1>7, <1>8, <1>9, <1>10 DEF AInv

\* A failed put uses up the identifier; a file it leaves behind is lost.
LEMMA WriteFailsInv ==
    ASSUME AInv, NEW t \in Threads, WriteFails(t)
    PROVE  AInv'
<1>0. TypeOK
    BY DEF AInv
<1>1. PICK b \in Assets \ issued :
         /\ issued' = issued \cup {b}
         /\ \/ files' = files /\ lost' = lost
            \/ files' = files \cup {b} /\ lost' = lost \cup {b}
    BY DEF WriteFails
<1>2. /\ UNCHANGED <<now, records, owner, delivered>>
      /\ call[t].pc = "act" /\ Return(t) /\ faults' \in Nat
    BY <1>0 DEF WriteFails, Fault, TypeOK
<1>3. /\ call' \in [Threads -> Calls]
      /\ call'[t].pc = "idle" /\ call'[t].at = 0
      /\ \A u \in Threads \ {t} : call'[u] = call[u]
    BY <1>0, <1>2, IdleType DEF TypeOK, Return, Idle
<1>5. TypeOK'
    BY <1>0, <1>1, <1>2, <1>3 DEF TypeOK
<1>6. RecordInv' /\ IssuedInv'
    BY <1>0, <1>1, <1>2 DEF AInv, RecordInv, IssuedInv, TypeOK
<1>7. ASSUME NEW v \in Threads PROVE InFlight(v)'
    BY <1>0, <1>1, <1>2, <1>3 DEF AInv, InFlight
<1>8. ASSUME NEW v \in Threads PROVE CallInv(v)'
    BY <1>0, <1>2, <1>3 DEF AInv, CallInv, TypeOK
<1>9. OneShot' /\ DeletedOnceReturned'
  <2>1. \A w \in Tenants : delivered[b][w] = 0
    BY <1>1 DEF AInv, IssuedInv
  <2>2. QED
    BY <2>1, <1>1, <1>2 DEF AInv, OneShot, DeletedOnceReturned
<1>10. EveryFileAccounted'
  <2> SUFFICES ASSUME NEW a \in files' \ lost', a \notin DOMAIN records'
               PROVE \E v \in Threads : call'[v].pc = "record" /\ call'[v].asset = a
    BY DEF EveryFileAccounted
  <2>1. PICK v \in Threads : call[v].pc = "record" /\ call[v].asset = a
    BY <1>1, <1>2 DEF AInv, EveryFileAccounted
  <2>2. QED
    BY <2>1, <1>2, <1>3
<1>11. QED
    BY <1>5, <1>6, <1>7, <1>8, <1>9, <1>10 DEF AInv

\* put adds the record of its own, still unused, identifier.
LEMMA AddRecordInv ==
    ASSUME AInv, NEW t \in Threads, AddRecord(t)
    PROVE  AInv'
<1> DEFINE b == call[t].asset
<1>0. TypeOK
    BY DEF AInv
<1>1. /\ b \in Assets /\ b \in issued /\ b \notin DOMAIN records
      /\ \A w \in Tenants : delivered[b][w] = 0
      /\ \A u \in Threads \ {t} : call[u].pc = "record" => call[u].asset /= b
      /\ call[t].tenant \in Tenants
    BY <1>0 DEF AInv, AddRecord, InFlight, CallInv, TypeOK
<1>2. /\ UNCHANGED <<now, files, issued, delivered, lost, faults>>
      /\ call[t].pc = "record" /\ Return(t)
    BY DEF AddRecord
<1>3. /\ call' \in [Threads -> Calls]
      /\ call'[t].pc = "idle" /\ call'[t].at = 0
      /\ \A u \in Threads \ {t} : call'[u] = call[u]
    BY <1>0, <1>2, IdleType DEF TypeOK, Return, Idle
<1>4. /\ DOMAIN records' = DOMAIN records \cup {b}
      /\ records'[b] = [tenant |-> call[t].tenant, expires |-> now + Ttl]
      /\ \A a \in DOMAIN records : records'[a] = records[a]
      /\ records' \in [DOMAIN records' -> Record]
  <2>1. records' = [a \in DOMAIN records \cup {b} |->
                      IF a = b THEN [tenant |-> call[t].tenant, expires |-> now + Ttl]
                               ELSE records[a]]
    BY DEF AddRecord
  <2>2. [tenant |-> call[t].tenant, expires |-> now + Ttl] \in Record
    BY <1>0, <1>1, TtlAssumption DEF TypeOK, Record
  <2>3. QED
    BY <2>1, <2>2, <1>0, <1>1 DEF TypeOK
<1>5. /\ owner' \in [Assets -> Tenants \cup {None}]
      /\ owner'[b] = call[t].tenant
      /\ \A a \in Assets \ {b} : owner'[a] = owner[a]
    BY <1>0, <1>1 DEF AddRecord, TypeOK
<1>6. TypeOK'
    BY <1>0, <1>1, <1>2, <1>3, <1>4, <1>5 DEF TypeOK
<1>7. RecordInv' /\ IssuedInv'
  <2>1. IssuedInv'
    BY <1>2 DEF AInv, IssuedInv
  <2>2. ASSUME NEW a \in DOMAIN records'
        PROVE  a \in issued' /\ owner'[a] = records'[a].tenant
               /\ \A w \in Tenants : delivered'[a][w] = 0
    <3>1. CASE a = b
      BY <3>1, <1>1, <1>2, <1>4, <1>5
    <3>2. CASE a /= b
      BY <3>2, <1>0, <1>2, <1>4, <1>5 DEF AInv, RecordInv, TypeOK
    <3>3. QED
      BY <3>1, <3>2
  <2>3. QED
    BY <2>1, <2>2 DEF RecordInv
<1>8. ASSUME NEW v \in Threads PROVE InFlight(v)'
    BY <1>0, <1>1, <1>2, <1>3, <1>4 DEF AInv, InFlight
<1>9. ASSUME NEW v \in Threads PROVE CallInv(v)'
    BY <1>0, <1>2, <1>3 DEF AInv, CallInv, TypeOK
<1>10. OneShot' /\ DeletedOnceReturned'
    BY <1>0, <1>1, <1>2, <1>4, <1>5 DEF AInv, OneShot, DeletedOnceReturned, TypeOK
<1>11. EveryFileAccounted'
  <2> SUFFICES ASSUME NEW a \in files' \ lost', a \notin DOMAIN records'
               PROVE \E v \in Threads : call'[v].pc = "record" /\ call'[v].asset = a
    BY DEF EveryFileAccounted
  <2>1. PICK v \in Threads : call[v].pc = "record" /\ call[v].asset = a
    BY <1>2, <1>4 DEF AInv, EveryFileAccounted
  <2>2. v /= t
    BY <2>1, <1>4
  <2>3. QED
    BY <2>1, <2>2, <1>3
<1>12. QED
    BY <1>6, <1>7, <1>8, <1>9, <1>10, <1>11 DEF AInv

\* consume deletes the file and the record of an undelivered asset of its own
\* tenant and delivers it.
LEMMA ConsumeInv ==
    ASSUME AInv, NEW t \in Threads, Consume(t)
    PROVE  AInv'
<1> DEFINE b == call[t].asset
           w0 == call[t].tenant
<1>0. TypeOK
    BY DEF AInv
<1>1. /\ b \in DOMAIN records /\ b \in Assets /\ b \in issued
      /\ records[b].tenant = w0 /\ owner[b] = w0 /\ w0 \in Tenants
      /\ \A w \in Tenants : delivered[b][w] = 0
    BY <1>0 DEF AInv, Consume, ConsumeReturns, Available, RecordInv, CallInv, TypeOK
<1>2. /\ UNCHANGED <<now, issued, owner, lost, faults>>
      /\ files' = files \ {b}
      /\ call[t].pc = "act" /\ Return(t)
    BY DEF Consume, ConsumeReturns
<1>3. /\ call' \in [Threads -> Calls]
      /\ call'[t].pc = "idle" /\ call'[t].at = 0
      /\ \A u \in Threads \ {t} : call'[u] = call[u]
    BY <1>0, <1>2, IdleType DEF TypeOK, Return, Idle
<1>4. /\ DOMAIN records' = DOMAIN records \ {b}
      /\ records' \in [DOMAIN records' -> Record]
      /\ \A a \in DOMAIN records' : records'[a] = records[a]
    BY <1>0, Dropped DEF Consume, ConsumeReturns
<1>5. /\ delivered' \in [Assets -> [Tenants -> Nat]]
      /\ \A a \in Assets \ {b} : delivered'[a] = delivered[a]
      /\ delivered'[b][w0] = 1
      /\ \A w \in Tenants \ {w0} : delivered'[b][w] = 0
    BY <1>0, <1>1 DEF Consume, ConsumeReturns, TypeOK
<1>6. TypeOK'
    BY <1>0, <1>2, <1>3, <1>4, <1>5 DEF TypeOK
<1>7. RecordInv' /\ IssuedInv'
    BY <1>0, <1>1, <1>2, <1>4, <1>5 DEF AInv, RecordInv, IssuedInv, TypeOK
<1>8. ASSUME NEW v \in Threads PROVE InFlight(v)'
  <2> SUFFICES ASSUME call'[v].pc = "record" PROVE InFlight(v)'
    BY DEF InFlight
  <2>1. v /= t /\ call'[v] = call[v] /\ InFlight(v)
    BY <1>3 DEF AInv
  <2>2. call[v].asset /= b /\ call[v].asset \in Assets
    BY <2>1, <1>0, <1>1 DEF InFlight, TypeOK
  <2>3. QED
    BY <2>1, <2>2, <1>2, <1>3, <1>4, <1>5 DEF InFlight
<1>9. ASSUME NEW v \in Threads PROVE CallInv(v)'
    BY <1>0, <1>2, <1>3 DEF AInv, CallInv, TypeOK
<1>10. OneShot' /\ DeletedOnceReturned'
  <2> SUFFICES ASSUME NEW a \in Assets, NEW w \in Tenants, delivered'[a][w] > 0
               PROVE /\ delivered'[a][w] = 1 /\ owner'[a] = w
                     /\ a \notin files' /\ a \notin DOMAIN records'
    BY DEF OneShot, DeletedOnceReturned
  <2>1. CASE a = b
    <3>1. w = w0
      BY <2>1, <1>5
    <3>2. QED
      BY <2>1, <3>1, <1>1, <1>2, <1>4, <1>5
  <2>2. CASE a /= b
    BY <2>2, <1>2, <1>4, <1>5 DEF AInv, OneShot, DeletedOnceReturned
  <2>3. QED
    BY <2>1, <2>2
<1>11. EveryFileAccounted'
  <2> SUFFICES ASSUME NEW a \in files' \ lost', a \notin DOMAIN records'
               PROVE \E v \in Threads : call'[v].pc = "record" /\ call'[v].asset = a
    BY DEF EveryFileAccounted
  <2>1. PICK v \in Threads : call[v].pc = "record" /\ call[v].asset = a
    BY <1>2, <1>4 DEF AInv, EveryFileAccounted
  <2>2. QED
    BY <2>1, <1>2, <1>3
<1>12. QED
    BY <1>6, <1>7, <1>8, <1>9, <1>10, <1>11 DEF AInv

\* A crash forgets every record and call; the files it leaves are lost.
LEMMA CrashInv ==
    ASSUME AInv, Crash
    PROVE  AInv'
<1>0. TypeOK
    BY DEF AInv
<1>1. /\ DOMAIN records' = {}
      /\ records' \in [DOMAIN records' -> Record]
    BY <1>0, Dropped DEF Crash
<1>2. /\ call' \in [Threads -> Calls]
      /\ \A u \in Threads : call'[u].pc = "idle" /\ call'[u].at = 0
    BY IdleType DEF Crash, Idle
<1>3. /\ lost' = lost \cup files
      /\ UNCHANGED <<now, files, issued, owner, delivered, faults>>
    BY DEF Crash
<1>4. TypeOK'
    BY <1>0, <1>1, <1>2, <1>3 DEF TypeOK
<1>5. RecordInv' /\ IssuedInv' /\ OneShot' /\ DeletedOnceReturned' /\ EveryFileAccounted'
    BY <1>1, <1>3 DEF AInv, RecordInv, IssuedInv, OneShot, DeletedOnceReturned, EveryFileAccounted
<1>6. \A v \in Threads : InFlight(v)' /\ CallInv(v)'
    BY <1>0, <1>2, <1>3 DEF InFlight, CallInv, TypeOK
<1>7. QED
    BY <1>4, <1>5, <1>6 DEF AInv

-------------------------------------------------------------------------------
\* Every step of the store preserves the invariant.
LEMMA NextInv == AInv /\ [Next]_vars => AInv'
<1> SUFFICES ASSUME AInv, [Next]_vars PROVE AInv'
    OBVIOUS
<1>1. CASE UNCHANGED vars
  <2>1. Quiet
    BY <1>1 DEF AInv, TypeOK, Quiet, vars
  <2>2. QED
    BY <2>1, QuietStep
<1>2. CASE Next
  <2>1. ASSUME NEW t \in Threads, Step(t) PROVE AInv'
    BY <2>1, QuietActions, WriteInv, WriteFailsInv, AddRecordInv, ConsumeInv DEF Step
  <2>2. QED
    BY <1>2, <2>1, QuietActions, CrashInv DEF Next
<1>3. QED
    BY <1>1, <1>2

\* The invariant holds throughout.
LEMMA Invariance == Spec => []AInv
BY InitInv, NextInv, PTL DEF Spec

\* Every state the store reaches is well typed: records always name one of
\* the tenants, whatever fails or crashes.
THEOREM StoreTyped == Spec => []TypeOK
<1>1. AInv => TypeOK
    BY DEF AInv
<1>2. QED
    BY <1>1, Invariance, PTL

\* consume returns the bytes of an asset at most once, and only to the tenant
\* whose put created it.
THEOREM StoreOneShot == Spec => []OneShot
<1>1. AInv => OneShot
    BY DEF AInv
<1>2. QED
    BY <1>1, Invariance, PTL

\* Bytes that were returned are gone: no file and no record is left of them.
THEOREM StoreDeletes == Spec => []DeletedOnceReturned
<1>1. AInv => DeletedOnceReturned
    BY DEF AInv
<1>2. QED
    BY <1>1, Invariance, PTL

\* No file is orphaned except by a crash or a failed clean-up in put.
THEOREM StoreAccounts == Spec => []EveryFileAccounted
<1>1. AInv => EveryFileAccounted
    BY DEF AInv
<1>2. QED
    BY <1>1, Invariance, PTL

-------------------------------------------------------------------------------
\* A step that keeps, of each record, all or nothing and turns no call into
\* one past its purge keeps every call purged.
LEMMA PurgedKept ==
    ASSUME \A t \in Threads : Purged(t),
           /\ DOMAIN records' \subseteq DOMAIN records
           /\ \A a \in DOMAIN records' : records'[a] = records[a]
           /\ \A t \in Threads : call'[t] = call[t] \/ call'[t].pc /= "act"
    PROVE  \A t \in Threads : Purged(t)'
BY DEF Purged

\* Every step keeps every call purged: a purge establishes it with the clock
\* value its call read, and a record added later expires later still.
LEMMA PurgedInv == AInv /\ (\A t \in Threads : Purged(t)) /\ [Next]_vars
                       => (\A t \in Threads : Purged(t)')
<1> SUFFICES ASSUME AInv, \A t \in Threads : Purged(t), [Next]_vars
             PROVE \A t \in Threads : Purged(t)'
    OBVIOUS
<1>0. TypeOK
    BY DEF AInv
<1>1. ASSUME UNCHANGED <<records, call>> PROVE \A t \in Threads : Purged(t)'
    BY <1>1 DEF Purged
<1>2. ASSUME NEW t \in Threads, NEW S, records' = Without(records, S), Return(t)
      PROVE  \A u \in Threads : Purged(u)'
  <2>1. DOMAIN records' \subseteq DOMAIN records /\ \A a \in DOMAIN records' : records'[a] = records[a]
    BY <1>0, <1>2, Dropped
  <2>2. \A u \in Threads : call'[u] = call[u] \/ call'[u].pc /= "act"
    BY <1>0, <1>2 DEF Return, Idle, TypeOK
  <2>3. QED
    BY <2>1, <2>2, PurgedKept
<1>3. ASSUME NEW t \in Threads, records' = records, Return(t)
      PROVE  \A u \in Threads : Purged(u)'
  <2>1. \A u \in Threads : call'[u] = call[u] \/ call'[u].pc /= "act"
    BY <1>0, <1>3 DEF Return, Idle, TypeOK
  <2>2. QED
    BY <2>1, <1>3, PurgedKept
<1>4. ASSUME NEW t \in Threads, Begin(t) PROVE \A u \in Threads : Purged(u)'
  <2>1. \A u \in Threads : call'[u] = call[u] \/ call'[u].pc /= "act"
    BY <1>0, <1>4 DEF Begin, TypeOK
  <2>2. QED
    BY <2>1, <1>4, PurgedKept DEF Begin
<1>5. ASSUME NEW t \in Threads, Purge(t) PROVE \A u \in Threads : Purged(u)'
  <2>1. CASE ~call[t].valid
    BY <2>1, <1>5, <1>2 DEF Purge
  <2>2. CASE call[t].valid
    <3>1. /\ DOMAIN records' = DOMAIN records \ ExpiredAt(call[t].at)
          /\ \A a \in DOMAIN records' : records'[a] = records[a]
      BY <1>0, <1>5, Dropped DEF Purge
    <3>2. call' = [call EXCEPT ![t].pc = "act"]
      BY <1>5, <2>2 DEF Purge
    <3>3. call'[t].at = call[t].at /\ \A u \in Threads \ {t} : call'[u] = call[u]
      BY <3>2, <1>0 DEF TypeOK, Calls
    <3>4. \A a \in DOMAIN records : records[a].expires \in Nat
      BY <1>0 DEF TypeOK, Record
    <3>5. call[t].at \in Nat
      BY <1>0 DEF TypeOK, Calls
    <3>6. \A a \in DOMAIN records' : records'[a].expires > call'[t].at
      BY <3>1, <3>3, <3>4, <3>5 DEF ExpiredAt
    <3>7. QED
      BY <3>1, <3>3, <3>6 DEF Purged
  <2>3. QED
    BY <2>1, <2>2
<1>6. ASSUME NEW t \in Threads, Write(t) PROVE \A u \in Threads : Purged(u)'
  <2>1. PICK b \in Assets : call' = [call EXCEPT ![t] = [@ EXCEPT !.asset = b, !.pc = "record"]]
    BY <1>6 DEF Write
  <2>2. \A u \in Threads : call'[u] = call[u] \/ call'[u].pc /= "act"
    BY <1>0, <2>1 DEF TypeOK, Calls
  <2>3. QED
    BY <2>2, <1>6, PurgedKept DEF Write
<1>7. ASSUME NEW t \in Threads, AddRecord(t) PROVE \A u \in Threads : Purged(u)'
  <2> SUFFICES ASSUME NEW u \in Threads, call'[u].pc = "act", NEW a \in DOMAIN records'
               PROVE records'[a].expires > call'[u].at
    BY DEF Purged
  <2>1. call'[u] = call[u]
    BY <1>0, <1>7 DEF AddRecord, Return, Idle, TypeOK
  <2>2. CASE a = call[t].asset
    <3>1. records'[a].expires = now + Ttl
      BY <2>2, <1>7 DEF AddRecord
    <3>2. call[u].at <= now /\ call[u].at \in Nat /\ now \in Nat
      BY <1>0 DEF AInv, CallInv, TypeOK, Calls
    <3>3. QED
      BY <3>1, <3>2, <2>1, TtlAssumption
  <2>3. CASE a /= call[t].asset
    BY <2>1, <2>3, <1>7 DEF AddRecord, Purged
  <2>4. QED
    BY <2>2, <2>3
<1>8. ASSUME NEW t \in Threads, Step(t) PROVE \A u \in Threads : Purged(u)'
  <2>1. CASE PurgeFails(t)
    <3>1. PICK D : records' = Without(records, D)
      BY <2>1 DEF PurgeFails
    <3>2. QED
      BY <2>1, <3>1, <1>2 DEF PurgeFails
  <2>2. CASE WriteFails(t) \/ ConsumeFails(t) \/ DeleteFails(t)
    BY <2>2, <1>3 DEF WriteFails, ConsumeFails, DeleteFails
  <2>3. CASE Consume(t) \/ Delete(t)
    BY <2>3, <1>2 DEF Consume, ConsumeReturns, Delete
  <2>4. QED
    BY <1>8, <2>1, <2>2, <2>3, <1>4, <1>5, <1>6, <1>7 DEF Step
<1>9. CASE Clear
  <2>1. DOMAIN records' \subseteq DOMAIN records /\ \A a \in DOMAIN records' : records'[a] = records[a]
    BY <1>0, <1>9, Dropped DEF Clear
  <2>2. QED
    BY <2>1, <1>9, PurgedKept DEF Clear
<1>10. CASE Crash
  <2>1. DOMAIN records' = {}
    BY <1>0, <1>10, Dropped DEF Crash
  <2>2. QED
    BY <2>1 DEF Purged
<1>11. CASE ClearFails \/ Tick \/ UNCHANGED vars
    BY <1>11, <1>1 DEF ClearFails, Tick, vars
<1>12. QED
    BY <1>8, <1>9, <1>10, <1>11 DEF Next

\* consume never returns bytes whose lifetime was over when the call began,
\* though it looks at no expiry itself.
THEOREM StoreExpires == Spec => ExpiredNeverDelivered
<1> DEFINE I == AInv /\ \A t \in Threads : Purged(t)
           Late == \A t \in Threads :
                      call[t].pc = "act" /\ call[t].op = "consume" /\ delivered' /= delivered
                         /\ call'[t] /= call[t]
                      => records[call[t].asset].expires > call[t].at
<1>1. Init => I
    BY InitInv DEF Init, Purged, Idle
<1>2. I /\ [Next]_vars => I'
    BY NextInv, PurgedInv
<1>3. I /\ [Next]_vars => [Late]_vars
  <2> SUFFICES ASSUME I, Next, NEW t \in Threads, call[t].pc = "act", call[t].op = "consume",
                      delivered' /= delivered, call'[t] /= call[t]
               PROVE records[call[t].asset].expires > call[t].at
    OBVIOUS
  <2>1. PICK u \in Threads : Consume(u)
    BY DEF Next, Step, Begin, Purge, PurgeFails, Write, WriteFails, AddRecord, ConsumeFails,
           Delete, DeleteFails, Clear, ClearFails, Tick, Crash
  <2>2. u = t
    BY <2>1 DEF Consume, Return, AInv, TypeOK
  <2>3. QED
    BY <2>1, <2>2 DEF Consume, ConsumeReturns, Available, Purged
<1>4. QED
    BY <1>1, <1>2, <1>3, PTL DEF Spec, ExpiredNeverDelivered
===============================================================================
