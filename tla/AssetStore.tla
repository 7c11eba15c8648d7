------------------------------ MODULE AssetStore ------------------------------
(***************************************************************************)
(* media_bridge/assets.py: the tenant-scoped, one-shot store of uploaded    *)
(* media.  The bytes live in files under the asset root, the records that   *)
(* name them live only in the memory of the process.                        *)
(*                                                                          *)
(* Every operation first runs purge_expired, then takes the store's lock    *)
(* for its own work.  The clock is read before the lock is taken, and put   *)
(* writes its file before it takes the lock, so another thread, the clock   *)
(* and a crash can come between those steps; each is a step here.           *)
(***************************************************************************)
EXTENDS Integers, FiniteSets

CONSTANTS
    Tenants,    \* tenant identifiers that pass validate_tenant_id
    Assets,     \* the identifiers secrets.token_urlsafe may still produce
    Threads,    \* the threads that call the store
    Ttl,        \* ttl_seconds
    MaxTime,    \* bound on the clock
    MaxFaults,  \* bound on the file system calls that fail
    None        \* no tenant, no asset

ASSUME TtlAssumption == Ttl \in Nat \ {0}
ASSUME BoundsAssumption == MaxTime \in Nat /\ MaxFaults \in Nat
ASSUME NoneAssumption == None \notin Tenants /\ None \notin Assets

VARIABLES
    now,        \* self._clock()
    files,      \* the assets whose file exists under self.root
    records,    \* self._records: asset -> [tenant, expires]
    call,       \* what each thread is doing
    issued,     \* history: identifiers already produced
    owner,      \* history: the tenant whose put returned the identifier
    delivered,  \* history: how often consume returned the bytes to a tenant
    lost,       \* history: files no record of this process will ever name
    faults      \* history: file system calls that have failed

vars == <<now, files, records, call, issued, owner, delivered, lost, faults>>

Ops == {"put", "consume", "delete"}

Idle == [pc |-> "idle", op |-> "none", tenant |-> None, asset |-> None,
         valid |-> TRUE, at |-> 0]

Calls == [pc : {"idle", "purge", "act", "record"},
          op : Ops \cup {"none"}, tenant : Tenants \cup {None},
          asset : Assets \cup {None}, valid : BOOLEAN, at : Nat]

Record == [tenant : Tenants, expires : Nat]

\* The dictionary d without the keys of the set S.
Without(d, S) == [a \in DOMAIN d \ S |-> d[a]]

Init ==
    /\ now = 0
    /\ files = {}
    /\ records = [a \in {} |-> 0]
    /\ call = [t \in Threads |-> Idle]
    /\ issued = {}
    /\ owner = [a \in Assets |-> None]
    /\ delivered = [a \in Assets |-> [w \in Tenants |-> 0]]
    /\ lost = {}
    /\ faults = 0

Return(t) == call' = [call EXCEPT ![t] = Idle]

Fault == faults < MaxFaults /\ faults' = faults + 1

(***************************************************************************)
(* Entry of put, consume and delete up to the clock read of purge_expired.  *)
(* valid is FALSE for arguments the checks after the purge refuse: a        *)
(* malformed tenant, oversized data or an unsafe filename.                  *)
(***************************************************************************)
Begin(t) ==
    /\ call[t].pc = "idle"
    /\ \E op \in Ops, w \in Tenants, ok \in BOOLEAN :
       \E a \in IF op = "put" THEN {None} ELSE issued :
          call' = [call EXCEPT ![t] = [pc |-> "purge", op |-> op, tenant |-> w,
                                       asset |-> a, valid |-> ok, at |-> now]]
    /\ UNCHANGED <<now, files, records, issued, owner, delivered, lost, faults>>

\* A faulty test that lets a record live through its last instant.
ExpiredBefore(at) == {a \in DOMAIN records : records[a].expires < at}

\* Line 155: the records whose lifetime is over at the clock value read.
ExpiredAt(at) == {a \in DOMAIN records : records[a].expires <= at}

\* The deletions of purge_expired all succeed, a missing file being no error,
\* and the caller goes on to its argument checks, which may end the call.
Purge(t) ==
    /\ call[t].pc = "purge"
    /\ files' = files \ ExpiredAt(call[t].at)
    /\ records' = Without(records, ExpiredAt(call[t].at))
    /\ IF call[t].valid THEN call' = [call EXCEPT ![t].pc = "act"] ELSE Return(t)
    /\ UNCHANGED <<now, issued, owner, delivered, lost, faults>>

\* A faulty purge that forgets the record before the deletion is verified.
PurgeForgets(t) ==
    /\ call[t].pc = "purge"
    /\ \E a \in ExpiredAt(call[t].at) : \E D \in SUBSET (ExpiredAt(call[t].at) \ {a}) :
          /\ Fault
          /\ files' = files \ D
          /\ records' = Without(records, D \cup {a})
    /\ Return(t)
    /\ UNCHANGED <<now, issued, owner, delivered, lost>>

\* A deletion raises: the records before it in the dictionary are gone, it
\* and the later ones stay, and the call of whichever tenant fails.
PurgeFails(t) ==
    /\ call[t].pc = "purge"
    /\ \E a \in ExpiredAt(call[t].at) : \E D \in SUBSET (ExpiredAt(call[t].at) \ {a}) :
          /\ Fault
          /\ files' = files \ D
          /\ records' = Without(records, D)
    /\ Return(t)
    /\ UNCHANGED <<now, issued, owner, delivered, lost>>

(***************************************************************************)
(* put: an exclusive file is written first and the record is added under    *)
(* the lock afterwards, with a lifetime that starts then.                   *)
(***************************************************************************)
Write(t) ==
    /\ call[t].pc = "act" /\ call[t].op = "put"
    /\ \E a \in Assets \ issued :
          /\ issued' = issued \cup {a}
          /\ files' = files \cup {a}
          /\ call' = [call EXCEPT ![t] = [@ EXCEPT !.asset = a, !.pc = "record"]]
    /\ UNCHANGED <<now, records, owner, delivered, lost, faults>>

\* The write fails; the handler unlinks the partial file, and when that
\* fails too the file stays without a record.
WriteFails(t) ==
    /\ call[t].pc = "act" /\ call[t].op = "put"
    /\ Fault
    /\ \E a \in Assets \ issued :
          /\ issued' = issued \cup {a}
          /\ \/ files' = files /\ lost' = lost
             \/ files' = files \cup {a} /\ lost' = lost \cup {a}
    /\ Return(t)
    /\ UNCHANGED <<now, records, owner, delivered>>

\* A faulty record that does not keep the tenant.
RecordWithoutTenant(t) ==
    /\ call[t].pc = "record"
    /\ records' = [b \in DOMAIN records \cup {call[t].asset} |->
                     IF b = call[t].asset THEN [tenant |-> None, expires |-> now + Ttl]
                                          ELSE records[b]]
    /\ Return(t)
    /\ UNCHANGED <<now, files, issued, owner, delivered, lost, faults>>

AddRecord(t) ==
    /\ call[t].pc = "record"
    /\ LET a == call[t].asset IN
          /\ records' = [b \in DOMAIN records \cup {a} |->
                            IF b = a THEN [tenant |-> call[t].tenant, expires |-> now + Ttl]
                                     ELSE records[b]]
          /\ owner' = [owner EXCEPT ![a] = call[t].tenant]
    /\ Return(t)
    /\ UNCHANGED <<now, files, issued, delivered, lost, faults>>

\* A faulty lookup that leaves the tenant to the HTTP layer.
AvailableToAnyone(t) == call[t].asset \in DOMAIN records

\* Lines 110 and 136: the record exists and belongs to the caller.
Available(t) ==
    /\ call[t].asset \in DOMAIN records
    /\ records[call[t].asset].tenant = call[t].tenant

\* Two faulty bodies of consume: one deletes nothing, one forgets the record
\* but leaves the file.
ConsumeKeeps(t) ==
    /\ Available(t)
    /\ call[t].asset \in files
    /\ UNCHANGED <<files, records>>
    /\ delivered' = [delivered EXCEPT ![call[t].asset][call[t].tenant] = @ + 1]

ConsumeLeavesFile(t) ==
    /\ Available(t)
    /\ call[t].asset \in files
    /\ files' = files
    /\ records' = Without(records, {call[t].asset})
    /\ delivered' = [delivered EXCEPT ![call[t].asset][call[t].tenant] = @ + 1]

(***************************************************************************)
(* consume: read, delete, verify the deletion, forget the record, return.   *)
(***************************************************************************)
ConsumeReturns(t) ==
    /\ Available(t)
    /\ call[t].asset \in files
    /\ files' = files \ {call[t].asset}
    /\ records' = Without(records, {call[t].asset})
    /\ delivered' = [delivered EXCEPT ![call[t].asset][call[t].tenant] = @ + 1]

Consume(t) ==
    /\ call[t].pc = "act" /\ call[t].op = "consume"
    /\ ConsumeReturns(t)
    /\ Return(t)
    /\ UNCHANGED <<now, issued, owner, lost, faults>>

\* The asset is unavailable, its file is missing, or reading or unlinking
\* it fails: an error is raised and nothing has changed.
ConsumeFails(t) ==
    /\ call[t].pc = "act" /\ call[t].op = "consume"
    /\ IF Available(t) /\ call[t].asset \in files THEN Fault ELSE UNCHANGED faults
    /\ Return(t)
    /\ UNCHANGED <<now, files, records, issued, owner, delivered, lost>>

Delete(t) ==
    /\ call[t].pc = "act" /\ call[t].op = "delete"
    /\ Available(t)
    /\ files' = files \ {call[t].asset}
    /\ records' = Without(records, {call[t].asset})
    /\ Return(t)
    /\ UNCHANGED <<now, issued, owner, delivered, lost, faults>>

\* False for an unavailable asset, an error when the unlink fails.
DeleteFails(t) ==
    /\ call[t].pc = "act" /\ call[t].op = "delete"
    /\ IF Available(t) THEN Fault ELSE UNCHANGED faults
    /\ Return(t)
    /\ UNCHANGED <<now, files, records, issued, owner, delivered, lost>>

(***************************************************************************)
(* clear, called by the lifespan of the application when it shuts down.     *)
(***************************************************************************)
Clear ==
    /\ files' = files \ DOMAIN records
    /\ records' = Without(records, DOMAIN records)
    /\ UNCHANGED <<now, call, issued, owner, delivered, lost, faults>>

\* An unlink raises: the files before it are gone, every record stays.
ClearFails ==
    /\ Fault
    /\ \E a \in DOMAIN records : \E D \in SUBSET (DOMAIN records \ {a}) : files' = files \ D
    /\ UNCHANGED <<now, records, call, issued, owner, delivered, lost>>

Tick ==
    /\ now < MaxTime
    /\ now' = now + 1
    /\ UNCHANGED <<files, records, call, issued, owner, delivered, lost, faults>>

\* The process dies and a new one opens the same root: __init__ starts with
\* no record and does not look at the files that are there.
Crash ==
    /\ call' = [t \in Threads |-> Idle]
    /\ records' = Without(records, DOMAIN records)
    /\ lost' = lost \cup files
    /\ UNCHANGED <<now, files, issued, owner, delivered, faults>>

Step(t) ==
    \/ Begin(t)
    \/ Purge(t) \/ PurgeFails(t)
    \/ Write(t) \/ WriteFails(t) \/ AddRecord(t)
    \/ Consume(t) \/ ConsumeFails(t)
    \/ Delete(t) \/ DeleteFails(t)

Next == (\E t \in Threads : Step(t)) \/ Clear \/ ClearFails \/ Tick \/ Crash

Spec == Init /\ [][Next]_vars

-------------------------------------------------------------------------------
TypeOK ==
    /\ now \in Nat
    /\ files \subseteq Assets
    /\ DOMAIN records \subseteq Assets
    /\ records \in [DOMAIN records -> Record]
    /\ call \in [Threads -> Calls]
    /\ issued \subseteq Assets
    /\ owner \in [Assets -> Tenants \cup {None}]
    /\ delivered \in [Assets -> [Tenants -> Nat]]
    /\ lost \subseteq Assets
    /\ faults \in Nat

\* consume hands out the bytes of an asset at most once, and only to the
\* tenant that uploaded it, whatever the threads' steps interleave with.
OneShot ==
    \A a \in Assets, w \in Tenants :
        delivered[a][w] > 0 => delivered[a][w] = 1 /\ owner[a] = w

\* "Deletes bytes before returning consumption": once bytes were returned,
\* neither the file nor the record exists, now or ever again.
DeletedOnceReturned ==
    \A a \in Assets, w \in Tenants :
        delivered[a][w] > 0 => a \notin files /\ a \notin DOMAIN records

\* A file is always one the store can still delete: a record names it or the
\* put that wrote it is about to add the record.  The exceptions are exactly
\* the files a crash or a failed clean-up of a failed write left behind.
EveryFileAccounted ==
    \A a \in files \ lost :
        \/ a \in DOMAIN records
        \/ \E t \in Threads : call[t].pc = "record" /\ call[t].asset = a

\* No call returns bytes whose lifetime was over when the call began, even
\* though consume itself never looks at expires_at and other threads purge,
\* put and tick between its purge and its lock.
ExpiredNeverDelivered ==
    [][\A t \in Threads :
          call[t].pc = "act" /\ call[t].op = "consume" /\ delivered' /= delivered
             /\ call'[t] /= call[t]
          => records[call[t].asset].expires > call[t].at]_vars

\* What an identifier means to the callers: an asset whose bytes consume has
\* returned is taken, one that a record names is held, and one that had a
\* record before is given up.
PlaceOf(a) ==
    IF \E w \in Tenants : delivered[a][w] > 0 THEN [state |-> "taken", times |-> delivered[a]]
    ELSE IF a \in DOMAIN records THEN [state |-> "held", tenant |-> records[a].tenant]
    ELSE IF owner[a] = None THEN [state |-> "unknown"]
    ELSE [state |-> "given up"]

Place == [a \in Assets |-> PlaceOf(a)]

Promised == INSTANCE AssetPromise WITH place <- Place

\* The store implements AssetPromise: each step of a thread, of the clock or of
\* the file system, and each crash, is one of its steps or changes nothing.
KeepsPromise == Promised!Spec
===============================================================================
