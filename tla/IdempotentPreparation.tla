------------------------- MODULE IdempotentPreparation -------------------------
(***************************************************************************)
(* The preparation of a request under an idempotency key:                  *)
(* V2PreparationTransaction (media_bridge_gateway/transaction.py) over     *)
(* IdempotencyStore (media_bridge/idempotency.py).                         *)
(*                                                                         *)
(* A call looks the key up, waits for the key's lock, looks it up again    *)
(* and runs the operation (transform, cleanup, receipt) with only the      *)
(* key's lock held.  Entries expire after a time and are trimmed when they *)
(* are too many.                                                           *)
(***************************************************************************)
EXTENDS Naturals, FiniteSets

CONSTANTS Callers,       \* threads that call execute
          IdemKeys,      \* idempotency keys
          Fingerprints,  \* digests of canonical requests
          EntryTtl,      \* seconds that an entry, and a receipt, is good for
          MaxEntries,    \* entries that are kept at most
          MaxClock,      \* bound: seconds on the clock
          MaxCalls,      \* bound: calls in all
          Absent         \* no entry, no holder, no receipt, no result

\* What an operation gives: for which request, in which call, and until when
\* its receipt is good.
Result == [fp : Fingerprints, n : Nat, receipt : Nat \cup {Absent}]
Entry == [fp : Fingerprints, value : Result, expires : Nat]

\* ttl_seconds and max_entries are positive.
ASSUME LimitsAssumption ==
    /\ EntryTtl \in Nat \ {0} /\ MaxEntries \in Nat \ {0}
    /\ MaxClock \in Nat /\ MaxCalls \in Nat
ASSUME AbsentAssumption == Absent \notin Callers \cup Result \cup Entry

VARIABLES
    clock,    \* time.monotonic
    entry,    \* _entries
    holder,   \* _locks: the caller that holds the lock of each key
    call,     \* what each caller is doing
    calls,    \* how many calls there have been
    finished, \* when the last operation of each key was stored
    trimmed,  \* the keys whose entry was trimmed since
    cleaned   \* the calls whose cleanup was verified

idemVars == <<clock, entry, holder, call, calls, finished, trimmed, cleaned>>

\* A call: its key and request, what its operation gave, what it returned.
NoCall == [pc |-> "idle", key |-> Absent, fp |-> Absent, n |-> 0, value |-> Absent, got |-> Absent]

CallType == [pc : {"idle", "wait", "run", "store"}, key : IdemKeys \cup {Absent},
             fp : Fingerprints \cup {Absent}, n : Nat,
             value : Result \cup {Absent}, got : Result \cup {Absent}]

IdemInit ==
    /\ clock = 0
    /\ entry = [k \in IdemKeys |-> Absent]
    /\ holder = [k \in IdemKeys |-> Absent]
    /\ call = [c \in Callers |-> NoCall]
    /\ calls = 0
    /\ finished = [k \in IdemKeys |-> Absent]
    /\ trimmed = {} /\ cleaned = {}

Becomes(c, pc) == call' = [call EXCEPT ![c] = [@ EXCEPT !.pc = pc]]

Returns(c, result) == call' = [call EXCEPT ![c] = [@ EXCEPT !.pc = "idle", !.got = result]]

\* A faulty purge that drops an entry in its last second.
LiveBriefly == [k \in IdemKeys |->
    IF entry[k] # Absent /\ entry[k].expires <= clock + 1 THEN Absent ELSE entry[k]]

\* _purge_locked.
Unexpired == [k \in IdemKeys |->
    IF entry[k] # Absent /\ entry[k].expires <= clock THEN Absent ELSE entry[k]]

Mismatch(e, fp) == e # Absent /\ e.fp # fp

\* run: the first look, which turns a key used for another request away.
Call(c) ==
    /\ call[c].pc = "idle" /\ calls < MaxCalls
    /\ calls' = calls + 1
    /\ \E k \in IdemKeys, fp \in Fingerprints :
         call' = [call EXCEPT ![c] =
                    [NoCall EXCEPT !.pc = IF Mismatch(Unexpired[k], fp) THEN "idle" ELSE "wait",
                                   !.key = k, !.fp = fp, !.n = calls + 1]]
    /\ entry' = Unexpired
    /\ UNCHANGED <<clock, holder, finished, trimmed, cleaned>>

\* A faulty second look that trusts the first one's comparison.
LockTrusting(c) ==
    /\ call[c].pc = "wait" /\ holder[call[c].key] = Absent
    /\ LET k == call[c].key IN
       IF Unexpired[k] # Absent
       THEN Returns(c, Unexpired[k].value) /\ UNCHANGED holder
       ELSE Becomes(c, "run") /\ holder' = [holder EXCEPT ![k] = c]
    /\ entry' = Unexpired
    /\ UNCHANGED <<clock, calls, finished, trimmed, cleaned>>

\* A faulty call that runs without the key's lock.
LockNothing(c) ==
    /\ call[c].pc = "wait"
    /\ LET k == call[c].key IN
       IF Unexpired[k] # Absent
       THEN Becomes(c, "idle") /\ UNCHANGED holder
       ELSE Becomes(c, "run") /\ holder' = [holder EXCEPT ![k] = c]
    /\ entry' = Unexpired
    /\ UNCHANGED <<clock, calls, finished, trimmed, cleaned>>

\* The key's lock is free: the second look.
Lock(c) ==
    /\ call[c].pc = "wait" /\ holder[call[c].key] = Absent
    /\ LET k == call[c].key IN
       IF Unexpired[k] # Absent
       THEN /\ IF Mismatch(Unexpired[k], call[c].fp) THEN Becomes(c, "idle")
               ELSE Returns(c, Unexpired[k].value)
            /\ UNCHANGED holder
       ELSE Becomes(c, "run") /\ holder' = [holder EXCEPT ![k] = c]
    /\ entry' = Unexpired
    /\ UNCHANGED <<clock, calls, finished, trimmed, cleaned>>

\* The operation raises: nothing is stored.
Raises(c) ==
    /\ call[c].pc = "run"
    /\ Becomes(c, "idle")
    /\ holder' = [holder EXCEPT ![call[c].key] = Absent]
    /\ UNCHANGED <<clock, entry, calls, finished, trimmed, cleaned>>

Value(c, ok) == [fp |-> call[c].fp, n |-> call[c].n,
                 receipt |-> IF ok THEN clock + EntryTtl ELSE Absent]

Gives(c, value) == call' = [call EXCEPT ![c] = [@ EXCEPT !.pc = "store", !.value = value]]

\* transform is not PREPARED, or the cleanup of the original media is not
\* verified, or the receipt would outlive the asset: a result without receipt.
Blocks(c) ==
    /\ call[c].pc = "run"
    /\ Gives(c, Value(c, FALSE))
    /\ cleaned' \in {cleaned, cleaned \cup {call[c].n}}
    /\ UNCHANGED <<clock, entry, holder, calls, finished, trimmed>>

\* A faulty operation that signs the receipt before it cleans up.
PreparesFirst(c) ==
    /\ call[c].pc = "run"
    /\ Gives(c, Value(c, TRUE))
    /\ cleaned' \in {cleaned, cleaned \cup {call[c].n}}
    /\ UNCHANGED <<clock, entry, holder, calls, finished, trimmed>>

\* PREPARED, cleaned up, and then a receipt is built.
Prepares(c) ==
    /\ call[c].pc = "run"
    /\ Gives(c, Value(c, TRUE))
    /\ cleaned' = cleaned \cup {call[c].n}
    /\ UNCHANGED <<clock, entry, holder, calls, finished, trimmed>>

\* _trim_locked: an entry that expires first makes room.
Oldest(e, k) == e[k] # Absent /\ \A j \in IdemKeys : e[j] # Absent => e[k].expires <= e[j].expires

\* The entry is stored and the key's lock released.
Store(c) ==
    /\ call[c].pc = "store"
    /\ LET k == call[c].key
           e == [entry EXCEPT ![k] = [fp |-> call[c].fp, value |-> call[c].value,
                                      expires |-> clock + EntryTtl]]
       IN /\ IF Cardinality({j \in IdemKeys : e[j] # Absent}) > MaxEntries
             THEN \E j \in IdemKeys \ {k} :
                    /\ Oldest(e, j)
                    /\ entry' = [e EXCEPT ![j] = Absent]
                    /\ trimmed' = (trimmed \ {k}) \cup {j}
             ELSE entry' = e /\ trimmed' = trimmed \ {k}
          /\ finished' = [finished EXCEPT ![k] = clock]
          /\ holder' = [holder EXCEPT ![k] = Absent]
    /\ Returns(c, call[c].value)
    /\ UNCHANGED <<clock, calls, cleaned>>

Tock == clock < MaxClock /\ clock' = clock + 1
        /\ UNCHANGED <<entry, holder, call, calls, finished, trimmed, cleaned>>

IdemNext == Tock \/ \E c \in Callers :
    Call(c) \/ Lock(c) \/ Raises(c) \/ Blocks(c) \/ Prepares(c) \/ Store(c)

IdemSpec == IdemInit /\ [][IdemNext]_idemVars

-----------------------------------------------------------------------------
(* Properties *)

\* Calls, entries and locks have their types.
IdemTypeOK ==
    /\ clock \in 0..MaxClock /\ calls \in 0..MaxCalls
    /\ holder \in [IdemKeys -> Callers \cup {Absent}]
    /\ entry \in [IdemKeys -> Entry \cup {Absent}]
    /\ call \in [Callers -> CallType]
    /\ finished \in [IdemKeys -> Nat \cup {Absent}] /\ trimmed \subseteq IdemKeys
    /\ Cardinality({k \in IdemKeys : entry[k] # Absent}) <= MaxEntries

\* Two operations of one key never run at the same time.
OneRunPerKey ==
    \A c, d \in Callers :
        c # d /\ {call[c].pc, call[d].pc} \subseteq {"run", "store"} => call[c].key # call[d].key

\* A call never gets the result of another request, not even one that was
\* still running under the same key when the call was let in.
NoForeignResult == \A c \in Callers : call[c].got # Absent => call[c].got.fp = call[c].fp

\* A retry within the time that an entry is kept does not run the operation
\* again, unless the entry had to make room.
RetryIsNotRepeated ==
    [][\A c \in Callers :
          call[c].pc = "wait" /\ call'[c].pc = "run" =>
              LET k == call[c].key IN
              finished[k] = Absent \/ finished[k] + EntryTtl <= clock \/ k \in trimmed]_idemVars

\* A result that carries a receipt comes from an operation whose cleanup of
\* the original media was verified.
ReceiptAfterCleanup ==
    \A c \in Callers :
        call[c].got # Absent /\ call[c].got.receipt # Absent => call[c].got.n \in cleaned

\* What an idempotency key promises (idempotency.py): one run, its own result,
\* no receipt before the cleanup.
IdempotencyHolds == OneRunPerKey /\ NoForeignResult /\ ReceiptAfterCleanup

=============================================================================
