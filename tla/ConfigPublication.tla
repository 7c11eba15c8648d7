-------------------------- MODULE ConfigPublication --------------------------
(***************************************************************************)
(* How a configuration reaches the gateway.  The control plane freezes the  *)
(* database rows in a draft, numbers and signs a snapshot in a transaction  *)
(* (media_bridge_control/snapshots.py), and then, after the transaction and *)
(* its advisory lock have ended, replaces the one snapshot file.  The       *)
(* gateway process (media_bridge_gateway/runtime.py) looks at that file     *)
(* before every request and swaps its generation when it holds a newer      *)
(* version.  Publishers run in the threads of the control plane's pool; the *)
(* only channel between the two processes is the file.                      *)
(*                                                                          *)
(* The body of a snapshot is abstracted to the data-plane credentials that  *)
(* a gateway running it accepts.                                            *)
(***************************************************************************)
EXTENDS Integers, Sequences, FiniteSets

CONSTANTS
    Creds,          \* selectors of client credentials
    Publishers,     \* concurrent publish or rollback requests
    MaxVersions,    \* bound on the snapshots published
    MaxDrafts,      \* bound on the distinct drafts
    MaxRollbacks,   \* bound on rollback requests
    MaxFaults,      \* bound on failed transactions and failed file writes
    MaxReadFaults,  \* bound on the gateway's failed reads and failed builds
    MaxRestarts,    \* bound on the crashes of either process
    None

ASSUME BoundsAssumption ==
    /\ {MaxVersions, MaxDrafts, MaxRollbacks, MaxFaults, MaxReadFaults, MaxRestarts} \subseteq Nat
ASSUME NoneAssumption == None \notin Publishers

VARIABLES
    cred,       \* client_credentials: the state of each credential
    drafts,     \* config_drafts: the bodies frozen so far
    snapshots,  \* snapshots: bodies in version order
    lock,       \* holder of pg_advisory_xact_lock(628194733)
    pub,        \* the publish call each publisher is in
    file,       \* version in the snapshot file, 0 when there is none
    stamp,      \* fingerprint (device, inode, size, mtime) of the file
    gw,         \* the gateway process
    announced,  \* history: highest version a publish call returned
    barred,     \* history: dead credentials a generation in force refused
    spent       \* history: what was used of the bounds

vars == <<cred, drafts, snapshots, lock, pub, file, stamp, gw, announced, barred, spent>>
dbVars == <<cred, drafts, snapshots, lock>>
fileVars == <<file, stamp>>

Bodies == SUBSET Creds
Calls == [pc : {"idle", "lock", "commit", "write"}, body : Bodies, version : Nat]
Gateways == [pc : {"down", "ready", "read", "build"}, version : Nat, seen : Nat, candidate : Nat]
NotPublishing == [pc |-> "idle", body |-> {}, version |-> 0]
Down == [pc |-> "down", version |-> 0, seen |-> 0, candidate |-> 0]

Init ==
    /\ cred = [c \in Creds |-> "absent"]
    /\ drafts = {} /\ snapshots = << >> /\ lock = None
    /\ pub = [p \in Publishers |-> NotPublishing]
    /\ file = 0 /\ stamp = 0
    /\ gw = Down
    /\ announced = 0 /\ barred = {}
    /\ spent = [rollbacks |-> 0, faults |-> 0, reads |-> 0, restarts |-> 0]

Spend(what, max) == spent[what] < max /\ spent' = [spent EXCEPT ![what] = @ + 1]

-------------------------------------------------------------------------------
(* Control plane: credentials and drafts. *)

SetCred(c, from, to) ==
    /\ cred[c] \in from
    /\ cred' = [cred EXCEPT ![c] = to]
    /\ UNCHANGED <<drafts, snapshots, lock, pub, fileVars, gw, announced, barred, spent>>

Issue(c) == SetCred(c, {"absent"}, "active")
Revoke(c) == SetCred(c, {"active"}, "revoked")

\* A faulty deletion that marks the row with a state no reader knows.
DeleteSoftly(c) == SetCred(c, {"active", "revoked"}, "hidden")

Delete(c) == SetCred(c, {"active", "revoked"}, "deleted")

\* The entries of the snapshot body that authenticate would accept.
DataPlaneAuthEntries == {c \in Creds : cred[c] = "active"}

\* create_validated_draft reads every table in one REPEATABLE READ
\* transaction and stores the body; nothing refreshes it afterwards.
CreateValidatedDraft ==
    /\ Cardinality(drafts) < MaxDrafts
    /\ drafts' = drafts \cup {DataPlaneAuthEntries}
    /\ UNCHANGED <<cred, snapshots, lock, pub, fileVars, gw, announced, barred, spent>>

-------------------------------------------------------------------------------
(* Control plane: publishing. *)

Request(p, body) ==
    /\ pub[p].pc = "idle"
    /\ pub' = [pub EXCEPT ![p] = [pc |-> "lock", body |-> body, version |-> 0]]
    /\ UNCHANGED <<dbVars, fileVars, gw, announced, barred>>

\* POST snapshots: any draft may be named, however old.
RequestPublish(p) == UNCHANGED spent /\ \E b \in drafts : Request(p, b)

\* rollback reads the body of an earlier version and publishes it again.
RequestRollback(p) ==
    /\ Spend("rollbacks", MaxRollbacks)
    /\ \E v \in 1 .. Len(snapshots) : Request(p, snapshots[v])

\* A faulty publish that replaces the file inside the transaction.
WriteBeforeCommit(p) ==
    /\ pub[p].pc = "lock" /\ lock = None /\ Len(snapshots) < MaxVersions
    /\ lock' = p
    /\ pub' = [pub EXCEPT ![p] = [@ EXCEPT !.pc = "write", !.version = Len(snapshots) + 1]]
    /\ UNCHANGED <<cred, drafts, snapshots, fileVars, gw, announced, barred, spent>>

\* A faulty publish that does not take the advisory lock.
NumberWithoutLock(p) ==
    /\ pub[p].pc = "lock" /\ Len(snapshots) < MaxVersions
    /\ pub' = [pub EXCEPT ![p] = [@ EXCEPT !.pc = "commit", !.version = Len(snapshots) + 1]]
    /\ UNCHANGED <<dbVars, fileVars, gw, announced, barred, spent>>

\* The transaction: wait for the advisory lock, number and sign the snapshot.
Number(p) ==
    /\ pub[p].pc = "lock" /\ lock = None /\ Len(snapshots) < MaxVersions
    /\ lock' = p
    /\ pub' = [pub EXCEPT ![p] = [@ EXCEPT !.pc = "commit", !.version = Len(snapshots) + 1]]
    /\ UNCHANGED <<cred, drafts, snapshots, fileVars, gw, announced, barred, spent>>

Release(p) == lock' = IF lock = p THEN None ELSE lock

\* The commit inserts the row and releases the lock.  The unique constraint
\* on the version column makes it fail when the number was taken meanwhile.
Commit(p) ==
    /\ pub[p].pc = "commit" /\ pub[p].version = Len(snapshots) + 1
    /\ snapshots' = Append(snapshots, pub[p].body)
    /\ Release(p)
    /\ pub' = [pub EXCEPT ![p].pc = "write"]
    /\ UNCHANGED <<cred, drafts, fileVars, gw, announced, barred, spent>>

\* The transaction is rolled back: a database error, conflicting key metadata.
Abort(p) ==
    /\ pub[p].pc = "commit"
    /\ Spend("faults", MaxFaults)
    /\ Release(p)
    /\ pub' = [pub EXCEPT ![p] = NotPublishing]
    /\ UNCHANGED <<cred, drafts, snapshots, fileVars, gw, announced, barred>>

Replace(p) == file' = pub[p].version /\ stamp' = stamp + 1

\* _atomic_write, after the transaction and without any lock, then return.
AtomicWrite(p) ==
    /\ pub[p].pc = "write"
    /\ Replace(p)
    /\ announced' = IF pub[p].version > announced THEN pub[p].version ELSE announced
    /\ pub' = [pub EXCEPT ![p] = NotPublishing]
    /\ UNCHANGED <<dbVars, gw, barred, spent>>

\* An OSError before os.replace leaves the old file, one in the directory
\* fsync leaves the new one; either way the call fails and the row stays.
AtomicWriteFails(p) ==
    /\ pub[p].pc = "write"
    /\ Spend("faults", MaxFaults)
    /\ Replace(p) \/ UNCHANGED fileVars
    /\ pub' = [pub EXCEPT ![p] = NotPublishing]
    /\ UNCHANGED <<dbVars, gw, announced, barred>>

\* The control process dies: PostgreSQL rolls open transactions back.
ControlCrash ==
    /\ Spend("restarts", MaxRestarts)
    /\ lock' = None
    /\ pub' = [p \in Publishers |-> NotPublishing]
    /\ UNCHANGED <<cred, drafts, snapshots, fileVars, gw, announced, barred>>

-------------------------------------------------------------------------------
(* Gateway: one process; refresh_if_changed runs before every request. *)

\* A generation that takes effect refuses every credential it does not list.
Bars(v) == barred' = barred \cup {c \in Creds \ snapshots[v] : cred[c] \in {"revoked", "deleted"}}

\* build_gateway_process_from_environment loads the file or the process
\* exits; the reloader it creates has seen no fingerprint yet.
GwStart ==
    /\ gw.pc = "down" /\ file /= 0
    /\ gw' = [pc |-> "ready", version |-> file, seen |-> 0, candidate |-> 0]
    /\ Bars(file)
    /\ UNCHANGED <<dbVars, pub, fileVars, announced, spent>>

\* A faulty reloader whose first look only primes the fingerprint.
GwStatPrimes ==
    /\ gw.pc = "ready" /\ gw.seen /= stamp
    /\ gw' = [gw EXCEPT !.seen = stamp, !.pc = IF gw.seen = 0 THEN "ready" ELSE "read"]
    /\ UNCHANGED <<dbVars, pub, fileVars, announced, barred, spent>>

\* The fingerprint is new: it is remembered before the file is read.
GwStat ==
    /\ gw.pc = "ready" /\ gw.seen /= stamp
    /\ gw' = [gw EXCEPT !.pc = "read", !.seen = stamp]
    /\ UNCHANGED <<dbVars, pub, fileVars, announced, barred, spent>>

\* The file may have been replaced again since the stat.
GwRead ==
    /\ gw.pc = "read"
    /\ gw' = [gw EXCEPT !.pc = "build", !.candidate = file]
    /\ UNCHANGED <<dbVars, pub, fileVars, announced, barred, spent>>

\* The read or the build of the generation fails; the reloader swallows the
\* error and keeps the generation it has, and the fingerprint it noted.
GwLoadFails ==
    /\ gw.pc \in {"read", "build"}
    /\ Spend("reads", MaxReadFaults)
    /\ gw' = [gw EXCEPT !.pc = "ready", !.candidate = 0]
    /\ UNCHANGED <<dbVars, pub, fileVars, announced, barred>>

\* A faulty version check.
NewerOrDifferent(candidate) == candidate /= gw.version

\* Lines 209 and 213 of runtime.py.
Newer(candidate) == candidate > gw.version

\* The generation is swapped when the candidate is newer; a stale version
\* raises, which the reloader swallows.
GwSwap ==
    /\ gw.pc = "build"
    /\ IF Newer(gw.candidate)
         THEN /\ gw' = [gw EXCEPT !.pc = "ready", !.version = gw.candidate, !.candidate = 0]
              /\ Bars(gw.candidate)
         ELSE /\ gw' = [gw EXCEPT !.pc = "ready", !.candidate = 0]
              /\ UNCHANGED barred
    /\ UNCHANGED <<dbVars, pub, fileVars, announced, spent>>

GwCrash ==
    /\ gw.pc /= "down"
    /\ Spend("restarts", MaxRestarts)
    /\ gw' = Down
    /\ UNCHANGED <<dbVars, pub, fileVars, announced, barred>>

Credentials == \E c \in Creds : Issue(c) \/ Revoke(c) \/ Delete(c)

Publish(p) ==
    \/ RequestPublish(p) \/ RequestRollback(p)
    \/ Number(p) \/ Commit(p) \/ Abort(p)
    \/ AtomicWrite(p) \/ AtomicWriteFails(p)

Refresh == GwStart \/ GwStat \/ GwRead \/ GwSwap

Next ==
    \/ Credentials \/ CreateValidatedDraft
    \/ \E p \in Publishers : Publish(p)
    \/ ControlCrash
    \/ Refresh \/ GwLoadFails \/ GwCrash

Spec == Init /\ [][Next]_vars

\* Requests keep arriving at a gateway that is restarted when it is down, so
\* its refresh keeps running.  Nothing is assumed of administrators.
FairSpec == Spec /\ WF_vars(Refresh)

-------------------------------------------------------------------------------
TypeOK ==
    /\ cred \in [Creds -> {"absent", "active", "revoked", "deleted"}]
    /\ drafts \subseteq Bodies
    /\ snapshots \in Seq(Bodies)
    /\ lock \in Publishers \cup {None}
    /\ pub \in [Publishers -> Calls]
    /\ file \in Nat /\ stamp \in Nat
    /\ gw \in Gateways
    /\ announced \in Nat
    /\ barred \subseteq Creds
    /\ spent \in [{"rollbacks", "faults", "reads", "restarts"} -> Nat]

\* What the gateway reads was committed: neither the file nor the generation
\* in force ever carries a version the database does not hold, through failed
\* transactions, failed writes and crashes of either process.
OnlyCommittedVisible ==
    /\ file <= Len(snapshots)
    /\ gw.version <= Len(snapshots)
    /\ gw.candidate <= Len(snapshots)

\* A version that was signed but not yet committed is still free, so no
\* publish dies on the unique constraint and no two signatures share a number.
SignedVersionFree ==
    \A p \in Publishers : pub[p].pc = "commit" => pub[p].version = Len(snapshots) + 1

\* A running gateway never returns to an older generation, even when slow
\* publishers replace the file with an older version.
NeverBackwards ==
    [][gw.pc /= "down" /\ gw'.pc /= "down" => gw'.version >= gw.version]_vars

\* A gateway whose reloader has nothing left to look at runs every version a
\* publish call has returned.
PublishedIsUsed ==
    gw.pc = "ready" /\ gw.seen = stamp => gw.version >= announced

\* A version that stays in the file is eventually the generation in force, as
\* long as no read of the file and no build of a generation has failed, since
\* the reloader remembers the fingerprint of a load that failed: concurrent
\* publishers, failed writes and crashes do not keep the gateway from it.
AppliedUnlessReadFails ==
    \A v \in 1 .. MaxVersions :
        (file = v) ~> (gw.version >= v \/ file /= v \/ spent.reads > 0)

\* Once a generation in force has refused a revoked or deleted credential,
\* the gateway does not accept that credential again.
BarredStaysOut ==
    gw.pc = "ready" => barred \cap snapshots[gw.version] = {}
===============================================================================
