------------------------ MODULE ConfigPublicationProofs ------------------------
(***************************************************************************)
(* A gateway only ever sees versions the database holds, no two signatures  *)
(* share a number and a running gateway never goes back, for any number of  *)
(* publishers, credentials, faults and crashes.                             *)
(***************************************************************************)
EXTENDS ConfigPublication, TLAPS

\* A transaction in progress holds the advisory lock and the next number; a
\* call that is about to replace the file has a committed one.
PublishInv(p) ==
    /\ pub[p].pc = "commit" => lock = p /\ pub[p].version = Len(snapshots) + 1
    /\ pub[p].pc = "write" => pub[p].version <= Len(snapshots)

(* The inductive invariant.  OnlyCommittedVisible needs to know that what a  *)
(* publisher will write is committed, which needs the lock's exclusion.      *)
CInv ==
    /\ TypeOK
    /\ \A p \in Publishers : PublishInv(p)
    /\ OnlyCommittedVisible

-------------------------------------------------------------------------------
\* An idle call and a stopped gateway are well typed.
LEMMA Constants == NotPublishing \in Calls /\ Down \in Gateways
BY DEF NotPublishing, Calls, Bodies, Down, Gateways

\* Init establishes the invariant.
LEMMA InitInv == Init => CInv
<1> SUFFICES ASSUME Init PROVE CInv
    OBVIOUS
<1>1. TypeOK
    BY Constants DEF Init, TypeOK, Bodies
<1>2. \A p \in Publishers : PublishInv(p)
    BY DEF Init, PublishInv, NotPublishing
<1>3. OnlyCommittedVisible
    BY DEF Init, OnlyCommittedVisible, Down
<1>4. QED
    BY <1>1, <1>2, <1>3 DEF CInv

\* Spending keeps the counters typed.
LEMMA Spent == ASSUME TypeOK, NEW w \in {"rollbacks", "faults", "reads", "restarts"},
                      NEW m, Spend(w, m)
               PROVE  spent' \in [{"rollbacks", "faults", "reads", "restarts"} -> Nat]
BY DEF TypeOK, Spend

\* A publisher's own step leaves the other publishers' parts of the invariant
\* alone as long as the table does not shrink and the lock is theirs still.
LEMMA Others ==
    ASSUME CInv, NEW p \in Publishers,
           Len(snapshots') \in Nat, Len(snapshots) \in Nat, Len(snapshots') >= Len(snapshots),
           \A q \in Publishers \ {p} : pub'[q] = pub[q],
           \A q \in Publishers \ {p} : lock = q => lock' = q,
           lock = p \/ lock = None \/ snapshots' = snapshots,
           PublishInv(p)'
    PROVE  \A q \in Publishers : PublishInv(q)'
<1> SUFFICES ASSUME NEW q \in Publishers, q /= p PROVE PublishInv(q)'
    OBVIOUS
<1>1. PublishInv(q) /\ pub'[q] = pub[q] /\ pub[q].version \in Nat
    BY DEF CInv, TypeOK, Calls
<1>2. CASE pub[q].pc = "commit"
  <2>1. lock = q /\ lock' = q /\ snapshots' = snapshots
    BY <1>1, <1>2, NoneAssumption DEF PublishInv
  <2>2. QED
    BY <1>1, <1>2, <2>1 DEF PublishInv
<1>3. CASE pub[q].pc = "write"
    BY <1>1, <1>3 DEF PublishInv
<1>4. QED
    BY <1>1, <1>2, <1>3 DEF PublishInv

\* Credentials, drafts and requests change nothing the invariant relates.
LEMMA AdminInv ==
    ASSUME CInv, Credentials \/ CreateValidatedDraft
    PROVE  CInv'
<1>1. TypeOK'
  <2>1. CASE Credentials
    BY <2>1 DEF CInv, TypeOK, Credentials, Issue, Revoke, Delete, SetCred, fileVars
  <2>2. CASE CreateValidatedDraft
    BY <2>2 DEF CInv, TypeOK, CreateValidatedDraft, DataPlaneAuthEntries, Bodies, fileVars
  <2>3. QED
    BY <2>1, <2>2
<1>2. UNCHANGED <<snapshots, lock, pub, file, gw>>
    BY DEF Credentials, Issue, Revoke, Delete, SetCred, CreateValidatedDraft, fileVars
<1>3. QED
    BY <1>1, <1>2 DEF CInv, PublishInv, OnlyCommittedVisible

\* A request fixes a body, a draft's or an earlier snapshot's.
LEMMA RequestInv ==
    ASSUME CInv, NEW p \in Publishers, RequestPublish(p) \/ RequestRollback(p)
    PROVE  CInv'
<1>0. TypeOK
    BY DEF CInv
<1>1. PICK b \in Bodies : Request(p, b)
  <2>1. ASSUME NEW v \in 1 .. Len(snapshots) PROVE snapshots[v] \in Bodies
    BY <1>0 DEF TypeOK
  <2>2. QED
    BY <2>1, <1>0 DEF TypeOK, RequestPublish, RequestRollback
<1>2. spent' \in [{"rollbacks", "faults", "reads", "restarts"} -> Nat]
    BY <1>0, Spent DEF RequestPublish, RequestRollback, TypeOK
<1>3. /\ pub' \in [Publishers -> Calls]
      /\ pub'[p].pc = "lock"
      /\ \A q \in Publishers \ {p} : pub'[q] = pub[q]
    BY <1>0, <1>1 DEF Request, TypeOK, Calls
<1>4. UNCHANGED <<cred, drafts, snapshots, lock, file, stamp, gw, announced, barred>>
    BY <1>1 DEF Request, dbVars, fileVars
<1>5. TypeOK'
    BY <1>0, <1>2, <1>3, <1>4 DEF TypeOK
<1>6. \A q \in Publishers : PublishInv(q)'
    BY <1>3, <1>4 DEF CInv, PublishInv
<1>7. OnlyCommittedVisible'
    BY <1>4 DEF CInv, OnlyCommittedVisible
<1>8. QED
    BY <1>5, <1>6, <1>7 DEF CInv

\* A numbered call is a call.
LEMMA Numbered ==
    ASSUME NEW c \in Calls, NEW n \in Nat
    PROVE  [c EXCEPT !.pc = "commit", !.version = n] \in Calls
BY DEF Calls

\* Numbering takes the free lock and the next number.
LEMMA NumberInv ==
    ASSUME CInv, NEW p \in Publishers, Number(p)
    PROVE  CInv'
<1>0. TypeOK /\ Len(snapshots) \in Nat
    BY DEF CInv, TypeOK
<1>1. pub' \in [Publishers -> Calls]
  <2>1. pub[p] \in Calls
    BY <1>0 DEF TypeOK
  <2>2. [pub[p] EXCEPT !.pc = "commit", !.version = Len(snapshots) + 1] \in Calls
    <3>1. Len(snapshots) + 1 \in Nat
      BY <1>0
    <3>2. QED
      BY <2>1, <3>1, Numbered
  <2>3. QED
    BY <2>2, <1>0 DEF Number, TypeOK
<1>2. /\ pub'[p].pc = "commit" /\ pub'[p].version = Len(snapshots) + 1
      /\ \A q \in Publishers \ {p} : pub'[q] = pub[q]
    BY <1>0 DEF Number, TypeOK, Calls
<1>3. /\ lock = None /\ lock' = p
      /\ UNCHANGED <<cred, drafts, snapshots, file, stamp, gw, announced, barred, spent>>
    BY DEF Number, fileVars
<1>4. TypeOK'
    BY <1>0, <1>1, <1>3 DEF TypeOK
<1>5. \A q \in Publishers : PublishInv(q)'
  <2>1. PublishInv(p)'
    BY <1>2, <1>3 DEF PublishInv
  <2>2. ASSUME NEW q \in Publishers \ {p} PROVE PublishInv(q)'
    BY <1>2, <1>3, NoneAssumption DEF CInv, PublishInv
  <2>3. QED
    BY <2>1, <2>2
<1>6. OnlyCommittedVisible'
    BY <1>3 DEF CInv, OnlyCommittedVisible
<1>7. QED
    BY <1>4, <1>5, <1>6 DEF CInv

\* A commit makes the number it signed the last one of the table.
LEMMA CommitInv ==
    ASSUME CInv, NEW p \in Publishers, Commit(p)
    PROVE  CInv'
<1>0. TypeOK /\ Len(snapshots) \in Nat
    BY DEF CInv, TypeOK
<1>1. pub[p].body \in Bodies
    BY <1>0 DEF TypeOK, Calls
<1>2. snapshots' \in Seq(Bodies) /\ Len(snapshots') = Len(snapshots) + 1
    BY <1>0, <1>1 DEF Commit, TypeOK
<1>3. /\ pub' \in [Publishers -> Calls]
      /\ pub'[p].pc = "write" /\ pub'[p].version = Len(snapshots) + 1
      /\ \A q \in Publishers \ {p} : pub'[q] = pub[q]
    BY <1>0 DEF Commit, TypeOK, Calls
<1>4. /\ lock = p /\ lock' = None
      /\ UNCHANGED <<cred, drafts, file, stamp, gw, announced, barred, spent>>
    BY DEF CInv, PublishInv, Commit, Release, fileVars
<1>5. TypeOK'
    BY <1>0, <1>2, <1>3, <1>4 DEF TypeOK
<1>6. PublishInv(p)'
    BY <1>2, <1>3, <1>0 DEF PublishInv
<1>7. \A q \in Publishers : PublishInv(q)'
    BY <1>0, <1>2, <1>3, <1>4, <1>6, Others
<1>8. OnlyCommittedVisible'
    BY <1>0, <1>2, <1>4 DEF CInv, OnlyCommittedVisible, TypeOK, Gateways
<1>9. QED
    BY <1>5, <1>7, <1>8 DEF CInv

\* A rolled back transaction releases the lock and leaves no number behind.
LEMMA AbortInv ==
    ASSUME CInv, NEW p \in Publishers, Abort(p)
    PROVE  CInv'
<1>0. TypeOK /\ Len(snapshots) \in Nat
    BY DEF CInv, TypeOK
<1>1. spent' \in [{"rollbacks", "faults", "reads", "restarts"} -> Nat]
    BY <1>0, Spent DEF Abort
<1>2. /\ pub' \in [Publishers -> Calls] /\ pub'[p] = NotPublishing
      /\ \A q \in Publishers \ {p} : pub'[q] = pub[q]
    BY <1>0, Constants DEF Abort, TypeOK
<1>3. /\ lock = p /\ lock' = None
      /\ UNCHANGED <<cred, drafts, snapshots, file, stamp, gw, announced, barred>>
    BY DEF CInv, PublishInv, Abort, Release, fileVars
<1>4. TypeOK'
    BY <1>0, <1>1, <1>2, <1>3 DEF TypeOK
<1>5. PublishInv(p)'
    BY <1>2 DEF PublishInv, NotPublishing
<1>6. \A q \in Publishers : PublishInv(q)'
    BY <1>0, <1>2, <1>3, <1>5, Others
<1>7. OnlyCommittedVisible'
    BY <1>3 DEF CInv, OnlyCommittedVisible
<1>8. QED
    BY <1>4, <1>6, <1>7 DEF CInv

\* What reaches the file, in a write that returns or one that fails, is a
\* committed version.
LEMMA FileInv ==
    ASSUME CInv, NEW p \in Publishers, AtomicWrite(p) \/ AtomicWriteFails(p)
    PROVE  CInv'
<1>0. TypeOK /\ Len(snapshots) \in Nat
    BY DEF CInv, TypeOK
<1>1. spent' \in [{"rollbacks", "faults", "reads", "restarts"} -> Nat]
    BY <1>0, Spent DEF AtomicWrite, AtomicWriteFails, TypeOK
<1>2. /\ pub' \in [Publishers -> Calls] /\ pub'[p] = NotPublishing
      /\ \A q \in Publishers \ {p} : pub'[q] = pub[q]
    BY <1>0, Constants DEF AtomicWrite, AtomicWriteFails, TypeOK
<1>3. UNCHANGED <<cred, drafts, snapshots, lock, gw, barred>>
    BY DEF AtomicWrite, AtomicWriteFails, dbVars
<1>4. pub[p].version \in Nat /\ pub[p].version <= Len(snapshots)
    BY <1>0 DEF CInv, PublishInv, AtomicWrite, AtomicWriteFails, TypeOK, Calls
<1>5. \/ file' = pub[p].version /\ stamp' = stamp + 1
      \/ file' = file /\ stamp' = stamp
    BY DEF AtomicWrite, AtomicWriteFails, Replace, fileVars
<1>6. announced' \in Nat
    BY <1>0, <1>4 DEF AtomicWrite, AtomicWriteFails, TypeOK
<1>7. TypeOK'
  <2>1. file' \in Nat /\ stamp' \in Nat
    BY <1>0, <1>4, <1>5 DEF TypeOK
  <2>2. QED
    BY <1>0, <1>1, <1>2, <1>3, <1>6, <2>1 DEF TypeOK
<1>8. PublishInv(p)'
    BY <1>2 DEF PublishInv, NotPublishing
<1>9. \A q \in Publishers : PublishInv(q)'
    BY <1>0, <1>2, <1>3, <1>8, Others
<1>10. OnlyCommittedVisible'
    BY <1>3, <1>4, <1>5 DEF CInv, OnlyCommittedVisible
<1>11. QED
    BY <1>7, <1>9, <1>10 DEF CInv

\* A crash of the control plane ends every call.
LEMMA ControlCrashInv ==
    ASSUME CInv, ControlCrash
    PROVE  CInv'
<1>0. TypeOK
    BY DEF CInv
<1>1. spent' \in [{"rollbacks", "faults", "reads", "restarts"} -> Nat]
    BY <1>0, Spent DEF ControlCrash
<1>2. /\ pub' \in [Publishers -> Calls] /\ lock' = None
      /\ \A q \in Publishers : pub'[q] = NotPublishing
    BY Constants DEF ControlCrash
<1>3. UNCHANGED <<cred, drafts, snapshots, file, stamp, gw, announced, barred>>
    BY DEF ControlCrash, fileVars
<1>4. TypeOK'
    BY <1>0, <1>1, <1>2, <1>3 DEF TypeOK
<1>5. \A q \in Publishers : PublishInv(q)'
    BY <1>2 DEF PublishInv, NotPublishing
<1>6. QED
    BY <1>3, <1>4, <1>5 DEF CInv, OnlyCommittedVisible

\* A failed load leaves the generation in force.
LEMMA LoadFailed ==
    ASSUME gw \in Gateways, GwLoadFails
    PROVE  gw' \in Gateways /\ gw'.version = gw.version /\ gw'.candidate = 0
<1>1. gw' = [gw EXCEPT !.pc = "ready", !.candidate = 0]
    BY DEF GwLoadFails
<1>2. gw' = [pc |-> "ready", version |-> gw.version, seen |-> gw.seen, candidate |-> 0]
    BY <1>1 DEF Gateways
<1>3. QED
    BY <1>2 DEF Gateways

\* A finished load leaves the generation in force or replaces it by a newer one.
LEMMA Swapped ==
    ASSUME gw \in Gateways, GwSwap
    PROVE  /\ gw' \in Gateways /\ gw'.candidate = 0
           /\ gw'.version = gw.version \/ (gw'.version = gw.candidate /\ gw.candidate > gw.version)
<1>1. CASE Newer(gw.candidate)
  <2>1. gw' = [gw EXCEPT !.pc = "ready", !.version = gw.candidate, !.candidate = 0]
    BY <1>1 DEF GwSwap
  <2>2. gw' = [pc |-> "ready", version |-> gw.candidate, seen |-> gw.seen, candidate |-> 0]
    BY <2>1 DEF Gateways
  <2>3. QED
    BY <1>1, <2>2 DEF Newer, Gateways
<1>2. CASE ~Newer(gw.candidate)
  <2>1. gw' = [gw EXCEPT !.pc = "ready", !.candidate = 0]
    BY <1>2 DEF GwSwap
  <2>2. gw' = [pc |-> "ready", version |-> gw.version, seen |-> gw.seen, candidate |-> 0]
    BY <2>1 DEF Gateways
  <2>3. QED
    BY <2>2 DEF Gateways
<1>3. QED
    BY <1>1, <1>2

\* The gateway only moves versions it found in the file.
LEMMA GatewayInv ==
    ASSUME CInv, Refresh \/ GwLoadFails \/ GwCrash
    PROVE  CInv'
<1>0. TypeOK
    BY DEF CInv
<1>1. UNCHANGED <<cred, drafts, snapshots, lock, pub, file, stamp, announced>>
    BY DEF Refresh, GwStart, GwStat, GwRead, GwSwap, GwLoadFails, GwCrash, dbVars, fileVars
<1>2. spent' \in [{"rollbacks", "faults", "reads", "restarts"} -> Nat]
    BY <1>0, Spent DEF Refresh, GwStart, GwStat, GwRead, GwSwap, GwLoadFails, GwCrash, TypeOK
<1>3. barred' \subseteq Creds
    BY <1>0 DEF Refresh, GwStart, GwStat, GwRead, GwSwap, GwLoadFails, GwCrash, TypeOK, Bars
<1>4. gw' \in Gateways /\ gw'.version <= Len(snapshots) /\ gw'.candidate <= Len(snapshots)
  <2>0. /\ gw \in Gateways /\ file \in Nat /\ stamp \in Nat /\ Len(snapshots) \in Nat
        /\ file <= Len(snapshots) /\ gw.version <= Len(snapshots)
        /\ gw.candidate <= Len(snapshots)
    BY <1>0 DEF CInv, TypeOK, OnlyCommittedVisible
  <2>1. CASE GwStart
    BY <2>0, <2>1 DEF GwStart, Gateways
  <2>2. CASE GwStat
    BY <2>0, <2>2 DEF GwStat, Gateways
  <2>3. CASE GwRead
    BY <2>0, <2>3 DEF GwRead, Gateways
  <2>4. CASE GwSwap
    BY <2>0, <2>4, Swapped
  <2>5. CASE GwLoadFails
    BY <2>0, <2>5, LoadFailed
  <2>6. CASE GwCrash
    BY <2>0, <2>6 DEF GwCrash, Down, Gateways
  <2>7. QED
    BY <2>1, <2>2, <2>3, <2>4, <2>5, <2>6 DEF Refresh
<1>5. TypeOK'
    BY <1>0, <1>1, <1>2, <1>3, <1>4 DEF TypeOK
<1>6. OnlyCommittedVisible' /\ \A q \in Publishers : PublishInv(q)'
    BY <1>1, <1>4 DEF CInv, OnlyCommittedVisible, PublishInv
<1>7. QED
    BY <1>5, <1>6 DEF CInv

-------------------------------------------------------------------------------
\* Every step preserves the invariant.
LEMMA NextInv == CInv /\ [Next]_vars => CInv'
<1> SUFFICES ASSUME CInv, [Next]_vars PROVE CInv'
    OBVIOUS
<1>1. CASE UNCHANGED vars
    BY <1>1 DEF CInv, TypeOK, PublishInv, OnlyCommittedVisible, vars
<1>2. CASE Credentials \/ CreateValidatedDraft
    BY <1>2, AdminInv
<1>3. ASSUME NEW p \in Publishers, Publish(p) PROVE CInv'
    BY <1>3, RequestInv, NumberInv, CommitInv, AbortInv, FileInv DEF Publish
<1>4. QED
    BY <1>1, <1>2, <1>3, ControlCrashInv, GatewayInv DEF Next

\* The invariant holds throughout.
LEMMA Invariance == Spec => []CInv
BY InitInv, NextInv, PTL DEF Spec

\* Every state of the publication path is well typed: in particular a frozen
\* draft and a snapshot carry accepted credentials, never credential rows.
THEOREM PublicationTyped == Spec => []TypeOK
<1>1. CInv => TypeOK
    BY DEF CInv
<1>2. QED
    BY <1>1, Invariance, PTL

\* Neither the file nor the gateway ever carries a version that the database
\* does not hold, whatever fails or crashes.
THEOREM PublicationCommitted == Spec => []OnlyCommittedVisible
<1>1. CInv => OnlyCommittedVisible
    BY DEF CInv
<1>2. QED
    BY <1>1, Invariance, PTL

\* A signed version stays free until its own commit: the advisory lock makes
\* numbering and inserting one step for the other publishers.
THEOREM PublicationNumbers == Spec => []SignedVersionFree
<1>1. CInv => SignedVersionFree
    BY DEF CInv, PublishInv, SignedVersionFree
<1>2. QED
    BY <1>1, Invariance, PTL

\* A running gateway never returns to an older generation.
THEOREM PublicationForward == Spec => NeverBackwards
<1> DEFINE Forward == gw.pc /= "down" /\ gw'.pc /= "down" => gw'.version >= gw.version
<1>1. CInv /\ [Next]_vars => [Forward]_vars
  <2> SUFFICES ASSUME CInv, Next, gw.pc /= "down", gw'.pc /= "down"
               PROVE gw'.version >= gw.version
    OBVIOUS
  <2>1. gw \in Gateways /\ gw.version \in Nat /\ gw.candidate \in Nat
    BY DEF CInv, TypeOK, Gateways
  <2>2. CASE gw' = gw
    BY <2>1, <2>2
  <2>3. CASE GwStat \/ GwRead
    <3>1. CASE GwStat
      BY <2>1, <3>1 DEF GwStat, Gateways
    <3>2. CASE GwRead
      BY <2>1, <3>2 DEF GwRead, Gateways
    <3>3. QED
      BY <2>3, <3>1, <3>2
  <2>4. CASE GwSwap \/ GwLoadFails
    BY <2>1, <2>4, Swapped, LoadFailed
  <2>5. CASE GwStart \/ GwCrash
    BY <2>5 DEF GwStart, GwCrash, Down
  <2>6. QED
    BY <2>2, <2>3, <2>4, <2>5 DEF Next, Credentials, Issue, Revoke, Delete, SetCred,
       CreateValidatedDraft, Publish, RequestPublish, RequestRollback, Request, Number,
       Commit, Abort, AtomicWrite, AtomicWriteFails, ControlCrash, Refresh
<1>2. QED
    BY <1>1, Invariance, PTL DEF Spec, NeverBackwards
===============================================================================
