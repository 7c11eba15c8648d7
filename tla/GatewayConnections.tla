-------------------------- MODULE GatewayConnections --------------------------
(***************************************************************************)
(* The operations of the control plane on gateway connections and client   *)
(* credentials, and the test lab: connections.py, credentials.py, audit.py,*)
(* test_lab.py and gateway_client.py behind the routes of api.py.          *)
(*                                                                         *)
(* A request is a task of its own.  A transaction reads a row and writes   *)
(* the columns it changed when it is flushed (the default isolation: other *)
(* transactions commit in between); the audit event is written by a second *)
(* transaction, and then the answer is sent.  The process may stop between *)
(* any two of these steps.                                                 *)
(***************************************************************************)
EXTENDS Naturals, FiniteSets

CONSTANTS Tasks,        \* requests that are handled at the same time
          Connections,  \* connection ids
          MaxRequests,  \* bound: requests in all
          MaxRuns,      \* bound: only the first so many may be of the test lab
          NoRow         \* no row

ConnectionRow == [enabled : BOOLEAN, status : {"untested", "ready", "failed", "revoked"},
                  revoked : BOOLEAN]

ASSUME RunsAssumption == MaxRequests \in Nat /\ MaxRuns \in 0 .. MaxRequests
ASSUME NoRowAssumption == NoRow \notin ConnectionRow

VARIABLES
    conn,      \* table connections
    cred,      \* table client_credentials: "none", "issued", "revoked"
    work,      \* what each task is doing
    requests,  \* how many requests there have been
    done,      \* the requests whose change is committed
    audit,     \* table audit_events: the requests whose success it records
    answered,  \* the requests answered with a success, and what they were
    remote     \* the assets of the test lab that a gateway holds

connectionVars == <<conn, cred, work, requests, done, audit, answered, remote>>

Waiting == [pc |-> "idle", n |-> 0, kind |-> "none", k |-> NoRow, asset |-> FALSE,
            read |-> NoRow, row |-> NoRow]

ConnectionInit ==
    /\ conn = [k \in Connections |-> NoRow]
    /\ cred = "none"
    /\ work = [t \in Tasks |-> Waiting]
    /\ requests = 0
    /\ done = {} /\ audit = {} /\ answered = {} /\ remote = {}

Goes(t, op) == work' = [work EXCEPT ![t] = op]

\* A request that authorize let in (and, for tests and the lab, the rate
\* limiter) takes the next number.
Takes(t, what) ==
    /\ work[t].pc = "idle" /\ requests < MaxRequests
    /\ requests' = requests + 1
    /\ Goes(t, [what EXCEPT !.n = requests'])

Moves(t, pc) == Goes(t, [work[t] EXCEPT !.pc = pc])

-----------------------------------------------------------------------------
(* Connections *)

\* ConnectionService.create: a name that is taken is a conflict.
Create(t) ==
    \E k \in Connections, enabled \in BOOLEAN :
        /\ conn[k] = NoRow
        /\ Takes(t, [Waiting EXCEPT !.pc = "audit", !.kind = "created", !.k = k])
        /\ conn' = [conn EXCEPT ![k] =
                      [enabled |-> enabled, status |-> "untested", revoked |-> FALSE]]
        /\ done' = done \cup {requests'}
        /\ UNCHANGED <<cred, audit, answered, remote>>

Plans(t, kind, k, row) ==
    Takes(t, [Waiting EXCEPT !.pc = "write", !.kind = kind, !.k = k, !.read = conn[k], !.row = row])

\* update, revoke: the row is read.  A revoked connection is not updated.
Reads(t) ==
    \E k \in Connections :
        /\ conn[k] # NoRow
        /\ \/ \E enabled \in BOOLEAN :
                /\ ~conn[k].revoked
                /\ Plans(t, "updated", k,
                         [conn[k] EXCEPT !.enabled = enabled, !.status = "untested"])
           \/ Plans(t, "revoked", k, [enabled |-> FALSE, status |-> "revoked", revoked |-> TRUE])
        /\ UNCHANGED <<conn, cred, done, audit, answered, remote>>

\* A faulty session that writes the whole row back.
FlushedWhole(current, read, row) == row

\* session.flush: the columns that differ from what was read are written.
Flushed(current, read, row) ==
    [c \in DOMAIN current |-> IF row[c] # read[c] THEN row[c] ELSE current[c]]

\* A faulty route that writes its audit event before the change.
CommitsAfterAudit(t) ==
    /\ work[t].pc = "write"
    /\ audit' = audit \cup {work[t].n}
    /\ Moves(t, "audit")
    /\ UNCHANGED <<conn, cred, requests, done, answered, remote>>

\* The transaction of update, revoke or record_test_result commits.
Commits(t) ==
    /\ work[t].pc = "write"
    /\ LET k == work[t].k IN
       conn' = [conn EXCEPT ![k] = Flushed(conn[k], work[t].read, work[t].row)]
    /\ done' = done \cup {work[t].n}
    /\ Moves(t, "audit")
    /\ UNCHANGED <<cred, requests, audit, answered, remote>>

\* A faulty test that takes an enabled connection for a usable one.
TestReadsEnabled(t) ==
    \E k \in Connections :
        /\ conn[k] # NoRow /\ conn[k].enabled
        /\ Takes(t, [Waiting EXCEPT !.pc = "call", !.kind = "tested", !.k = k])
        /\ UNCHANGED <<conn, cred, done, audit, answered, remote>>

\* connection_test: runtime() reads the connection, which must be usable.
TestReads(t) ==
    \E k \in Connections :
        /\ conn[k] # NoRow /\ conn[k].enabled /\ ~conn[k].revoked
        /\ Takes(t, [Waiting EXCEPT !.pc = "call", !.kind = "tested", !.k = k])
        /\ UNCHANGED <<conn, cred, done, audit, answered, remote>>

\* A faulty result that stores the gateway's error code as the status.
TestEndsWithCode(t) ==
    /\ work[t].pc = "call"
    /\ LET row == conn[work[t].k] IN
       Goes(t, [work[t] EXCEPT !.pc = "write", !.read = row,
                               !.row = [row EXCEPT !.status = "gateway_unavailable"]])
    /\ UNCHANGED <<conn, cred, requests, done, audit, answered, remote>>

\* gateway.status answers, or it or the secret fails; record_test_result reads
\* the row and refuses a connection revoked meanwhile.
TestEnds(t) ==
    /\ work[t].pc = "call"
    /\ LET row == conn[work[t].k] IN
       \/ ~row.revoked /\ \E status \in {"ready", "failed"} :
            Goes(t, [work[t] EXCEPT !.pc = "write", !.read = row,
                                    !.row = [row EXCEPT !.status = status]])
       \/ row.revoked /\ Goes(t, Waiting)
    /\ UNCHANGED <<conn, cred, requests, done, audit, answered, remote>>

-----------------------------------------------------------------------------
(* Client credentials: the rows are read FOR UPDATE *)

\* CredentialService.issue.
Issue == cred = "none" /\ cred' = "issued"

\* revoke (again, too) and delete.
Retire == cred # "none" /\ cred' \in {"revoked", "none"}

\* The routes around them.
Credential(t) ==
    /\ Issue \/ Retire
    /\ Takes(t, [Waiting EXCEPT !.pc = "audit", !.kind = "credential", !.k = cred'])
    /\ done' = done \cup {requests'}
    /\ UNCHANGED <<conn, audit, answered, remote>>

-----------------------------------------------------------------------------
(* Test lab *)

\* preview: no gateway is involved.
Preview(t) ==
    /\ requests < MaxRuns /\ Takes(t, [Waiting EXCEPT !.pc = "lab", !.kind = "lab"])
    /\ UNCHANGED <<conn, cred, done, audit, answered, remote>>

\* The providers of the routing profile are called, the analysis provider and
\* then the LLM: one of them, its key or its answer may be missing.
PreviewEnds(t) ==
    /\ work[t].pc = "lab" /\ ~work[t].asset
    /\ Moves(t, "failed") \/ Moves(t, "audit")
    /\ done' = done \cup {work[t].n}
    /\ UNCHANGED <<conn, cred, requests, audit, answered, remote>>

\* run: upload.  Its answer may be lost: then the asset is not known here.
Upload(t) ==
    /\ requests < MaxRuns /\ Takes(t, [Waiting EXCEPT !.pc = "lab", !.kind = "lab", !.asset = TRUE])
    /\ remote' = remote \cup {requests'}
    /\ UNCHANGED <<conn, cred, done, audit, answered>>

UploadLost(t) ==
    /\ requests < MaxRuns /\ work[t].pc = "idle"
    /\ requests' = requests + 1
    /\ remote' \in {remote, remote \cup {requests'}}
    /\ UNCHANGED <<conn, cred, work, done, audit, answered>>

\* responses: whether it fails or not, the gateway may have used up the asset.
Respond(t) ==
    /\ work[t].pc = "lab" /\ work[t].asset
    /\ remote' \in {remote, remote \ {work[t].n}}
    /\ Moves(t, "clean, failed") \/ Moves(t, "clean")
    /\ done' = done \cup {work[t].n}
    /\ UNCHANGED <<conn, cred, requests, audit, answered>>

\* A faulty cleanup whose failure is not reported.
CleanUpSilently(t) ==
    /\ work[t].pc \in {"clean", "clean, failed"}
    /\ remote' \in {remote, remote \ {work[t].n}}
    /\ Moves(t, IF work[t].pc = "clean" THEN "audit" ELSE "failed")
    /\ UNCHANGED <<conn, cred, requests, done, audit, answered>>

\* run's finally: the asset is deleted; a failure of it is the run's error.
CleanUp(t) ==
    /\ work[t].pc \in {"clean", "clean, failed"}
    /\ \/ /\ remote' = remote \ {work[t].n}
          /\ Moves(t, IF work[t].pc = "clean" THEN "audit" ELSE "failed")
       \/ /\ remote' \in {remote, remote \ {work[t].n}}
          /\ Moves(t, "failed")
    /\ UNCHANGED <<conn, cred, requests, done, audit, answered>>

-----------------------------------------------------------------------------
(* Ends of requests *)

\* audit.write, then the answer.
Audits(t) ==
    /\ work[t].pc = "audit"
    /\ audit' = audit \cup {work[t].n}
    /\ Moves(t, "answer")
    /\ UNCHANGED <<conn, cred, requests, done, answered, remote>>

\* A faulty route that answers while its audit event is still to be written.
AnswersEarly(t) ==
    /\ work[t].pc \in {"audit", "answer"}
    /\ answered' = answered \cup {[n |-> work[t].n, kind |-> work[t].kind, k |-> work[t].k]}
    /\ Goes(t, Waiting)
    /\ UNCHANGED <<conn, cred, requests, done, audit, remote>>

Answers(t) ==
    /\ work[t].pc = "answer"
    /\ answered' = answered \cup {[n |-> work[t].n, kind |-> work[t].kind, k |-> work[t].k]}
    /\ Goes(t, Waiting)
    /\ UNCHANGED <<conn, cred, requests, done, audit, remote>>

\* An error answer: a refused request, a database error, a failed lab call.
Fails(t) ==
    /\ work[t].pc \in {"failed", "audit", "write"}
    /\ Goes(t, Waiting)
    /\ UNCHANGED <<conn, cred, requests, done, audit, answered, remote>>

\* The process stops and is started again; what was committed stays.
Crash ==
    /\ \E t \in Tasks : work[t].pc # "idle"
    /\ work' = [t \in Tasks |-> Waiting]
    /\ UNCHANGED <<conn, cred, requests, done, audit, answered, remote>>

\* The gateway purges an asset that expired.
Expire ==
    /\ \E n \in remote : remote' = remote \ {n}
    /\ UNCHANGED <<conn, cred, work, requests, done, audit, answered>>

ConnectionNext ==
    \/ \E t \in Tasks :
         \/ Create(t) \/ Reads(t) \/ Commits(t) \/ TestReads(t) \/ TestEnds(t)
         \/ Credential(t) \/ Preview(t) \/ PreviewEnds(t) \/ Upload(t) \/ UploadLost(t)
         \/ Respond(t) \/ CleanUp(t) \/ Audits(t) \/ Answers(t) \/ Fails(t)
    \/ Crash \/ Expire

ConnectionSpec == ConnectionInit /\ [][ConnectionNext]_connectionVars

-----------------------------------------------------------------------------
(* Properties *)

\* Rows, requests and assets have their types.
ConnectionTypeOK ==
    /\ conn \in [Connections -> ConnectionRow \cup {NoRow}]
    /\ cred \in {"none", "issued", "revoked"}
    /\ requests \in 0..MaxRequests
    /\ done \cup audit \cup remote \subseteq 1..requests

\* A revoked connection stays revoked, whatever an update or a test that read
\* it before writes afterwards.
RevocationIsFinal ==
    [][\A k \in Connections : conn[k] # NoRow /\ conn[k].revoked => conn'[k].revoked]_connectionVars

\* No test of a connection reaches its gateway once the answer to its
\* revocation has been sent, except one that had begun before.
NoCallAfterRevocation ==
    [][\A t \in Tasks, a \in answered :
          a.kind = "revoked" /\ work'[t].pc = "call" /\ work[t].pc # "call"
              => work'[t].k # a.k]_connectionVars

\* An audit event of a success is about a change that is committed.
AuditIsTruthful == audit \subseteq done

\* Whoever got a success as answer finds the event in the audit log, even if
\* the process stopped at once.
AnsweredIsAudited == \A a \in answered : a.n \in audit

\* A lab run that reported success has left no asset in the gateway.
LabLeavesNothing == \A a \in answered : a.kind = "lab" => a.n \notin remote

\* What the audit log and the test lab leave behind is true (_audit, test_lab):
\* the three invariants above together.
ChangesAreAudited == AuditIsTruthful /\ AnsweredIsAudited /\ LabLeavesNothing

\* A revoked connection (ConnectionService.revoke) stays revoked and is called
\* no more.
RevokedForGood == RevocationIsFinal /\ NoCallAfterRevocation

=============================================================================
