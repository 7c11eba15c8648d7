------------------------------- MODULE MCControl -------------------------------
(***************************************************************************)
(* The control plane for TLC, its parts side by side: a behavior is one of *)
(* one part, the others stay in their initial states.                      *)
(***************************************************************************)
EXTENDS ControlAccess, ManagedConfiguration, GatewayConnections, TLC

VARIABLE part

ControlInit ==
    /\ part \in {"access", "configuration", "connections"}
    /\ Init /\ ManagedInit /\ ConnectionInit

ControlNext ==
    /\ UNCHANGED part
    /\ \/ part = "access" /\ Next /\ UNCHANGED <<managedVars, connectionVars>>
       \/ part = "configuration" /\ ManagedNext /\ UNCHANGED <<vars, connectionVars>>
       \/ part = "connections" /\ ConnectionNext /\ UNCHANGED <<vars, managedVars>>

ControlSpec == ControlInit /\ [][ControlNext]_<<part, vars, managedVars, connectionVars>>

\* The type of the state of the part that runs.
ControlTypeOK ==
    CASE part = "access"        -> TypeOK
      [] part = "configuration" -> ManagedTypeOK
      [] part = "connections"   -> ConnectionTypeOK

\* What was revoked does not come back: a session (logout, change of password)
\* or a connection, which is called no more either.
NothingRevokedReturns == RevokedStaysRevoked /\ RevokedForGood

\* The parts share their model values, so that few permutations are enough:
\* Threads, Providers and Tasks are one set, Sessions and Policies another.
Symmetry ==
    UNION {Permutations(S) : S \in {Threads, Sessions, Requests, Clients}}
=============================================================================
