----------------------------- MODULE AssetPromise -----------------------------
(***************************************************************************)
(* What AssetStore of media_bridge/assets.py promises its callers, without *)
(* threads, files, clocks and crashes: an upload is held for its tenant,   *)
(* and is then handed out to that tenant, once, or given up.               *)
(***************************************************************************)
EXTENDS Naturals

CONSTANTS Tenants, Assets

VARIABLE place    \* asset -> what has become of it

Unknown  == [state |-> "unknown"]
Held(w)  == [state |-> "held", tenant |-> w]
Taken(w) == [state |-> "taken", times |-> [v \in Tenants |-> IF v = w THEN 1 ELSE 0]]
GivenUp  == [state |-> "given up"]

Init == place = [a \in Assets |-> Unknown]

\* put returns the identifier of an upload.
Hold(a, w) == place[a] = Unknown /\ place' = [place EXCEPT ![a] = Held(w)]

\* consume returns the bytes to the tenant that uploaded them.
HandOut(a, w) == place[a] = Held(w) /\ place' = [place EXCEPT ![a] = Taken(w)]

\* Uploads expire, are deleted, or go with the process, several at once.
GiveUp(S) ==
    /\ \A a \in S : place[a].state = "held"
    /\ place' = [a \in Assets |-> IF a \in S THEN GivenUp ELSE place[a]]

Next ==
    \/ \E a \in Assets, w \in Tenants : Hold(a, w) \/ HandOut(a, w)
    \/ \E S \in SUBSET Assets : GiveUp(S)

Spec == Init /\ [][Next]_place
=============================================================================
