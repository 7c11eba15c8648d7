------------------------- MODULE MCGatewayTransaction -------------------------
(***************************************************************************)
(* The two transactions of media_bridge_gateway/transaction.py for TLC,    *)
(* side by side: a behavior is one of one of them.                         *)
(***************************************************************************)
EXTENDS GatewayTransaction, IdempotentPreparation, TLC

VARIABLE part

CONSTANTS mv, mt, mu

\* mv takes images and verified PDFs in version 1 and only images in version
\* 2; mt is a text model whose entry of version 1 expires at time 1;
\* mu is in no registry.
MCRegistry ==
    [g \in 1 .. MaxGen |->
        [m \in Models |->
            CASE m = mv /\ g = 1 -> [mods |-> {"image", "pdf"}, pdf |-> TRUE, until |-> 9]
              [] m = mv /\ g = 2 -> [mods |-> {"image"}, pdf |-> FALSE, until |-> 9]
              [] m = mt /\ g = 1 -> [mods |-> {}, pdf |-> FALSE, until |-> 1]
              [] m = mu -> Unknown
              [] OTHER -> [mods |-> {}, pdf |-> FALSE, until |-> 9]]]

TransactionsInit == part \in {"responses", "preparation"} /\ Init /\ IdemInit

TransactionsNext ==
    /\ UNCHANGED part
    /\ \/ part = "responses" /\ Next /\ UNCHANGED idemVars
       \/ part = "preparation" /\ IdemNext /\ UNCHANGED vars

TransactionsSpec == TransactionsInit /\ [][TransactionsNext]_<<part, vars, idemVars>>

\* The type of the state of the transaction that runs.
TransactionsTypeOK == (part = "responses" => TypeOK) /\ (part = "preparation" => IdemTypeOK)

\* The two share their model values, so that few permutations are enough:
\* Slots and Callers, Clients and IdemKeys, ResponseIds and Fingerprints.
Symmetry == Permutations(Slots) \cup Permutations(Clients) \cup Permutations(ResponseIds)
===============================================================================
