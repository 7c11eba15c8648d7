----------------------------- MODULE MCRequestPath -----------------------------
(***************************************************************************)
(* The way of a request through a gateway for TLC, its parts side by side: *)
(* a behavior is one of one part, the others stay in their initial states. *)
(***************************************************************************)
EXTENDS PreRequestGate, GatewayDelivery, RateLimiter, ProviderExecution,
        PersonalConversation, TLC

VARIABLE part

\* Each model with a provider of its own; a published profile, with a model
\* bound to another one; two providers in the profile and none of its own.
MCRoutings ==
    LET Of(p, bound) == [provider |-> p, bound |-> bound]
        Published(first, second, profile, policy, own) ==
            [model |-> [m \in Targets |-> IF m = 1 THEN first ELSE second],
             profile |-> profile, policy |-> policy,
             own |-> [p \in Llms |-> IF p = 1 THEN own ELSE Nil]]
    IN {Published(Of(1, FALSE), Of(2, FALSE), Nil, Nil, Nil),
        Published(Of(1, FALSE), Of(1, TRUE), {2}, "low", Nil),
        Published(Of(Nil, TRUE), Of(2, FALSE), {1, 2}, "low", "high")}

\* A history of the user's, which an image leaves out; one with all roles, which
\* goes along with a request that follows up nothing; an image in the history;
\* tool calls in the history and no text; no user.
MCConversations ==
    LET Says(role, parts) == [role |-> role, parts |-> parts]
    IN {<<Says("user", <<"text">>), Says("user", <<"text", "image">>)>>,
        <<Says("system", <<"text">>), Says("user", <<"text">>), Says("assistant", <<"text">>),
          Says("user", <<"text">>)>>,
        <<Says("user", <<"image">>), Says("user", <<"blank">>)>>,
        <<Says("assistant", <<"text", "calls">>), Says("tool", <<>>), Says("user", <<"blank">>)>>,
        <<Says("system", <<"text">>)>>}

pathVars == <<part, gateVars, deliveryVars, rateVars, executionVars, conversationVars>>

PathInit ==
    /\ part \in {"gate", "delivery", "rate", "execution", "conversation"}
    /\ GateInit /\ DeliveryInit /\ RateInit /\ ExecutionInit /\ ConversationInit
    /\ part # "execution" => serving.routing = CHOOSE r \in MCRoutings : TRUE

PathNext ==
    /\ UNCHANGED part
    /\ \/ /\ part = "gate" /\ GateNext
          /\ UNCHANGED <<deliveryVars, rateVars, executionVars, conversationVars>>
       \/ /\ part = "delivery" /\ DeliveryNext
          /\ UNCHANGED <<gateVars, rateVars, executionVars, conversationVars>>
       \/ /\ part = "rate" /\ RateNext
          /\ UNCHANGED <<gateVars, deliveryVars, executionVars, conversationVars>>
       \/ /\ part = "execution" /\ ExecutionNext
          /\ UNCHANGED <<gateVars, deliveryVars, rateVars, conversationVars>>
       \/ /\ part = "conversation" /\ ConversationNext
          /\ UNCHANGED <<gateVars, deliveryVars, rateVars, executionVars>>

PathSpec == PathInit /\ [][PathNext]_pathVars

\* The type of the state of the part that runs.
PathTypeOK ==
    CASE part = "gate"         -> GateTypeOK
      [] part = "delivery"     -> DeliveryTypeOK
      [] part = "rate"         -> RateTypeOK
      [] part = "execution"    -> ExecutionTypeOK
      [] part = "conversation" -> ConversationTypeOK

\* The requests of the gate and those of the delivery are the same two.
Symmetry == Permutations(Requests)
=============================================================================
