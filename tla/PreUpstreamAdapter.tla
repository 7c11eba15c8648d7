-------------------------- MODULE PreUpstreamAdapter --------------------------
(***************************************************************************)
(* A request of another router on its way through Media Bridge: the plugin *)
(* in the router (media_bridge_adapters/omniroute/plugin/index.mjs), the   *)
(* adapter service it asks (app.py, service.py, contracts.py) and the      *)
(* gateway that the service asks (http_client.py).                         *)
(*                                                                         *)
(* The gateway is an external service: any answer of the contract may      *)
(* come.  Decisions travel back over a network that may mix up the answers *)
(* of concurrent requests, change them or lose them; the router goes on    *)
(* working on a request's body while the plugin waits.                     *)
(*                                                                         *)
(* A body is what its media checks and its digest tell apart; a digest is  *)
(* the body, a signature what was signed: both ends share its secret.      *)
(***************************************************************************)
EXTENDS Naturals, FiniteSets

CONSTANTS Calls,  \* requests that the router handles at the same time
          Models  \* resolved target models

\* The current message: text, media, text that looks like media, or an item
\* that cannot be normalised; media in earlier items or other fields; a
\* reference to a conversation kept elsewhere.
Bodies == [current : {"text", "media", "mediaText", "odd"}, elsewhere : BOOLEAN,
           conversation : BOOLEAN, model : Models]

VARIABLES
    turn,     \* where each request is in the plugin
    pending,  \* requests that the service has, and what it got
    answers,  \* decisions on their way back
    passed    \* bodies that the router was told to send on, with their calls

adapterVars == <<turn, pending, answers, passed>>

AdapterInit ==
    /\ turn = [c \in Calls |-> [pc |-> "idle"]]
    /\ pending = {} /\ answers = {} /\ passed = {}

\* _media_reference, hasMedia.
HasMedia(body) == body.current \in {"media", "mediaText"} \/ body.elsewhere

-----------------------------------------------------------------------------
(* The router and its plugin *)

\* onRequest sends the request as it is now.
Send(c) ==
    /\ turn[c].pc = "idle"
    /\ \E body \in Bodies :
         /\ body.conversation
         /\ turn' = [turn EXCEPT ![c] = [pc |-> "sent", model |-> body.model, body |-> body]]
         /\ pending' = pending \cup {[target |-> body.model, body |-> body]}
    /\ UNCHANGED <<answers, passed>>

\* While the plugin waits the router changes the body it works on.
Change(c) ==
    /\ turn[c].pc = "sent"
    /\ \E current \in {"text", "media"} : turn' = [turn EXCEPT ![c].body.current = current]
    /\ UNCHANGED <<pending, answers, passed>>

Digest(body) == body

\* A faulty plugin that does not compare what was decided with what it has.
ValidForAny(c, a) ==
    /\ a.target = turn[c].model
    /\ a.output = Digest(a.body)
    /\ a.capability = "non_vision" => a.removed /\ ~HasMedia(a.body)
    /\ a.token = [capability |-> a.capability, removed |-> a.removed, target |-> a.target,
                  input |-> a.input, output |-> a.output]

\* A faulty plugin that trusts the service to have looked for media.
ValidTrusting(c, a) ==
    /\ a.target = turn[c].model
    /\ a.input = Digest(turn[c].body) /\ a.output = Digest(a.body)
    /\ a.capability = "non_vision" => a.removed
    /\ a.token = [capability |-> a.capability, removed |-> a.removed, target |-> a.target,
                  input |-> a.input, output |-> a.output]

\* validateDecision.
Valid(c, a) ==
    /\ a.target = turn[c].model
    /\ a.input = Digest(turn[c].body) /\ a.output = Digest(a.body)
    /\ a.capability = "non_vision" => a.removed /\ ~HasMedia(a.body)
    /\ a.token = [capability |-> a.capability, removed |-> a.removed, target |-> a.target,
                  input |-> a.input, output |-> a.output]

\* An answer arrives, its own or another one; a valid one is passed on.
Receive(c) ==
    /\ turn[c].pc = "sent"
    /\ \E a \in answers :
         passed' = IF Valid(c, a)
                   THEN passed \cup {[had |-> turn[c].body, got |-> a.body, as |-> a.capability]}
                   ELSE passed
    /\ turn' = [turn EXCEPT ![c] = [pc |-> "done"]]
    /\ UNCHANGED <<pending, answers>>

\* Time-out, transport error, an error status or a body that is no decision:
\* the router gets an error and no body.
GiveUp(c) ==
    /\ turn[c].pc = "sent"
    /\ turn' = [turn EXCEPT ![c] = [pc |-> "done"]]
    /\ UNCHANGED <<pending, answers, passed>>

-----------------------------------------------------------------------------
(* The service *)

\* _prepare_payload: media only in the current message, whose parts have to
\* be known.
Normalisable(body) == ~body.elsewhere /\ body.current # "odd"

\* GatewayPrepareResponse: what it decided, for which model.
Gateway == [action : {"passthrough", "converted", "blocked"}, target : Models,
            vision : {"yes", "no", "unknown"}, media : BOOLEAN,
            text : {"none", "text", "mediaText"}, removed : BOOLEAN]

Continued(body, g) == [body EXCEPT !.conversation = FALSE, !.model = g.target]

\* _rewritten_body, or the body without its conversation.
Rewritten(body, g) ==
    IF g.action = "converted" THEN [Continued(body, g) EXCEPT !.current = g.text]
    ELSE Continued(body, g)

Capability(g) == IF g.action = "converted" \/ g.vision = "no" THEN "non_vision" ELSE "vision"

Removed(g) == g.action = "converted" \/ ~g.media

\* prepare: no decision for another model, or without a capability, or one
\* that claims less than it must; PreUpstreamResult's own validation.
Acceptable(request, g) ==
    /\ g.target = request.target
    /\ g.action # "blocked" /\ g.vision # "unknown"
    /\ g.action = "converted" => g.text # "none" /\ g.removed
    /\ g.action # "converted" /\ Capability(g) = "non_vision"
           => ~HasMedia(Rewritten(request.body, g)) /\ Removed(g)

\* The decision and its signature.
Decision(request, g) ==
    LET a == [capability |-> Capability(g), removed |-> Removed(g), target |-> request.target,
              input |-> Digest(request.body), output |-> Digest(Rewritten(request.body, g))]
    IN [capability |-> a.capability, removed |-> a.removed, target |-> a.target,
        input |-> a.input, output |-> a.output, body |-> Rewritten(request.body, g), token |-> a]

\* prepare answers with a decision, or with a blocked result or an error (which
\* the plugin takes for a failure).
PrepareAnswer ==
    \E request \in pending :
        /\ pending' = pending \ {request}
        /\ \/ /\ Normalisable(request.body)
              /\ \E g \in Gateway :
                   /\ Acceptable(request, g)
                   /\ answers' = answers \cup {Decision(request, g)}
           \/ UNCHANGED answers
        /\ UNCHANGED <<turn, passed>>

\* A decision is changed on its way: what it says of the media, or the body.
Distort ==
    \E a \in answers :
        /\ \/ answers' = answers \cup {[a EXCEPT !.capability = "vision"]}
           \/ answers' = answers \cup {[a EXCEPT !.body = a.input, !.output = a.input]}
        /\ UNCHANGED <<turn, pending, passed>>

AdapterNext ==
    \/ \E c \in Calls : Send(c) \/ Change(c) \/ Receive(c) \/ GiveUp(c)
    \/ PrepareAnswer \/ Distort

AdapterSpec == AdapterInit /\ [][AdapterNext]_adapterVars

-----------------------------------------------------------------------------
(* Properties *)

\* Requests and bodies have their types.
AdapterTypeOK ==
    /\ \A c \in Calls : turn[c].pc \in {"idle", "sent", "done"}
    /\ \A r \in pending : r.body \in Bodies
    /\ \A p \in passed : p.as \in {"vision", "non_vision"}

\* What the router sends on is what was decided for the body it has now: the
\* target it resolved, no conversation kept elsewhere, and the same message
\* unless that was converted.
PassedIsDecided ==
    \A p \in passed :
        /\ p.got.model = p.had.model /\ ~p.got.conversation
        /\ p.got.elsewhere = p.had.elsewhere
        /\ p.got.current # p.had.current => p.as = "non_vision"

\* A model without vision is never sent a body that carries media, whatever
\* the gateway answers and whichever answer arrives.
NoMediaWithoutVision == \A p \in passed : p.as = "non_vision" => ~HasMedia(p.got)

\* Nothing goes upstream undecided (the plugin's transform): the two invariants
\* above together.
DecidedBeforeUpstream == PassedIsDecided /\ NoMediaWithoutVision

=============================================================================
