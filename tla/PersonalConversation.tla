------------------------- MODULE PersonalConversation -------------------------
(***************************************************************************)
(* How a conversation goes through the personal edition: the two routes of *)
(* npm_runtime.py, media_bridge/openai_chat.py, the normalizer, the gate   *)
(* and the transaction of media_bridge_local, its state store, and         *)
(* SolarResponsesDownstream of solar_responses.py.                         *)
(*                                                                         *)
(* A text is a token: which request it came with, at which place, and what *)
(* it is; texts that go together are a set, their order is left out.       *)
(* Requests run in parallel and each may follow up an earlier one.         *)
(***************************************************************************)
EXTENDS Naturals, Sequences, FiniteSets

CONSTANTS Turns,      \* 1..n, in the order in which they are sent
          Conversations, \* what a request may carry: sequences of messages
          MaxText,       \* bound of the code: the length of a stored text
          NoTurn         \* no previous response

\* A message: a role and parts.  "blank" is a text of spaces, "calls" are tool
\* calls; the message of a tool has no part that matters here.
ChatMessages == [role : {"user", "assistant", "system", "tool"},
             parts : UNION {[1..n -> {"text", "blank", "image", "calls"}] : n \in 0..2}]

ASSUME ConversationsAssumption == Conversations \subseteq Seq(ChatMessages)

ASSUME TurnsAssumption == Turns \subseteq Nat /\ NoTurn \notin Turns /\ MaxText \in Nat

VARIABLES
    call,    \* request -> what has become of it
    states   \* response -> the texts of its state; Responses as requests

conversationVars == <<call, states>>

Tokens == [by : Turns, at : Nat, nr : Nat, kind : {"text", "blank", "image", "read"}]

\* A request: the one it follows up and the tokens of its current message, the
\* last one of the user; what it was asked with, what was prepared of it and
\* what was sent; how many events and texts the client got; how it ended.
Asked ==
    [pc : {"idle", "extract", "post", "stream", "done"}, prev : Turns \cup {NoTurn}, current : SUBSET Tokens,
     chat : BOOLEAN, stream : BOOLEAN, instructions : SUBSET Tokens,
     content : SUBSET Tokens, sent : SUBSET Tokens, next : Nat, got : Nat,
     outcome : {"none", "completed", "state_unavailable", "current_user_required", "unsafe_history_media",
                "media", "guard", "preprocessing_failed", "upstream_error", "left"}]

NotAsked ==
    [pc |-> "idle", prev |-> NoTurn, current |-> {}, chat |-> FALSE, stream |-> FALSE, instructions |-> {},
     content |-> {}, sent |-> {}, next |-> 1, got |-> 0, outcome |-> "none"]

ConversationInit == call = [r \in Turns |-> NotAsked] /\ states = [r \in {} |-> {}]

-----------------------------------------------------------------------------
(* The request *)

Token(r, i, k, kind) == [by |-> r, at |-> i, nr |-> k, kind |-> kind]
Holds(kind, tokens) == \E t \in tokens : t.kind = kind
Texts(tokens) == {t \in tokens : t.kind \in {"text", "read"}}

\* _message_content and _tool_items: the items the messages become, each with
\* its place.
Own(r, i, message) ==
    LET kept == {k \in DOMAIN message.parts : message.parts[k] # "calls"}
    IN [at |-> i, role |-> message.role, parts |-> {Token(r, i, k, message.parts[k]) : k \in kept}]
Tool(i) == [at |-> i, role |-> "tool", parts |-> {}]
Items(r, messages) ==
    {Own(r, i, messages[i]) : i \in {j \in DOMAIN messages : messages[j].role # "tool"}}
    \cup {Tool(i) : i \in {j \in DOMAIN messages :
            messages[j].role = "tool" \/ \E k \in DOMAIN messages[j].parts : messages[j].parts[k] = "calls"}}

\* The input of a request: chat_request_to_responses moves the system messages
\* to the instructions; a request of the Responses API comes in this form.
Input(r, messages, chat) ==
    LET all == Items(r, messages)
        system == {e \in all : e.role = "system"}
    IN [items |-> IF chat THEN all \ system ELSE all,
        instructions |-> IF chat THEN UNION {Texts(e.parts) : e \in system} ELSE {}]

Users(items) == {e \in items : e.role = "user"}
CurrentItem(items) == CHOOSE e \in Users(items) : \A f \in Users(items) : f.at <= e.at

\* A faulty normalizer that looks at the current message only.
HistoryUnread(items) == FALSE

\* _select_current_input: media in any other item than the current one.
MediaInHistory(items) ==
    \E e \in items \ {CurrentItem(items)} : Holds("image", e.parts)

\* _verify_seal, _chat_messages and _text_content: why the adapter refuses.
Refusal(items) ==
    IF \E e \in items : Holds("image", e.parts) THEN "media"
    ELSE IF \E e \in items : e.role = "tool" \/ e.parts = {} \/ Holds("blank", e.parts) THEN "guard"
    ELSE "none"

\* A request that has ended: answered, or not.
Done(c) == [NotAsked EXCEPT !.pc = "done", !.prev = c.prev, !.current = c.current, !.got = c.got,
                            !.outcome = "completed"]
Finished(outcome) == [NotAsked EXCEPT !.pc = "done", !.outcome = outcome]

\* The downstream request: all items as they came where there is no medium and
\* no previous response, else what the gate has prepared of the current message
\* and the state; then the adapter posts the texts, or refuses.
Posted(c, items, content) ==
    IF Refusal(items) # "none" THEN Finished(Refusal(items))
    ELSE [c EXCEPT !.pc = "post", !.content = content,
                   !.sent = c.instructions \cup UNION {e.parts : e \in items}]

\* _rebuilt_input: one message of the user with all there is.
Rebuilt(content) == {[at |-> 1, role |-> "user", parts |-> content]}

\* normalize_responses_request, with the state that invoke looked up: why a
\* request is refused.
Rejected(items, prev) ==
    IF prev # NoTurn /\ prev \notin DOMAIN states THEN "state_unavailable"
    ELSE IF Users(items) = {} THEN "current_user_required"
    ELSE IF MediaInHistory(items) THEN "unsafe_history_media"
    ELSE "none"

\* prepare_for_model, for a target without vision: media have to be read first,
\* and without any the request is posted.
Prepared(c, items, content) ==
    IF Holds("image", c.current) THEN [c EXCEPT !.pc = "extract", !.content = content]
    ELSE Posted(c, IF c.prev = NoTurn THEN items ELSE Rebuilt(content), content)

\* The responses that a client can have heard of.
Earlier(r) == {p \in Turns : p < r /\ call[p].pc \in {"stream", "done"}}

\* The routes, GatewayTransaction.invoke and normalize_responses_request up to
\* the first wait: the OCR of a medium, or the answer of the provider.
Ask(r) ==
    /\ call[r] = NotAsked
    /\ \A p \in Turns : p < r => call[p] # NotAsked
    /\ \E messages \in Conversations, chat \in BOOLEAN, stream \in BOOLEAN,
          prev \in Earlier(r) \cup {NoTurn} :
         LET in == Input(r, messages, chat)
             now == IF Users(in.items) = {} THEN {} ELSE CurrentItem(in.items).parts
             content == IF prev = NoTurn THEN now ELSE states[prev] \cup now
             c == [NotAsked EXCEPT !.prev = prev, !.current = now, !.chat = chat, !.stream = stream,
                                   !.instructions = in.instructions]
         IN call' = [call EXCEPT ![r] =
              IF Rejected(in.items, prev) # "none" THEN Finished(Rejected(in.items, prev))
              ELSE Prepared(c, in.items, content)]
    /\ UNCHANGED states

\* extract_context: an image becomes the text that was read in it, and all
\* texts become one.
Seen(t) == IF t.kind = "image" THEN [t EXCEPT !.kind = "read"] ELSE t
ReadIn(tokens) == Texts({Seen(t) : t \in tokens})

\* Every medium is read and described and its workspace removed, or the
\* request is blocked.
Extract(r) ==
    /\ call[r].pc = "extract"
    /\ LET c == call[r] IN
       \E read \in BOOLEAN :
         call' = [call EXCEPT ![r] =
                    IF read THEN Posted(c, Rebuilt(ReadIn(c.content)), ReadIn(c.content))
                    ELSE Finished("preprocessing_failed")]
    /\ UNCHANGED states

-----------------------------------------------------------------------------
(* The answer *)

\* A faulty transaction that keeps what this request adds and no more.
RecordedLast(r) == ReadIn(call[r].current)

\* _record_state: the texts the gate has prepared, of the current message and of
\* the state; the rest of the input is not among them.
Recorded(r) == Texts(call[r].content)

\* GatewayStateStore.put refuses a text that is too long; no state then.
Record(r) ==
    states' = IF Cardinality(Recorded(r)) <= MaxText
              THEN [p \in DOMAIN states \cup {r} |-> IF p = r THEN Recorded(r) ELSE states[p]]
              ELSE states

Chunks == <<"created", "delta", "text.done", "completed", "[DONE]">>

\* A faulty start of a stream that records the state with it.
AnswerAndRecord(r) ==
    /\ call[r].pc = "post"
    /\ LET c == call[r] IN
       call' = [call EXCEPT ![r] = IF c.stream THEN [c EXCEPT !.pc = "stream", !.sent = {}]
                                   ELSE Done([c EXCEPT !.got = 1])]
    /\ Record(r)

\* SolarResponsesDownstream.invoke: the provider answers with a text; it is
\* sent as one response, or in the events of a stream.
ProviderAnswers(r) ==
    /\ call[r].pc = "post"
    /\ LET c == call[r] IN
       IF c.stream
       THEN call' = [call EXCEPT ![r] = [c EXCEPT !.pc = "stream", !.sent = {}]] /\ UNCHANGED states
       ELSE call' = [call EXCEPT ![r] = Done([c EXCEPT !.got = 1])] /\ Record(r)

\* The key is missing, the call fails, or the answer has no text.
AnswerFails(r) ==
    /\ call[r].pc = "post"
    /\ call' = [call EXCEPT ![r] = Finished("upstream_error")]
    /\ UNCHANGED states

\* A faulty translation that shows the text again when it is complete.
ShownTwice(chat) == {"delta", "text.done"}

\* The events whose text a client appends; chat_stream_from_responses makes
\* chunks of the same ones.
Shown(chat) == {"delta"}

\* Where a stream ends: the translation stops at response.completed, and the
\* rest of its source is never asked for.
LastShown(chat) == IF chat THEN 4 ELSE Len(Chunks)

\* The next event goes to the client.
Event(r) ==
    /\ call[r].pc = "stream" /\ call[r].next <= LastShown(call[r].chat)
    /\ LET c == call[r] IN
       call' = [call EXCEPT ![r] =
            [c EXCEPT !.next = c.next + 1,
                      !.got = IF Chunks[c.next] \in Shown(c.chat) THEN c.got + 1 ELSE c.got]]
    /\ UNCHANGED states

\* state_committing_stream: the state is recorded when its source is
\* exhausted; a chat client has been answered without.
StreamIsOver(r) ==
    /\ call[r].pc = "stream" /\ call[r].next > LastShown(call[r].chat)
    /\ call' = [call EXCEPT ![r] = Done(call[r])]
    /\ IF call[r].chat THEN UNCHANGED states ELSE Record(r)

\* The client closes the connection.
Leave(r) ==
    /\ call[r].pc = "stream"
    /\ call' = [call EXCEPT ![r] = Finished("left")]
    /\ UNCHANGED states

\* A state expires, is the oldest of too many, or goes with its process.
Forget(r) ==
    /\ r \in DOMAIN states
    /\ states' = [p \in DOMAIN states \ {r} |-> states[p]]
    /\ UNCHANGED call

ConversationNext ==
    \E r \in Turns :
        \/ Ask(r) \/ Extract(r) \/ ProviderAnswers(r) \/ AnswerFails(r)
        \/ Event(r) \/ StreamIsOver(r) \/ Leave(r) \/ Forget(r)

ConversationSpec == ConversationInit /\ [][ConversationNext]_conversationVars

-----------------------------------------------------------------------------
(* Properties *)

\* The type of the state; and a stored text is within the bound.
ConversationTypeOK ==
    /\ call \in [Turns -> Asked]
    /\ DOMAIN states \subseteq Turns
    /\ \A r \in DOMAIN states : states[r] \subseteq Tokens /\ Cardinality(states[r]) <= MaxText

\* The requests a request follows up, one after the other, with itself: the
\* least set that has it and, of each request, the one that follows up.
Chain(r) ==
    {p \in Turns : \A S \in SUBSET Turns :
        r \in S /\ (\A q \in S : call[q].prev \in S \cup {NoTurn}) => p \in S}

\* What a follow-up is built on (_rebuilt_input, _record_state): a request that
\* reaches the provider has, with the texts of its own current message, those of
\* the current messages of all requests it follows up, and what was read in
\* their images.  The other items that came with a request, a history that the
\* client sends along, are not part of this: _build_downstream_payload leaves
\* them out where there is a medium or a previous response, and _record_state
\* never stores them, so that no follow-up has them.
CurrentMessagesKept ==
    \A r \in Turns : call[r].pc = "post" =>
        \A p \in Chain(r) : ReadIn(call[p].current) \subseteq call[r].sent

\* The text of an answer is whole (chat_stream_from_responses, _stream): a
\* client that was told the answer is complete has its text, once.
AnswerIsWhole ==
    \A r \in Turns : call[r].pc = "done" /\ call[r].outcome = "completed" => call[r].got = 1

\* A state is that of an answer (state_committing_stream): what a client can
\* follow up it has got to the end.
StateOfAnswered ==
    \A r \in DOMAIN states : call[r].pc = "done" /\ call[r].outcome = "completed"

\* The adapter's own check for media is the last resort (_verify_seal): the
\* normalizer and the gate leave it nothing to find.
GuardIsLastResort == \A r \in Turns : call[r].pc = "done" => call[r].outcome # "media"

ConversationKept == CurrentMessagesKept /\ AnswerIsWhole /\ StateOfAnswered /\ GuardIsLastResort
=============================================================================
