---------------------------- MODULE GatewayDelivery ----------------------------
(***************************************************************************)
(* A request on its way through the gateway: DataPlaneAuthMiddleware and   *)
(* the routes of media_bridge_gateway/app.py, the sealed call of           *)
(* GuardedResponsesDownstream (downstream.py) with its replay guard, the   *)
(* signed receipts (media_bridge/receipts.py) and the streams back to the  *)
(* client (app.py, media_bridge/openai_chat.py).                           *)
(*                                                                         *)
(* Time is counted in ticks of a fraction of a second: the replay guard    *)
(* reads a fractional clock, a receipt counts whole seconds.               *)
(***************************************************************************)
EXTENDS Naturals, FiniteSets

CONSTANTS Messages,        \* requests
          TicksPerSecond,  \* ticks of a second
          ReceiptTtl,      \* seconds that a receipt is valid
          Retention,       \* seconds that the replay guard remembers a receipt
          MaxReplay,       \* receipts that the replay guard remembers at most
          MaxBytes,        \* size of a response, in chunks
          MaxTicks,        \* bound: ticks on the clock
          Nobody           \* not there

\* sign's default is 30 seconds, the guard's retention is 300.
ASSUME DeliveryAssumption ==
    /\ {TicksPerSecond, ReceiptTtl, Retention, MaxReplay, MaxBytes} \subseteq Nat \ {0}
    /\ MaxTicks \in Nat /\ ReceiptTtl < Retention

ASSUME NobodyAssumption == Nobody \notin Nat \cup {"responses", "chat"}

VARIABLES
    ticks,   \* time.time
    msg,     \* where each request is
    used,    \* _ReceiptReplayGuard._used: receipt -> when it is forgotten
    opened,  \* how often a downstream call was opened with each receipt
    source,  \* the downstream response: "none", "open", "closed"
    broken,  \* requests whose downstream response failed half way
    failed,  \* requests whose downstream response says that it failed, or ends early
    sent,    \* chunks handed to the client
    view,    \* what the client saw: "none", "error", "finished", "cut", "gone"
    events   \* operational events, how many for each request

deliveryVars == <<ticks, msg, used, opened, source, broken, failed, sent, view, events>>

DeliveryInit ==
    /\ ticks = 0
    /\ msg = [m \in Messages |-> [pc |-> "new", route |-> Nobody, issued |-> Nobody]]
    /\ used = [m \in Messages |-> Nobody]
    /\ opened = [m \in Messages |-> 0]
    /\ source = [m \in Messages |-> "none"]
    /\ broken = {} /\ failed = {}
    /\ sent = [m \in Messages |-> 0]
    /\ view = [m \in Messages |-> "none"]
    /\ events = [m \in Messages |-> 0]

\* A request: how far it has come, by which route, and the second of its
\* receipt.
Message ==
    [pc : {"new", "unknown", "sealed", "reading", "begun", "streaming", "emit", "ended"},
     route : {"responses", "chat", Nobody}, issued : Nat \cup {Nobody}]

At(m, pc) == msg[m].pc = pc
To(m, pc) == msg' = [msg EXCEPT ![m].pc = pc]
Shows(m, v) == view' = [view EXCEPT ![m] = v]
Closes(m) == source' = [source EXCEPT ![m] = "closed"]

-----------------------------------------------------------------------------
(* Admission *)

\* The middleware turns a request away (no snapshot, credential, rate limit)
\* and emits its event; a path that is no route is answered without one.
Reject(m) ==
    /\ At(m, "new")
    /\ Shows(m, "error")
    /\ \/ To(m, "ended") /\ events' = [events EXCEPT ![m] = @ + 1]
       \/ To(m, "unknown") /\ UNCHANGED events
    /\ UNCHANGED <<ticks, used, opened, source, broken, failed, sent>>

\* It lets the request in, and the route and the gate prepare it (or reject
\* it): the sealed request carries a receipt of this moment.
Seal(m) ==
    /\ At(m, "new")
    /\ \/ \E route \in {"responses", "chat"} :
            msg' = [msg EXCEPT ![m] =
                [pc |-> "sealed", route |-> route, issued |-> ticks \div TicksPerSecond]]
            /\ UNCHANGED view
       \/ To(m, "emit") /\ Shows(m, "error")
    /\ UNCHANGED <<ticks, used, opened, source, broken, failed, sent, events>>

-----------------------------------------------------------------------------
(* The sealed call *)

\* A faulty verification that does not look at the age of a receipt.
ValidForever(m) == msg[m].issued <= ticks \div TicksPerSecond

\* verify: not before it was issued, not after its last second.
Valid(m) == msg[m].issued <= ticks \div TicksPerSecond /\ ticks \div TicksPerSecond <= msg[m].issued + ReceiptTtl

\* consume: what has expired is forgotten first.
Remembered == [r \in Messages |->
    IF used[r] # Nobody /\ used[r] <= ticks THEN Nobody ELSE used[r]]

\* A faulty guard that forgets a receipt to make room.
ConsumesByEviction(m) ==
    /\ Remembered[m] = Nobody
    /\ used' = [r \in Messages |->
         IF r = m THEN ticks + Retention * TicksPerSecond
         ELSE IF Cardinality({q \in Messages : Remembered[q] # Nobody}) >= MaxReplay THEN Nobody
         ELSE Remembered[r]]

\* A receipt is new, and there is room to remember it.
Consumes(m) ==
    /\ Remembered[m] = Nobody
    /\ Cardinality({r \in Messages : Remembered[r] # Nobody}) < MaxReplay
    /\ used' = [Remembered EXCEPT ![m] = ticks + Retention * TicksPerSecond]

\* invoke: the seal is verified, the receipt consumed, and the call opened.
Send(m) ==
    /\ At(m, "sealed") /\ Valid(m)
    /\ Consumes(m)
    /\ opened' = [opened EXCEPT ![m] = @ + 1]
    /\ source' = [source EXCEPT ![m] = "open"]
    /\ To(m, "reading")
    /\ UNCHANGED <<ticks, broken, failed, sent, view, events>>

\* The guard rejects, or no response begins (configuration, time-out,
\* transport): the request is blocked or answered with the downstream's error.
SendFails(m) ==
    /\ At(m, "sealed")
    /\ To(m, "emit") /\ Shows(m, "error")
    /\ \/ UNCHANGED <<used, opened>>
       \/ Valid(m) /\ Consumes(m) /\ opened' = [opened EXCEPT ![m] = @ + 1]
    /\ UNCHANGED <<ticks, source, broken, failed, sent, events>>

\* The same sealed request is presented again: a receipt that was consumed is
\* rejected.
Replay(m) ==
    /\ msg[m].issued # Nobody /\ ~At(m, "sealed")
    /\ Valid(m) /\ Consumes(m)
    /\ opened' = [opened EXCEPT ![m] = @ + 1]
    /\ UNCHANGED <<ticks, msg, source, broken, failed, sent, view, events>>

-----------------------------------------------------------------------------
(* The response *)

\* A faulty error path that keeps the downstream response.
ReadFailsOpen(m) ==
    /\ At(m, "reading")
    /\ To(m, "emit") /\ Shows(m, "error")
    /\ UNCHANGED <<ticks, used, opened, source, broken, failed, sent, events>>

\* The status, the type, the size or the identifier is wrong, or the transport
\* fails: every path closes the response.
ReadFails(m) ==
    /\ At(m, "reading")
    /\ Closes(m)
    /\ To(m, "emit") /\ Shows(m, "error")
    /\ UNCHANGED <<ticks, used, opened, broken, failed, sent, events>>

\* How a downstream response may end by itself: complete, with its own report
\* of a failure (a status, or an event of its stream), or early.
Ends == {"completed", "failed", "early"}

\* A faulty route that shows a client of either route what the chat route shows.
PassesAll(m, end) ==
    /\ failed' = IF end = "completed" THEN failed ELSE failed \cup {m}
    /\ Shows(m, "finished")

\* The responses route passes a response on as it is.  The chat route converts
\* it, and the conversion always says "stop": it looks at the text only.
Passes(m, end) ==
    /\ failed' = IF end = "completed" THEN failed ELSE failed \cup {m}
    /\ Shows(m, IF end = "completed" \/ msg[m].route = "chat" THEN "finished"
                ELSE IF end = "failed" THEN "error" ELSE "cut")

\* A JSON response is read within its limit and closed.
ReadJson(m) ==
    /\ At(m, "reading")
    /\ Closes(m)
    /\ sent' \in {[sent EXCEPT ![m] = n] : n \in 1..MaxBytes}
    /\ To(m, "emit")
    /\ \E end \in Ends \ {"early"} : Passes(m, end)
    /\ UNCHANGED <<ticks, used, opened, broken, events>>

\* A stream has shown its identifier: the rest is read as the client reads.
StreamBegins(m) ==
    /\ At(m, "reading")
    /\ To(m, "begun")
    /\ UNCHANGED <<ticks, used, opened, source, broken, failed, sent, view, events>>

\* A faulty stream that looks at the size after it has passed a chunk on.
ChunkUnchecked(m) ==
    /\ msg[m].pc \in {"begun", "streaming"} /\ sent[m] <= MaxBytes
    /\ To(m, "streaming")
    /\ sent' = [sent EXCEPT ![m] = @ + 1]
    /\ UNCHANGED <<ticks, used, opened, source, broken, failed, view, events>>

\* A chunk is passed on while the limit allows it.
Chunk(m) ==
    /\ msg[m].pc \in {"begun", "streaming"} /\ sent[m] < MaxBytes
    /\ To(m, "streaming")
    /\ sent' = [sent EXCEPT ![m] = @ + 1]
    /\ UNCHANGED <<ticks, used, opened, source, broken, failed, view, events>>

\* The downstream stream ends, and the response is closed.
StreamEnds(m) ==
    /\ At(m, "streaming")
    /\ Closes(m)
    /\ To(m, "emit")
    /\ \E end \in Ends : Passes(m, end)
    /\ UNCHANGED <<ticks, used, opened, broken, sent, events>>

\* chat_stream_from_responses stops at response.completed, at [DONE] without a
\* word to the client, and at a chunk that ends within a character.  It leaves
\* the rest of the stream, and with it the response, to the garbage collector.
ChatStops(m) ==
    /\ At(m, "streaming") /\ msg[m].route = "chat"
    /\ To(m, "emit")
    /\ \E v \in {"finished", "cut"} : Shows(m, v)
    /\ UNCHANGED <<ticks, used, opened, source, broken, failed, sent, events>>

\* A faulty route that ends a broken stream like a complete one.
StreamBreaksSilently(m) ==
    /\ At(m, "streaming")
    /\ broken' = broken \cup {m}
    /\ Closes(m)
    /\ To(m, "emit") /\ Shows(m, "finished")
    /\ UNCHANGED <<ticks, used, opened, failed, sent, events>>

\* Time-out, transport error or too many bytes: safe_stream appends an error
\* event, the chat stream is cut off.
StreamBreaks(m) ==
    /\ At(m, "streaming")
    /\ broken' = broken \cup {m}
    /\ Closes(m)
    /\ To(m, "emit")
    /\ Shows(m, IF msg[m].route = "responses" THEN "error" ELSE "cut")
    /\ UNCHANGED <<ticks, used, opened, failed, sent, events>>

\* The client leaves.  A response is closed if it is being read at that moment;
\* a stream that waits for the client to take a chunk is left to the garbage
\* collector, and one that has not been read from has no one to close it.
ClientLeaves(m) ==
    /\ msg[m].pc \in {"sealed", "reading", "begun", "streaming"}
    /\ \/ msg[m].pc \in {"reading", "streaming"} /\ Closes(m)
       \/ msg[m].pc # "reading" /\ UNCHANGED source
    /\ To(m, "emit")
    /\ view' = [view EXCEPT ![m] = IF msg[m].pc = "begun" THEN "gone" ELSE "cut"]
    /\ UNCHANGED <<ticks, used, opened, broken, failed, sent, events>>

\* The event loop closes a stream that has been read from and that nobody holds.
Collect(m) ==
    /\ At(m, "ended") /\ source[m] = "open" /\ sent[m] > 0
    /\ Closes(m)
    /\ UNCHANGED <<ticks, msg, used, opened, broken, failed, sent, view, events>>

\* A faulty middleware that emits an event only for answers.
EmitIfAnswered(m) ==
    /\ At(m, "emit")
    /\ events' = [events EXCEPT ![m] = IF view[m] \in {"error", "finished"} THEN @ + 1 ELSE @]
    /\ To(m, "ended")
    /\ UNCHANGED <<ticks, used, opened, source, broken, failed, sent, view>>

\* The middleware's finally.
Emit(m) ==
    /\ At(m, "emit")
    /\ events' = [events EXCEPT ![m] = @ + 1]
    /\ To(m, "ended")
    /\ UNCHANGED <<ticks, used, opened, source, broken, failed, sent, view>>

Clock == ticks < MaxTicks /\ ticks' = ticks + 1
         /\ UNCHANGED <<msg, used, opened, source, broken, failed, sent, view, events>>

DeliveryNext == Clock \/ \E m \in Messages :
    \/ Reject(m) \/ Seal(m) \/ Send(m) \/ SendFails(m) \/ Replay(m)
    \/ ReadFails(m) \/ ReadJson(m) \/ StreamBegins(m) \/ Chunk(m) \/ StreamEnds(m)
    \/ ChatStops(m) \/ StreamBreaks(m) \/ ClientLeaves(m) \/ Emit(m) \/ Collect(m)

DeliverySpec == DeliveryInit /\ [][DeliveryNext]_deliveryVars

-----------------------------------------------------------------------------
(* Properties *)

\* Requests, receipts and responses have their types.
DeliveryTypeOK ==
    /\ ticks \in 0..MaxTicks
    /\ msg \in [Messages -> Message] /\ broken \subseteq Messages /\ failed \subseteq Messages
    /\ used \in [Messages -> Nat \cup {Nobody}]
    /\ opened \in [Messages -> Nat] /\ sent \in [Messages -> Nat] /\ events \in [Messages -> Nat]
    /\ source \in [Messages -> {"none", "open", "closed"}]
    /\ view \in [Messages -> {"none", "error", "finished", "cut", "gone"}]
    /\ Cardinality({m \in Messages : used[m] # Nobody}) <= MaxReplay

\* One receipt opens one downstream call, however late the sealed request is
\* presented again and however full the replay guard is.
NoReplay == \A m \in Messages : opened[m] <= 1

\* Every request that reached a route has exactly one operational event when
\* it has ended, whether it was refused, failed, was cut off or completed.
OneEventEach ==
    \A m \in Messages : events[m] = IF At(m, "ended") THEN 1 ELSE 0

\* The downstream response of a request that has ended is closed, except for a
\* stream nobody began to read, and for one that was left after it had been
\* read from: by a client that went away, or by the chat route at its end.
Released ==
    \A m \in Messages : At(m, "ended") /\ source[m] = "open" =>
        \/ view[m] = "gone" /\ sent[m] = 0
        \/ view[m] = "cut" /\ sent[m] > 0
        \/ view[m] = "finished" /\ sent[m] > 0 /\ msg[m].route = "chat"

\* A response that broke half way (time-out, transport, too many bytes) never
\* looks complete to the client, on either route.  One that itself reports a
\* failure or ends early does not either on the responses route; on the chat
\* route it does, since the conversion closes every source with "stop".
FailureIsVisible ==
    \A m \in Messages : view[m] = "finished" =>
        m \notin broken /\ (m \in failed => msg[m].route = "chat")

\* No client is sent more than the limit of a response.
SentIsBounded == \A m \in Messages : sent[m] <= MaxBytes

\* What the guarded delivery of a request promises (downstream.py, app.py): it
\* is sent once, ends in one event, frees its response, and a broken one shows.
DeliveredOnce == NoReplay /\ OneEventEach /\ Released /\ FailureIsVisible /\ SentIsBounded

=============================================================================
