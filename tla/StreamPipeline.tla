--------------------------- MODULE StreamPipeline ---------------------------
(***************************************************************************)
(* One streaming request: the chain of goroutines between the upstream     *)
(* body and the client's connection, and the handler at its end.           *)
(*                                                                         *)
(*   reader  readStream of the Chat and Google clients                     *)
(*   conv    ToCoreStream of the provider adapter, or                      *)
(*           coreResponseToCoreStream when the upstream call was not a     *)
(*           streaming one (an image or a search loop)                     *)
(*   tee     teeCoreUsage                                                  *)
(*   client  FromCoreStream of the inbound protocol's adapter              *)
(*   frames  framesFromOpenAIEvents (Responses ingress only)               *)
(*                                                                         *)
(* A stage holds in hand what it is sending.  A channel of capacity 0 is a *)
(* handover: the receiver takes the value out of the sender's hand.        *)
(***************************************************************************)
EXTENDS Naturals, Sequences, Selections

CONSTANTS Setups,    \* the kinds of request considered
          Chunks,    \* bound: events the upstream sends; the last one carries the usage
          ReadCap,   \* capacity of the channel readStream fills, 64 in the code
          EventCap,  \* capacity of the channel ToCoreStream fills, 64 in the code
          BufCap     \* chunks kept for replay and trace, 1024 in the code

(* The provider side is "chat" (Google is built the same way), "anthropic" *)
(* or "response", the synthetic stream; the tracer is on or off.           *)
AllSetups == [provider : {"chat", "anthropic", "response"},
              ingress : {"responses", "chat"}, traced : BOOLEAN]

ASSUME SetupsAssumption == Setups \subseteq AllSetups
ASSUME BoundsAssumption == /\ Chunks \in Nat \ {0} /\ ReadCap \in Nat \ {0}
                           /\ EventCap \in Nat \ {0} /\ BufCap \in Nat

VARIABLES
    setup,      \* what the request runs on, fixed when it is opened
    st,         \* per stage: "off", "run", "last" (sending its last event), "ended"
    hand, chan, \* per stage: what it is sending, and its buffered channel
    got,        \* upstream events read so far
    seen,       \* number of the last upstream event the conv stage has converted
    ctxDone,    \* the request context is cancelled
    link,       \* the client's connection: "up" or "broken"
    capture,    \* the provider stream buffer of ToCoreStream
    coreUsage,  \* coreStreamUsage, written by tee and read by the handler
    phase,      \* handler: "opened", "converted", "streaming", "settle", "replay", "trace", "done"
    written,    \* frames the client's connection accepted
    finalResp,  \* usage of the response.completed frame, NoResponse before it
    aborted,    \* streamAborted
    drain,      \* the goroutine of drainClientStream: "off", "run" or "ended"
    finalUsage, \* usage the request is recorded with
    replayed,   \* what the handler read from the provider stream buffer
    hooks       \* calls of onRequestCompleted

Provider == setup.provider
Ingress == setup.ingress
Traced == setup.traced

Stages == {"reader", "conv", "tee", "client", "frames"}
Source == IF Provider = "chat" THEN "reader" ELSE "conv"
Out == IF Ingress = "responses" THEN "frames" ELSE "client"
Input == [s \in Stages |-> CASE s = "conv" -> "reader" [] s = "tee" -> "conv"
                             [] s = "client" -> "tee" [] s = "frames" -> "client"
                             [] OTHER -> "none"]
Cap == [s \in Stages |-> CASE s = "reader" -> ReadCap
                           [] s = "conv" /\ Provider # "response" -> EventCap
                           [] OTHER -> 0]

(* What travels: upstream chunks and Core deltas by number, and the        *)
(* terminal events; n of a terminal event is the usage it carries, 0 none. *)
Item == [type : {"delta", "completed", "failed", "finish"}, n : 0..Chunks]
Delta(k) == [type |-> "delta", n |-> k]
Completed(u) == [type |-> "completed", n |-> u]
Failed == [type |-> "failed", n |-> 0]
FinishFrames == [type |-> "finish", n |-> 0]  \* finish_reason, usage and [DONE]
NoResponse == Chunks + 1

chain == <<st, hand, chan, got, seen, capture, coreUsage>>
handler == <<phase, written, finalResp, aborted, drain, finalUsage, replayed, hooks>>
vars == <<setup, chain, ctxDone, link, handler>>

TypeOK ==
    /\ setup \in Setups
    /\ st \in [Stages -> {"off", "run", "last", "ended"}]
    /\ hand \in [Stages -> Seq(Item)] /\ chan \in [Stages -> Seq(Item)]
    /\ \A s \in Stages : Len(chan[s]) <= Cap[s]
    /\ got \in 0..Chunks /\ seen \in 0..Chunks /\ coreUsage \in 0..Chunks /\ finalUsage \in 0..Chunks
    /\ ctxDone \in BOOLEAN /\ link \in {"up", "broken"}
    /\ capture \in Seq(0..Chunks) /\ Len(capture) <= BufCap /\ replayed \in Seq(0..Chunks)
    /\ phase \in {"opened", "converted", "streaming", "settle", "replay", "trace", "done"}
    /\ written \in Seq(Item) /\ finalResp \in 0..NoResponse
    /\ aborted \in BOOLEAN /\ drain \in {"off", "run", "ended"} /\ hooks \in 0..1

Init ==
    /\ setup \in Setups
    /\ st = [s \in Stages |-> IF s = "reader" /\ Provider = "chat" THEN "run" ELSE "off"]
    /\ hand = [s \in Stages |-> <<>>] /\ chan = [s \in Stages |-> <<>>]
    /\ got = 0 /\ seen = 0 /\ ctxDone = FALSE /\ link = "up"
    /\ capture = <<>> /\ coreUsage = 0 /\ phase = "opened" /\ written = <<>>
    /\ finalResp = NoResponse /\ aborted = FALSE /\ drain = "off"
    /\ finalUsage = 0 /\ replayed = <<>> /\ hooks = 0

-----------------------------------------------------------------------------
(* Channels *)

Ready(s) == IF Cap[s] = 0 THEN hand[s] # <<>> ELSE chan[s] # <<>>
Offered(s) == IF Cap[s] = 0 THEN Head(hand[s]) ELSE Head(chan[s])
Closed(s) == st[s] = "ended" /\ chan[s] = <<>>
Idle(s) == st[s] = "run" /\ hand[s] = <<>>

(* Stage s receives from its input channel and holds what it makes of it. *)
Receive(s, made) ==
    LET i == Input[s] IN
    /\ hand' = [hand EXCEPT ![i] = IF Cap[i] = 0 THEN Tail(@) ELSE @, ![s] = made]
    /\ chan' = [chan EXCEPT ![i] = IF Cap[i] = 0 THEN @ ELSE Tail(@)]

(* The handler or its drain goroutine receives the next frame. *)
ReceiveFrame == hand' = [hand EXCEPT ![Out] = Tail(@)] /\ UNCHANGED chan

(* A stage puts what it holds into its buffered channel. *)
Send(s) ==
    /\ Cap[s] > 0 /\ hand[s] # <<>> /\ Len(chan[s]) < Cap[s]
    /\ chan' = [chan EXCEPT ![s] = Append(@, Head(hand[s]))]
    /\ hand' = [hand EXCEPT ![s] = Tail(@)]
    /\ UNCHANGED <<setup, st, got, seen, capture, coreUsage, ctxDone, link,
                   handler>>

\* Mutant: an event is dropped when the channel is full.
GiveUpWhenFull(s) ==
    /\ hand[s] # <<>> /\ s \in {"reader", "conv"}
    /\ ctxDone \/ (s = "conv" /\ Len(chan[s]) >= Cap[s])
    /\ IF s = "reader" \/ Provider = "response"
       THEN hand' = [hand EXCEPT ![s] = <<>>] /\ st' = [st EXCEPT ![s] = "ended"]
       ELSE hand' = [hand EXCEPT ![s] = Tail(@)] /\ UNCHANGED st
    /\ UNCHANGED <<setup, chan, got, seen, capture, coreUsage, ctxDone, link,
                   handler>>

(* The other branch of the select: the context is done.  readStream and    *)
(* the synthetic stream return; the emit of the adapters drops the event.  *)
GiveUp(s) ==
    /\ ctxDone /\ hand[s] # <<>> /\ s \in {"reader", "conv"}
    /\ IF s = "reader" \/ Provider = "response"
       THEN hand' = [hand EXCEPT ![s] = <<>>] /\ st' = [st EXCEPT ![s] = "ended"]
       ELSE hand' = [hand EXCEPT ![s] = Tail(@)] /\ UNCHANGED st
    /\ UNCHANGED <<setup, chan, got, seen, capture, coreUsage, ctxDone, link,
                   handler>>

(* A stage that has sent its last event closes its channel. *)
Close(s) ==
    /\ st[s] = "last" /\ hand[s] = <<>>
    /\ st' = [st EXCEPT ![s] = "ended"]
    /\ UNCHANGED <<setup, hand, chan, got, seen, capture, coreUsage, ctxDone, link,
                   handler>>

End(s) == st' = [st EXCEPT ![s] = "ended"] /\ UNCHANGED hand
LastWords(s, items) == st' = [st EXCEPT ![s] = "last"] /\ hand' = [hand EXCEPT ![s] = items]

Captured(k) == IF Len(capture) < BufCap THEN Append(capture, k) ELSE capture

-----------------------------------------------------------------------------
(* Upstream and conversion *)

\* Mutant: the synthetic stream's completed event forgets the usage.
CoreEventNoUsage(k) == IF k = Chunks THEN Completed(0) ELSE Delta(k)

(* The Core event of the k-th upstream event, where the upstream marks its *)
(* own end (Anthropic's message_stop) or the response is complete.         *)
CoreEvent(k) == IF k = Chunks THEN Completed(k) ELSE Delta(k)

(* readStream scans the next data line. *)
ReadChunk ==
    /\ Source = "reader" /\ Idle("reader") /\ got < Chunks
    /\ got' = got + 1
    /\ hand' = [hand EXCEPT !["reader"] = <<Delta(got + 1)>>]
    /\ UNCHANGED <<setup, st, chan, seen, capture, coreUsage, ctxDone, link,
                   handler>>

(* The Anthropic adapter pulls the next event and looks at the context     *)
(* again before converting it; the synthetic stream takes the next block.  *)
PullEvent ==
    /\ Source = "conv" /\ Idle("conv") /\ got < Chunks
    /\ Provider = "anthropic" => ~ctxDone
    /\ got' = got + 1 /\ seen' = got + 1
    /\ hand' = [hand EXCEPT !["conv"] = <<CoreEvent(got + 1)>>]
    /\ capture' = IF Provider = "anthropic" THEN Captured(got + 1) ELSE capture
    /\ UNCHANGED <<setup, st, chan, coreUsage, ctxDone, link, handler>>

(* The body ends: the upstream has said all, breaks off, or its read fails *)
(* because the context is done.  Only the Anthropic stream tells a read    *)
(* error, which it reports with a failed event, from an end of file.       *)
SourceEnds ==
    /\ Idle(Source)
    /\ Provider = "response" => got = Chunks
    /\ \/ End(Source)
       \/ Provider = "anthropic" /\ got < Chunks /\ ~ctxDone /\ LastWords("conv", <<Failed>>)
    /\ UNCHANGED <<setup, chan, got, seen, capture, coreUsage, ctxDone, link,
                   handler>>

(* ToCoreStream of the Chat adapter converts one chunk. *)
ConvertChunk ==
    /\ Provider = "chat" /\ Idle("conv") /\ Ready("reader")
    /\ Receive("conv", <<Offered("reader")>>)
    /\ seen' = Offered("reader").n
    /\ capture' = Captured(Offered("reader").n)
    /\ UNCHANGED <<setup, st, got, coreUsage, ctxDone, link, handler>>

(* The chunk channel is closed: the zero chunk of the receive goes into    *)
(* the buffer, and a completed event carries the usage seen, if any.       *)
ChunksEnd ==
    /\ Provider = "chat" /\ Idle("conv") /\ Closed("reader")
    /\ capture' = Captured(0)
    /\ LastWords("conv", <<Completed(IF seen = Chunks THEN Chunks ELSE 0)>>)
    /\ UNCHANGED <<setup, chan, got, seen, coreUsage, ctxDone, link, handler>>

ConvCancelled ==
    /\ Provider = "chat" /\ Idle("conv") /\ ctxDone
    /\ End("conv")
    /\ UNCHANGED <<setup, chan, got, seen, capture, coreUsage, ctxDone, link,
                   handler>>

-----------------------------------------------------------------------------
(* Relays to the client *)

(* teeCoreUsage remembers the usage of every event that carries one. *)
Tee ==
    /\ Idle("tee") /\ Ready("conv")
    /\ LET e == Offered("conv") IN
       /\ Receive("tee", <<e>>)
       /\ coreUsage' = IF e.type = "completed" /\ e.n > 0 THEN e.n ELSE coreUsage
    /\ UNCHANGED <<setup, st, got, seen, capture, ctxDone, link, handler>>

(* The frames of a Core event: Chat Completions has none for the end of    *)
(* the response, which its loop reports after the last event.              *)
FramesOf(e) == IF Ingress = "chat" /\ e.type = "completed" THEN <<>> ELSE <<e>>

ClientEvent ==
    /\ Idle("client") /\ Ready("tee")
    /\ Receive("client", FramesOf(Offered("tee")))
    /\ UNCHANGED <<setup, st, got, seen, capture, coreUsage, ctxDone, link,
                   handler>>

Forward ==
    /\ Idle("frames") /\ Ready("client")
    /\ Receive("frames", <<Offered("client")>>)
    /\ UNCHANGED <<setup, st, got, seen, capture, coreUsage, ctxDone, link,
                   handler>>

(* The input channel of a relay is closed and empty. *)
RelayEnds(s) ==
    /\ s \in {"tee", "client", "frames"}
    /\ Idle(s) /\ Closed(Input[s]) /\ ~Ready(Input[s])
    /\ IF s = "client" /\ Ingress = "chat" THEN LastWords(s, <<FinishFrames>>) ELSE End(s)
    /\ UNCHANGED <<setup, chan, got, seen, capture, coreUsage, ctxDone, link,
                   handler>>

-----------------------------------------------------------------------------
(* The handler, handleAdapterStream *)

StartConv ==
    /\ phase = "opened"
    /\ phase' = "converted"
    /\ st' = [st EXCEPT !["conv"] = "run"]
    /\ UNCHANGED <<setup, hand, chan, got, seen, capture, coreUsage, ctxDone, link,
                   written, finalResp, aborted, drain, finalUsage, replayed, hooks>>

StartClient ==
    /\ phase = "converted"
    /\ phase' = "streaming"
    /\ st' = [s \in Stages |-> IF s \in {"tee", "client", Out} THEN "run" ELSE st[s]]
    /\ UNCHANGED <<setup, hand, chan, got, seen, capture, coreUsage, ctxDone, link,
                   written, finalResp, aborted, drain, finalUsage, replayed, hooks>>

(* An adapter is missing or a conversion fails: the error is written and   *)
(* the handler returns, which cancels the context.                         *)
Refuse ==
    /\ phase \in {"opened", "converted"}
    /\ phase' = "done" /\ ctxDone' = TRUE
    /\ UNCHANGED <<setup, chain, link, written, finalResp, aborted, drain,
                   finalUsage, replayed, hooks>>

\* Mutant: a failed write leaves the frames unread.
WriteFrameUndrained ==
    /\ phase = "streaming" /\ Ready(Out)
    /\ ReceiveFrame
    /\ LET f == Offered(Out) IN
       /\ finalResp' = IF Ingress = "responses" /\ f.type = "completed" THEN f.n ELSE finalResp
       /\ \/ written' = Append(written, f) /\ UNCHANGED <<phase, aborted>>
          \/ /\ link = "broken"
             /\ aborted' = TRUE /\ phase' = "settle"
             /\ UNCHANGED written
    /\ UNCHANGED <<setup, st, got, seen, capture, coreUsage, ctxDone, link, drain,
                   finalUsage, replayed, hooks>>

(* One frame: the usage is noted before the write, and a failed write      *)
(* leaves the rest to the drain goroutine.                                 *)
WriteFrame ==
    /\ phase = "streaming" /\ Ready(Out)
    /\ ReceiveFrame
    /\ LET f == Offered(Out) IN
       /\ finalResp' = IF Ingress = "responses" /\ f.type = "completed" THEN f.n ELSE finalResp
       /\ \/ written' = Append(written, f) /\ UNCHANGED <<phase, aborted, drain>>
          \/ /\ link = "broken"
             /\ aborted' = TRUE /\ drain' = "run" /\ phase' = "settle"
             /\ UNCHANGED written
    /\ UNCHANGED <<setup, st, got, seen, capture, coreUsage, ctxDone, link,
                   finalUsage, replayed, hooks>>

FramesEnd ==
    /\ phase = "streaming" /\ Closed(Out) /\ ~Ready(Out)
    /\ phase' = "settle"
    /\ UNCHANGED <<setup, chain, ctxDone, link, written, finalResp, aborted, drain,
                   finalUsage, replayed, hooks>>

(* The usage of the response, else what the tee captured, unless the tee   *)
(* may still be writing it.                                                *)
SettleUsage ==
    /\ phase = "settle"
    /\ phase' = "replay"
    /\ finalUsage' = IF finalResp # NoResponse THEN finalResp
                     ELSE IF aborted THEN 0 ELSE coreUsage
    /\ UNCHANGED <<setup, chain, ctxDone, link, written, finalResp, aborted, drain,
                   replayed, hooks>>

\* Mutant: the buffer is read without waiting for bufReady.
ReadBufferEarly ==
    /\ phase = "replay"
    /\ replayed' = IF Provider = "response" THEN <<>> ELSE capture
    /\ phase' = "trace"
    /\ UNCHANGED <<setup, chain, ctxDone, link, written, finalResp, aborted, drain,
                   finalUsage, hooks>>

(* The reasoning replay reads the provider stream buffer, which waits for  *)
(* bufReady; the synthetic stream has no buffer.                           *)
ReadBuffer ==
    /\ phase = "replay"
    /\ Provider # "response" => st["conv"] = "ended"
    /\ replayed' = IF Provider = "response" THEN <<>> ELSE capture
    /\ phase' = "trace"
    /\ UNCHANGED <<setup, chain, ctxDone, link, written, finalResp, aborted, drain,
                   finalUsage, hooks>>

(* The trace reads the client stream buffer of the Responses ingress,      *)
(* which waits for the client stage; then the hooks hear of the request    *)
(* and the handler returns.                                                *)
Return ==
    /\ phase = "trace"
    /\ (Traced /\ Ingress = "responses") => st["client"] = "ended"
    /\ hooks' = hooks + 1
    /\ phase' = "done" /\ ctxDone' = TRUE
    /\ UNCHANGED <<setup, chain, link, written, finalResp, aborted, drain,
                   finalUsage, replayed>>

Drain ==
    /\ drain = "run"
    /\ \/ Ready(Out) /\ ReceiveFrame /\ UNCHANGED drain
       \/ Closed(Out) /\ ~Ready(Out) /\ drain' = "ended" /\ UNCHANGED <<hand, chan>>
    /\ UNCHANGED <<setup, st, got, seen, capture, coreUsage, ctxDone, link, phase,
                   written, finalResp, aborted, finalUsage, replayed, hooks>>

-----------------------------------------------------------------------------
(* The client's connection breaks, and net/http cancels the context. *)
Break ==
    /\ link = "up" /\ phase # "done"
    /\ link' = "broken"
    /\ UNCHANGED <<setup, chain, ctxDone, handler>>

\* Mutant: the stream runs under a context of its own.
CancelDetached ==
    /\ phase = "done" /\ ~ctxDone
    /\ ctxDone' = TRUE
    /\ UNCHANGED <<setup, chain, link, handler>>

Cancel ==
    /\ link = "broken" /\ ~ctxDone
    /\ ctxDone' = TRUE
    /\ UNCHANGED <<setup, chain, link, handler>>

AllEnded == (\A s \in Stages : st[s] \in {"off", "ended"}) /\ drain # "run"

Next ==
    \/ ReadChunk \/ PullEvent \/ SourceEnds
    \/ ConvertChunk \/ ChunksEnd \/ ConvCancelled
    \/ Tee \/ ClientEvent \/ Forward
    \/ \E s \in Stages : Send(s) \/ GiveUp(s) \/ Close(s) \/ RelayEnds(s)
    \/ StartConv \/ StartClient \/ Refuse
    \/ WriteFrame \/ FramesEnd \/ SettleUsage \/ ReadBuffer \/ Return \/ Drain
    \/ Break \/ Cancel

Spec == Init /\ [][Next]_vars

(* A goroutine that can run is scheduled.  The upstream may stall, and a   *)
(* connected client may stop reading: neither is promised to go on.        *)
StageStep(s) == Send(s) \/ GiveUp(s) \/ Close(s) \/ RelayEnds(s)
Convert == ConvertChunk \/ ChunksEnd \/ ConvCancelled
HandlerStep == StartConv \/ StartClient \/ Refuse \/ FramesEnd \/ SettleUsage \/ ReadBuffer \/ Return

FairSpec ==
    /\ Spec
    /\ \A s \in Stages : WF_vars(StageStep(s))
    /\ WF_vars(Convert) /\ WF_vars(Tee) /\ WF_vars(ClientEvent) /\ WF_vars(Forward)
    /\ WF_vars(PullEvent /\ Provider = "response")
    /\ WF_vars(SourceEnds /\ (ctxDone \/ Provider = "response"))
    /\ WF_vars(HandlerStep) /\ WF_vars(WriteFrame /\ link = "broken")
    /\ WF_vars(Drain) /\ WF_vars(Cancel)

-----------------------------------------------------------------------------
(* Properties *)

Streamed == st["tee"] # "off"

(* The usage captured by the tee is read only when nobody writes it any    *)
(* more: a request without a response.completed frame is recorded with the *)
(* tee's last word, or with none when its stream was aborted; and when the *)
(* client stays connected the request is recorded with the usage the       *)
(* upstream reported, whichever ingress carried it (handleAdapterStream,   *)
(* teeCoreUsage).                                                          *)
UsageSettled ==
    /\ (phase \in {"replay", "trace", "done"} /\ Streamed /\ finalResp = NoResponse) =>
          \/ st["tee"] = "ended" /\ finalUsage = coreUsage
          \/ aborted /\ finalUsage = 0
    /\ (phase = "done" /\ link = "up" /\ Streamed /\ got = Chunks) => finalUsage = Chunks

(* A client that stays connected is sent every event the upstream sent,    *)
(* once and in order, through five goroutines and two buffered channels.   *)
EverythingDelivered ==
    phase = "done" /\ link = "up" /\ Streamed =>
        LET deltas == Selected(written, {f \in Item : f.type = "delta"})
            sent == IF Provider = "chat" THEN got ELSE IF got = Chunks THEN got - 1 ELSE got
        IN deltas = [k \in 1..sent |-> Delta(k)]

(* The reasoning replay reads a provider buffer that is complete up to its *)
(* capacity and that no goroutine is still appending to (StreamBuffer).    *)
ReplayExact ==
    phase \in {"trace", "done"} /\ Streamed /\ Provider # "response" =>
        /\ st["conv"] = "ended" /\ replayed = capture
        /\ link = "up" => \A k \in 1..got : k <= BufCap => replayed[k] = k

(* docs/extension-system.md: OnRequestCompleted is called after every      *)
(* completed request.                                                      *)
EveryRequestReported == phase = "done" => hooks = 1

(* Once the handler has returned, every goroutine of the request ends: no  *)
(* stage stays blocked on a channel nobody reads (drainClientStream).      *)
GoroutinesEnd == phase = "done" ~> AllEnded

(* A request whose client is gone comes to an end, even when the upstream  *)
(* stalls: the handler is never left waiting for a buffer.  One whose      *)
(* upstream has ended comes to an end when the client keeps reading.       *)
RequestReturns ==
    /\ link = "broken" ~> phase = "done"
    /\ WF_vars(WriteFrame) => (st[Source] = "ended" ~> phase = "done")

(* The chain of goroutines behaves as one queue between the converter and  *)
(* the client's connection.                                                *)
OnTheWay == hand["frames"] \o hand["client"]
            \o Selected(hand["tee"] \o chan["conv"] \o hand["conv"],
                        {e \in Item : FramesOf(e) # <<>>})

Delivery == INSTANCE StreamDelivery WITH
    Frames <- Item,
    produced <- written \o OnTheWay,
    delivered <- written,
    mode <- IF link = "broken" THEN "lost"
            ELSE IF phase # "done" THEN "live"
            ELSE IF Streamed THEN "over" ELSE "refused"

DeliveryImplemented == Delivery!Spec
=============================================================================
