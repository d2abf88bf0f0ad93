------------------------ MODULE StreamPipelineProofs ------------------------
(***************************************************************************)
(* What holds of a streaming request for every length of the stream, every *)
(* channel and buffer capacity and every kind of request.                  *)
(*                                                                         *)
(* IInv follows the events through the chain: what the stages and channels *)
(* hold, put after what was written, is always the Core events made so far.*)
(***************************************************************************)
EXTENDS StreamPipeline, SelectionProofs

---------------------------------------------------------------------------
(* The inductive invariant *)

Over(s) == st[s] \in {"last", "ended"}

\* Until the connection breaks or the request is refused.
Intact == link = "up" /\ (phase # "done" \/ Streamed)

StagesInv ==
    /\ \A s \in Stages :
          /\ Len(hand[s]) <= 1
          /\ st[s] \in {"off", "ended"} => hand[s] = <<>>
          /\ Cap[s] = 0 => chan[s] = <<>>
          /\ st[s] = "last" => s \in {"conv", "client"}
    /\ st["conv"] = "off" => chan["conv"] = <<>>
    /\ st["reader"] = "off" <=> Provider # "chat"
    /\ Ingress = "chat" => st["frames"] = "off"
    /\ st["client"] = "last" => Ingress = "chat"
    /\ st["tee"] = "ended" => st["conv"] = "ended" /\ chan["conv"] = <<>>
    /\ Over("client") => st["tee"] = "ended"
    /\ st["frames"] = "ended" => st["client"] = "ended"

PhaseInv ==
    /\ st["conv"] = "off" => phase \in {"opened", "done"} /\ ~Streamed
    /\ phase = "opened" => st["conv"] = "off"
    /\ ~Streamed <=> st["client"] = "off"
    /\ ~Streamed <=> st[Out] = "off"
    /\ phase \in {"opened", "converted"} => ~Streamed
    /\ phase \in {"streaming", "settle", "replay", "trace"} => Streamed
    /\ ~Streamed => written = <<>> /\ ~aborted /\ finalResp = NoResponse
    /\ phase = "done" => ctxDone
    /\ phase # "done" => hooks = 0
    /\ ctxDone => phase = "done" \/ link = "broken"
    /\ aborted => link = "broken" /\ phase \in {"settle", "replay", "trace", "done"}
    /\ drain # "off" => aborted
    /\ phase \in {"settle", "replay", "trace", "done"} /\ Streamed /\ ~aborted => st[Out] = "ended"
    /\ Ingress = "chat" => finalResp = NoResponse

\* What the handler settled.
SettledInv ==
    /\ phase \in {"replay", "trace", "done"} /\ Streamed =>
          finalUsage = IF finalResp # NoResponse THEN finalResp ELSE IF aborted THEN 0 ELSE coreUsage
    /\ phase \in {"trace", "done"} /\ Streamed =>
          IF Provider = "response" THEN replayed = <<>>
          ELSE st["conv"] = "ended" /\ replayed = capture

\* The chunks that the reader sent are the next ones that are converted.
ReaderInv ==
    IF Provider = "chat"
    THEN /\ got = seen + Len(chan["reader"]) + Len(hand["reader"])
         /\ \A i \in 1..Len(chan["reader"]) : chan["reader"][i] = Delta(seen + i)
         /\ hand["reader"] # <<>> => hand["reader"][1] = Delta(got)
         /\ Over("conv") => st["reader"] = "ended" /\ chan["reader"] = <<>>
    ELSE seen = got

CaptureInv ==
    Provider # "response" =>
        /\ \A k \in 1..seen : k <= BufCap => k <= Len(capture) /\ capture[k] = k
        /\ st["conv"] \in {"off", "run"} => Len(capture) = IF seen < BufCap THEN seen ELSE BufCap

\* The completed event has been made; what it carries; the deltas before it.
Emitted == IF Provider = "chat" THEN Over("conv") ELSE got = Chunks
Usage == IF Provider = "chat" /\ seen # Chunks THEN 0 ELSE Chunks
Deltas == IF Provider = "chat" THEN seen ELSE IF got = Chunks THEN Chunks - 1 ELSE got

Flow == written \o OnTheWay

FlowInv ==
    /\ Deltas <= Len(Flow)
    /\ \A i \in 1..Len(Flow) : IF i <= Deltas THEN Flow[i] = Delta(i) ELSE Flow[i].type # "delta"
    /\ ~Emitted /\ ~Over("conv") => Len(Flow) = Deltas
    /\ \A i \in 1..Len(Flow) : Flow[i].type = "completed" => Emitted /\ Flow[i].n = Usage
    /\ Emitted /\ Ingress = "responses" => \E i \in 1..Len(Flow) : Flow[i].type = "completed"

FinalInv ==
    Ingress = "responses" =>
       \/ /\ finalResp = NoResponse
          /\ \A i \in 1..Len(written) : written[i].type # "completed"
       \/ \E i \in 1..Len(written) : written[i].type = "completed" /\ finalResp = written[i].n

\* What is on its way from the converter to the tee.
Held(e) == hand["conv"] = <<e>> \/ \E i \in 1..Len(chan["conv"]) : chan["conv"][i] = e

\* Until the tee has noted it, the completed event is before it.
TeeInv ==
    /\ \A e \in Item : Held(e) /\ e.type = "completed" => Emitted /\ e.n = Usage
    /\ Emitted /\ Usage = Chunks => coreUsage = Chunks \/ Held(Completed(Chunks))

\* Everything below is said of requests whose client has not been lost.
IInv == /\ TypeOK /\ StagesInv /\ PhaseInv /\ SettledInv
        /\ Intact => ReaderInv /\ CaptureInv /\ FlowInv /\ FinalInv /\ TeeInv

---------------------------------------------------------------------------
(* Types *)

LEMMA Setup ==
    ASSUME TypeOK
    PROVE  /\ Provider \in {"chat", "anthropic", "response"} /\ Ingress \in {"responses", "chat"}
           /\ Cap["reader"] = ReadCap /\ Cap["conv"] = (IF Provider = "response" THEN 0 ELSE EventCap)
           /\ Cap["tee"] = 0 /\ Cap["client"] = 0 /\ Cap["frames"] = 0
           /\ \A s \in Stages : Cap[s] \in Nat
           /\ Input["conv"] = "reader" /\ Input["tee"] = "conv" /\ Input["client"] = "tee"
           /\ Input["frames"] = "client"
<1>1. setup.provider \in {"chat", "anthropic", "response"} /\ setup.ingress \in {"responses", "chat"}
  BY SetupsAssumption DEF TypeOK, AllSetups
<1> QED BY <1>1, BoundsAssumption DEF Provider, Ingress, Cap, Input, Stages

LEMMA ItemFacts ==
    ASSUME TypeOK
    PROVE  /\ \A k \in 0..Chunks : Delta(k) \in Item /\ Completed(k) \in Item
           /\ Failed \in Item /\ FinishFrames \in Item
           /\ \A k \in 0..Chunks : CoreEvent(k) \in Item
           /\ \A e \in Item : FramesOf(e) \in Seq(Item) /\ Len(FramesOf(e)) <= 1
           /\ Chunks \in Nat
<1>1. Chunks \in Nat /\ 0 \in 0..Chunks
  BY BoundsAssumption
<1>2. /\ \A k \in 0..Chunks : Delta(k) \in Item /\ Completed(k) \in Item
      /\ Failed \in Item /\ FinishFrames \in Item
  BY <1>1 DEF Delta, Completed, Failed, FinishFrames, Item
<1>3. \A k \in 0..Chunks : CoreEvent(k) \in Item
  BY <1>2 DEF CoreEvent
<1>4. ASSUME NEW e \in Item PROVE FramesOf(e) \in Seq(Item) /\ Len(FramesOf(e)) <= 1
  <2>1. FramesOf(e) = <<>> \/ FramesOf(e) = <<e>>
    BY DEF FramesOf
  <2>2. <<e>> \in Seq(Item) /\ Len(<<e>>) = 1
    OBVIOUS
  <2>3. <<>> \in Seq(Item) /\ Len(<<>>) = 0
    BY EmptySeq
  <2>4. PICK m : m = FramesOf(e)
    OBVIOUS
  <2>5. m \in Seq(Item) /\ (Len(m) = 0 \/ Len(m) = 1)
    BY <2>1, <2>2, <2>3, <2>4
  <2>6. Len(m) <= 1
    <3>1. Len(m) \in {0, 1}
      BY <2>5
    <3>2. \A n \in {0, 1} : n <= 1
      OBVIOUS
    <3> QED BY <3>1, <3>2, Zenon
  <2> QED BY <2>4, <2>5, <2>6
<1> QED BY <1>1, <1>2, <1>3, <1>4

\* A stage holds one item at most.
LEMMA HoldsOne ==
    ASSUME TypeOK, StagesInv, NEW s \in Stages, hand[s] # <<>>
    PROVE  \E x \in Item : hand[s] = <<x>>
<1>1. PICK h : h = hand[s]
  OBVIOUS
<1>2. h \in Seq(Item) /\ Len(h) <= 1 /\ h # <<>>
  BY <1>1 DEF TypeOK, StagesInv
<1>3. Len(h) = 1 /\ h[1] \in Item
  BY <1>2, EmptySeq, ElementOfSeq
<1>4. h = <<h[1]>>
  BY <1>2, <1>3
<1> QED BY <1>1, <1>3, <1>4

LEMMA OneItem ==
    ASSUME NEW x
    PROVE  Head(<<x>>) = x /\ Tail(<<x>>) = <<>> /\ Len(<<x>>) = 1 /\ <<x>> # <<>>
  OBVIOUS

LEMMA OfferedItem ==
    ASSUME TypeOK, NEW s \in Stages, Ready(s)
    PROVE  Offered(s) \in Item
<1>1. hand[s] \in Seq(Item) /\ chan[s] \in Seq(Item)
  BY DEF TypeOK
<1>2. ASSUME NEW c \in Seq(Item), c # <<>> PROVE Head(c) \in Item
  BY <1>2, HeadTailProperties
<1>3. \/ hand[s] # <<>> /\ Offered(s) = Head(hand[s])
      \/ chan[s] # <<>> /\ Offered(s) = Head(chan[s])
  BY DEF Ready, Offered
<1> QED BY <1>1, <1>2, <1>3

\* A receive from a handover empties the sender's hand, one from a buffered
\* channel takes its oldest item.
LEMMA Received ==
    ASSUME TypeOK, StagesInv, NEW s \in Stages, NEW i \in Stages, i = Input[s], i # s,
           NEW made \in Seq(Item), Ready(i), Receive(s, made)
    PROVE  /\ Offered(i) \in Item
           /\ hand' \in [Stages -> Seq(Item)] /\ chan' \in [Stages -> Seq(Item)]
           /\ \A x \in Stages : Len(chan'[x]) <= Cap[x]
           /\ hand'[s] = made
           /\ \A x \in Stages \ {i, s} : hand'[x] = hand[x]
           /\ \A x \in Stages \ {i} : chan'[x] = chan[x]
           /\ Cap[i] = 0 => hand[i] = <<Offered(i)>> /\ hand'[i] = <<>> /\ chan' = chan
           /\ Cap[i] > 0 => /\ hand'[i] = hand[i] /\ chan'[i] = Tail(chan[i])
                            /\ chan[i] # <<>> /\ Offered(i) = Head(chan[i])
<1>1. /\ hand \in [Stages -> Seq(Item)] /\ chan \in [Stages -> Seq(Item)]
      /\ \A x \in Stages : Len(chan[x]) <= Cap[x]
  BY DEF TypeOK
<1>2. /\ hand' = [hand EXCEPT ![i] = IF Cap[i] = 0 THEN Tail(@) ELSE @, ![s] = made]
      /\ chan' = [chan EXCEPT ![i] = IF Cap[i] = 0 THEN @ ELSE Tail(@)]
  BY DEF Receive
<1>3. Cap[i] \in Nat
  BY Setup
<1>4. CASE Cap[i] = 0
  <2>1. hand[i] # <<>> /\ Offered(i) = Head(hand[i])
    BY <1>4 DEF Ready, Offered
  <2>2. PICK x \in Item : hand[i] = <<x>>
    BY <2>1, HoldsOne
  <2>3. Offered(i) = x /\ Tail(hand[i]) = <<>> /\ <<>> \in Seq(Item)
    BY <2>1, <2>2, EmptySeq
  <2>4. hand' = [hand EXCEPT ![i] = <<>>, ![s] = made]
    BY <1>1, <1>2, <1>4, <2>3
  <2>5. chan' = chan
    BY <1>1, <1>2, <1>4
  <2> QED BY <1>1, <1>4, <2>2, <2>3, <2>4, <2>5, SMTT(20)
<1>5. CASE Cap[i] # 0
  <2>1. chan[i] # <<>> /\ Offered(i) = Head(chan[i])
    BY <1>5 DEF Ready, Offered
  <2>2. /\ Head(chan[i]) \in Item /\ Tail(chan[i]) \in Seq(Item)
        /\ Len(Tail(chan[i])) <= Cap[i]
    <3>1. PICK c : c = chan[i]
      OBVIOUS
    <3>2. c \in Seq(Item) /\ c # <<>> /\ Len(c) <= Cap[i]
      BY <1>1, <2>1, <3>1
    <3>3. Head(c) \in Item /\ Tail(c) \in Seq(Item) /\ Len(Tail(c)) = Len(c) - 1 /\ Len(c) \in Nat
      BY <3>2, HeadTailProperties, LenProperties
    <3> QED BY <1>3, <3>1, <3>2, <3>3
  <2>3. hand' = [hand EXCEPT ![s] = made]
    BY <1>1, <1>2, <1>5
  <2>4. chan' = [chan EXCEPT ![i] = Tail(chan[i])]
    BY <1>1, <1>2, <1>5
  <2> QED BY <1>1, <1>5, <2>1, <2>2, <2>3, <2>4
<1> QED BY <1>4, <1>5

LEMMA FrameReceived ==
    ASSUME TypeOK, StagesInv, Ready(Out), ReceiveFrame
    PROVE  /\ Offered(Out) \in Item /\ hand[Out] = <<Offered(Out)>>
           /\ hand' = [hand EXCEPT ![Out] = <<>>] /\ chan' = chan
           /\ hand' \in [Stages -> Seq(Item)]
<1>1. Out \in Stages /\ Cap[Out] = 0
  BY Setup DEF Out, Stages
<1>2. hand[Out] # <<>> /\ Offered(Out) = Head(hand[Out])
  BY <1>1 DEF Ready, Offered
<1>3. PICK x \in Item : hand[Out] = <<x>>
  BY <1>1, <1>2, HoldsOne
<1>4. Offered(Out) = x /\ Tail(hand[Out]) = <<>> /\ <<>> \in Seq(Item)
  BY <1>2, <1>3, EmptySeq
<1>5. hand' = [hand EXCEPT ![Out] = <<>>] /\ chan' = chan
  BY <1>4 DEF ReceiveFrame
<1>6. hand' \in [Stages -> Seq(Item)]
  BY <1>1, <1>4, <1>5 DEF TypeOK
<1> QED BY <1>3, <1>4, <1>5, <1>6

\* The part of TypeOK about the variables of the chain.
ChainTyped ==
    /\ st \in [Stages -> {"off", "run", "last", "ended"}]
    /\ hand \in [Stages -> Seq(Item)] /\ chan \in [Stages -> Seq(Item)]
    /\ \A s \in Stages : Len(chan[s]) <= Cap[s]
    /\ got \in 0..Chunks /\ seen \in 0..Chunks /\ coreUsage \in 0..Chunks
    /\ capture \in Seq(0..Chunks) /\ Len(capture) <= BufCap

HandlerTyped ==
    /\ finalUsage \in 0..Chunks /\ replayed \in Seq(0..Chunks)
    /\ phase \in {"opened", "converted", "streaming", "settle", "replay", "trace", "done"}
    /\ written \in Seq(Item) /\ finalResp \in 0..NoResponse
    /\ aborted \in BOOLEAN /\ drain \in {"off", "run", "ended"} /\ hooks \in 0..1

LEMMA TypeParts ==
    TypeOK <=> /\ setup \in Setups /\ ChainTyped /\ HandlerTyped
               /\ ctxDone \in BOOLEAN /\ link \in {"up", "broken"}
  BY DEF TypeOK, ChainTyped, HandlerTyped

LEMMA Kept ==
    ASSUME UNCHANGED setup
    PROVE  Provider' = Provider /\ Ingress' = Ingress /\ Cap' = Cap /\ Out' = Out /\ Source' = Source
  BY DEF Provider, Ingress, Cap, Out, Source

LEMMA CapturedTyped ==
    ASSUME TypeOK, NEW k \in 0..Chunks
    PROVE  Captured(k) \in Seq(0..Chunks) /\ Len(Captured(k)) <= BufCap
<1>1. capture \in Seq(0..Chunks) /\ Len(capture) <= BufCap /\ BufCap \in Nat /\ Len(capture) \in Nat
  BY BoundsAssumption, LenProperties DEF TypeOK
<1>2. CASE Len(capture) < BufCap
  <2>1. Append(capture, k) \in Seq(0..Chunks) /\ Len(Append(capture, k)) = Len(capture) + 1
    BY <1>1, AppendProperties
  <2> QED BY <1>1, <1>2, <2>1 DEF Captured
<1>3. CASE ~(Len(capture) < BufCap)
  BY <1>1, <1>3 DEF Captured
<1> QED BY <1>2, <1>3

LEMMA UpstreamTyped ==
    ASSUME TypeOK, StagesInv, ReadChunk \/ PullEvent \/ SourceEnds \/ ConvertChunk \/ ChunksEnd
                              \/ ConvCancelled
    PROVE  TypeOK'
<1>1. /\ ChainTyped /\ HandlerTyped /\ setup \in Setups
      /\ ctxDone \in BOOLEAN /\ link \in {"up", "broken"}
  BY TypeParts
<1>2. UNCHANGED <<setup, ctxDone, link, handler>>
  BY DEF ReadChunk, PullEvent, SourceEnds, ConvertChunk, ChunksEnd, ConvCancelled
<1>3. setup' \in Setups /\ HandlerTyped' /\ ctxDone' \in BOOLEAN /\ link' \in {"up", "broken"} /\ Cap' = Cap
  BY <1>1, <1>2, Kept DEF handler, HandlerTyped
<1>4. Chunks \in Nat /\ got \in 0..Chunks /\ seen \in 0..Chunks
  BY <1>1, BoundsAssumption DEF ChainTyped
<1>5. \A x \in Item : <<x>> \in Seq(Item)
  OBVIOUS
<1>6. CASE ReadChunk
  <2>1. got + 1 \in 0..Chunks /\ <<Delta(got + 1)>> \in Seq(Item)
    BY <1>4, <1>5, <1>6, ItemFacts DEF ReadChunk
  <2>2. ChainTyped'
    BY <1>1, <1>3, <1>6, <2>1 DEF ReadChunk, ChainTyped
  <2> QED BY <1>3, <2>2 DEF TypeOK, ChainTyped, HandlerTyped
<1>7. CASE PullEvent
  <2>1. got + 1 \in 0..Chunks /\ <<CoreEvent(got + 1)>> \in Seq(Item)
    BY <1>4, <1>5, <1>7, ItemFacts DEF PullEvent
  <2>2. capture' \in Seq(0..Chunks) /\ Len(capture') <= BufCap
    BY <1>1, <1>7, <2>1, CapturedTyped DEF PullEvent, ChainTyped
  <2>3. ChainTyped'
    BY <1>1, <1>3, <1>7, <2>1, <2>2 DEF PullEvent, ChainTyped
  <2> QED BY <1>3, <2>3 DEF TypeOK, ChainTyped, HandlerTyped
<1>8. CASE SourceEnds
  <2>1. Failed \in Item /\ Source \in Stages
    BY ItemFacts DEF Source, Stages
  <2>2. ChainTyped'
    BY <1>1, <1>3, <1>5, <1>8, <2>1 DEF SourceEnds, End, LastWords, ChainTyped
  <2> QED BY <1>3, <2>2 DEF TypeOK, ChainTyped, HandlerTyped
<1>9. CASE ConvertChunk
  <2>1. /\ Offered("reader") \in Item
        /\ hand' \in [Stages -> Seq(Item)] /\ chan' \in [Stages -> Seq(Item)]
        /\ \A x \in Stages : Len(chan'[x]) <= Cap[x]
    <3>1. "conv" \in Stages /\ "reader" \in Stages /\ "reader" = Input["conv"]
      BY Setup DEF Stages
    <3>2. Offered("reader") \in Item
      BY <1>9, <3>1, OfferedItem DEF ConvertChunk
    <3>3. <<Offered("reader")>> \in Seq(Item)
      BY <1>5, <3>2
    <3>4. Ready("reader") /\ Receive("conv", <<Offered("reader")>>)
      BY <1>9 DEF ConvertChunk
    <3> QED BY <3>1, <3>2, <3>3, <3>4, Received
  <2>2. Offered("reader").n \in 0..Chunks
    BY <2>1 DEF Item
  <2>3. seen' \in 0..Chunks /\ capture' \in Seq(0..Chunks) /\ Len(capture') <= BufCap
    BY <1>9, <2>2, CapturedTyped DEF ConvertChunk
  <2>4. ChainTyped'
    BY <1>1, <1>3, <1>9, <2>1, <2>3 DEF ConvertChunk, ChainTyped
  <2> QED BY <1>3, <2>4 DEF TypeOK, ChainTyped, HandlerTyped
<1>10. CASE ChunksEnd
  <2>1. 0 \in 0..Chunks /\ Chunks \in 0..Chunks
    BY <1>4
  <2>2. capture' \in Seq(0..Chunks) /\ Len(capture') <= BufCap
    BY <1>10, <2>1, CapturedTyped DEF ChunksEnd
  <2>3. Completed(IF seen = Chunks THEN Chunks ELSE 0) \in Item
    BY <2>1, ItemFacts
  <2>4. ChainTyped'
    BY <1>1, <1>3, <1>5, <1>10, <2>2, <2>3 DEF ChunksEnd, LastWords, ChainTyped
  <2> QED BY <1>3, <2>4 DEF TypeOK, ChainTyped, HandlerTyped
<1>11. CASE ConvCancelled
  <2>1. ChainTyped'
    BY <1>1, <1>3, <1>11 DEF ConvCancelled, End, ChainTyped
  <2> QED BY <1>3, <2>1 DEF TypeOK, ChainTyped, HandlerTyped
<1> QED BY <1>6, <1>7, <1>8, <1>9, <1>10, <1>11

LEMMA RelayTyped ==
    ASSUME TypeOK, StagesInv, Tee \/ ClientEvent \/ Forward
    PROVE  TypeOK'
<1>1. /\ ChainTyped /\ HandlerTyped /\ setup \in Setups
      /\ ctxDone \in BOOLEAN /\ link \in {"up", "broken"}
  BY TypeParts
<1>2. UNCHANGED <<setup, st, got, seen, capture, ctxDone, link, handler>>
  BY DEF Tee, ClientEvent, Forward
<1>3. setup' \in Setups /\ HandlerTyped' /\ ctxDone' \in BOOLEAN /\ link' \in {"up", "broken"} /\ Cap' = Cap
  BY <1>1, <1>2, Kept DEF handler, HandlerTyped
<1>4. \A x \in Item : <<x>> \in Seq(Item)
  OBVIOUS
<1>5. ASSUME NEW s \in Stages, NEW i \in Stages, i = Input[s], i # s, NEW made,
             made \in Seq(Item), Ready(i), Receive(s, made), coreUsage' \in 0..Chunks
      PROVE  TypeOK'
  <2>1. /\ hand' \in [Stages -> Seq(Item)] /\ chan' \in [Stages -> Seq(Item)]
        /\ \A x \in Stages : Len(chan'[x]) <= Cap[x]
    BY <1>5, Received
  <2>2. ChainTyped'
    BY <1>1, <1>2, <1>3, <1>5, <2>1 DEF ChainTyped
  <2> QED BY <1>3, <2>2 DEF TypeOK, ChainTyped, HandlerTyped
<1>6. Input["tee"] = "conv" /\ Input["client"] = "tee" /\ Input["frames"] = "client"
  BY Setup
<1>7. ASSUME NEW i \in Stages, Ready(i) PROVE Offered(i) \in Item
  BY <1>7, OfferedItem
<1>8. CASE Tee
  <2>1. Offered("conv") \in Item /\ Ready("conv")
    BY <1>7, <1>8 DEF Tee, Stages
  <2>2. PICK e : e = Offered("conv")
    OBVIOUS
  <2>3. /\ Receive("tee", <<e>>)
        /\ coreUsage' = IF e.type = "completed" /\ e.n > 0 THEN e.n ELSE coreUsage
    BY <1>8, <2>2 DEF Tee
  <2>4. coreUsage' \in 0..Chunks /\ <<e>> \in Seq(Item)
    BY <1>1, <1>4, <2>1, <2>2, <2>3 DEF Item, ChainTyped
  <2>5. "tee" \in Stages /\ "conv" \in Stages /\ "conv" # "tee"
    BY DEF Stages
  <2> QED BY <1>5, <1>6, <2>1, <2>3, <2>4, <2>5
<1>9. CASE ClientEvent
  <2>1. Offered("tee") \in Item /\ Ready("tee")
    BY <1>7, <1>9 DEF ClientEvent, Stages
  <2>2. FramesOf(Offered("tee")) \in Seq(Item) /\ coreUsage' \in 0..Chunks
    BY <1>1, <1>9, <2>1, ItemFacts DEF ClientEvent, ChainTyped
  <2>3. Receive("client", FramesOf(Offered("tee")))
    BY <1>9 DEF ClientEvent
  <2>4. "tee" \in Stages /\ "client" \in Stages /\ "client" # "tee"
    BY DEF Stages
  <2> QED BY <1>5, <1>6, <2>1, <2>2, <2>3, <2>4
<1>10. CASE Forward
  <2>1. Offered("client") \in Item /\ Ready("client")
    BY <1>7, <1>10 DEF Forward, Stages
  <2>2. <<Offered("client")>> \in Seq(Item) /\ coreUsage' \in 0..Chunks
    BY <1>1, <1>4, <1>10, <2>1 DEF Forward, ChainTyped
  <2>3. Receive("frames", <<Offered("client")>>)
    BY <1>10 DEF Forward
  <2>4. "frames" \in Stages /\ "client" \in Stages /\ "client" # "frames"
    BY DEF Stages
  <2> QED BY <1>5, <1>6, <2>1, <2>2, <2>3, <2>4
<1> QED BY <1>8, <1>9, <1>10

LEMMA Sent ==
    ASSUME TypeOK, StagesInv, NEW s \in Stages, Send(s)
    PROVE  \E x \in Item :
              /\ hand[s] = <<x>> /\ hand' = [hand EXCEPT ![s] = <<>>]
              /\ chan' = [chan EXCEPT ![s] = Append(chan[s], x)]
              /\ Cap[s] > 0 /\ Len(chan[s]) < Cap[s]
              /\ chan'[s] \in Seq(Item) /\ Len(chan'[s]) = Len(chan[s]) + 1
<1>1. PICK x \in Item : hand[s] = <<x>>
  BY HoldsOne DEF Send
<1>2. Head(hand[s]) = x /\ Tail(hand[s]) = <<>>
  BY <1>1
<1>3. /\ hand' = [hand EXCEPT ![s] = <<>>] /\ chan' = [chan EXCEPT ![s] = Append(chan[s], x)]
      /\ Cap[s] > 0 /\ Len(chan[s]) < Cap[s]
  BY <1>2 DEF Send
<1>4. chan \in [Stages -> Seq(Item)]
  BY DEF TypeOK
<1>5. chan[s] \in Seq(Item)
  BY <1>4
<1>6. Append(chan[s], x) \in Seq(Item) /\ Len(Append(chan[s], x)) = Len(chan[s]) + 1
  BY <1>5, AppendProperties
<1>7. chan'[s] = Append(chan[s], x)
  BY <1>3, <1>4
<1> QED BY <1>1, <1>3, <1>6, <1>7

\* The select drops what the stage holds; some stages stop there.
LEMMA Dropped ==
    ASSUME TypeOK, StagesInv, NEW s \in Stages, GiveUp(s)
    PROVE  /\ ctxDone /\ hand[s] # <<>> /\ s \in {"reader", "conv"}
           /\ hand' = [hand EXCEPT ![s] = <<>>]
           /\ IF s = "reader" \/ Provider = "response"
              THEN st' = [st EXCEPT ![s] = "ended"] ELSE UNCHANGED st
<1>1. ctxDone /\ hand[s] # <<>> /\ s \in {"reader", "conv"}
  BY DEF GiveUp
<1>2. PICK x \in Item : hand[s] = <<x>>
  BY <1>1, HoldsOne
<1>3. Tail(hand[s]) = <<>>
  BY <1>2
<1> QED BY <1>1, <1>3 DEF GiveUp

LEMMA StageTyped ==
    ASSUME TypeOK, StagesInv, NEW s \in Stages, Send(s) \/ GiveUp(s) \/ Close(s) \/ RelayEnds(s)
    PROVE  TypeOK'
<1>1. /\ ChainTyped /\ HandlerTyped /\ setup \in Setups
      /\ ctxDone \in BOOLEAN /\ link \in {"up", "broken"}
  BY TypeParts
<1>2. UNCHANGED <<setup, got, seen, capture, coreUsage, ctxDone, link, handler>>
  BY DEF Send, GiveUp, Close, RelayEnds
<1>3. setup' \in Setups /\ HandlerTyped' /\ ctxDone' \in BOOLEAN /\ link' \in {"up", "broken"} /\ Cap' = Cap
  BY <1>1, <1>2, Kept DEF handler, HandlerTyped
<1>4. <<>> \in Seq(Item) /\ <<FinishFrames>> \in Seq(Item)
  BY EmptySeq, ItemFacts
<1>5. CASE Send(s)
  <2>1. PICK x \in Item :
              /\ hand' = [hand EXCEPT ![s] = <<>>]
              /\ chan' = [chan EXCEPT ![s] = Append(chan[s], x)]
              /\ Len(chan[s]) < Cap[s]
              /\ chan'[s] \in Seq(Item) /\ Len(chan'[s]) = Len(chan[s]) + 1
    BY <1>5, Sent
  <2>2. Len(chan'[s]) <= Cap[s]
    <3>1. chan[s] \in Seq(Item) /\ Cap[s] \in Nat
      BY <1>1, Setup DEF ChainTyped
    <3>2. Len(chan[s]) \in Nat
      BY <3>1, LenProperties
    <3> QED BY <2>1, <3>1, <3>2
  <2>3. /\ hand' \in [Stages -> Seq(Item)] /\ chan' \in [Stages -> Seq(Item)]
        /\ \A r \in Stages : Len(chan'[r]) <= Cap[r]
    BY <1>1, <1>4, <2>1, <2>2 DEF ChainTyped
  <2>4. st' = st
    BY <1>5 DEF Send
  <2>5. ChainTyped'
    BY <1>1, <1>2, <1>3, <2>3, <2>4 DEF ChainTyped
  <2> QED BY <1>3, <2>5 DEF TypeOK, ChainTyped, HandlerTyped
<1>6. CASE GiveUp(s)
  <2>1. hand' = [hand EXCEPT ![s] = <<>>] /\ (st' = st \/ st' = [st EXCEPT ![s] = "ended"])
    BY <1>6, Dropped
  <2>2. chan' = chan
    BY <1>6 DEF GiveUp
  <2>3. ChainTyped'
    BY <1>1, <1>2, <1>3, <1>4, <2>1, <2>2 DEF ChainTyped
  <2> QED BY <1>3, <2>3 DEF TypeOK, ChainTyped, HandlerTyped
<1>7. CASE Close(s) \/ RelayEnds(s)
  <2>1. /\ chan' = chan /\ hand' \in [Stages -> Seq(Item)]
        /\ st' \in [Stages -> {"off", "run", "last", "ended"}]
    BY <1>1, <1>4, <1>7 DEF Close, RelayEnds, LastWords, End, ChainTyped
  <2>2. ChainTyped'
    BY <1>1, <1>2, <1>3, <2>1 DEF ChainTyped
  <2> QED BY <1>3, <2>2 DEF TypeOK, ChainTyped, HandlerTyped
<1> QED BY <1>5, <1>6, <1>7

LEMMA HandlerStepTyped ==
    ASSUME TypeOK, StagesInv, PhaseInv,
           \/ StartConv \/ StartClient \/ Refuse \/ WriteFrame \/ FramesEnd \/ SettleUsage
           \/ ReadBuffer \/ Return \/ Drain \/ Break \/ Cancel
    PROVE  TypeOK'
<1>1. /\ ChainTyped /\ HandlerTyped /\ setup \in Setups
      /\ ctxDone \in BOOLEAN /\ link \in {"up", "broken"}
  BY TypeParts
<1>2. UNCHANGED setup
  BY DEF StartConv, StartClient, Refuse, WriteFrame, FramesEnd, SettleUsage, ReadBuffer, Return,
         Drain, Break, Cancel
<1>3. setup' \in Setups /\ Cap' = Cap
  BY <1>1, <1>2, Kept
<1>4. Chunks \in Nat /\ NoResponse \in Nat
  BY BoundsAssumption DEF NoResponse
<1>5. CASE StartConv
  BY <1>1, <1>3, <1>5 DEF StartConv, TypeOK, ChainTyped, HandlerTyped
<1>6. CASE StartClient
  BY <1>1, <1>3, <1>6 DEF StartClient, TypeOK, ChainTyped, HandlerTyped
<1>7. CASE Refuse
  BY <1>1, <1>3, <1>7 DEF Refuse, TypeOK, ChainTyped, HandlerTyped, chain
<1>8. CASE WriteFrame
  <2>1. Offered(Out) \in Item /\ hand' \in [Stages -> Seq(Item)] /\ chan' = chan
    BY <1>8, FrameReceived DEF WriteFrame
  <2>2. Append(written, Offered(Out)) \in Seq(Item)
    BY <1>1, <2>1, AppendProperties DEF HandlerTyped
  <2>3. Offered(Out).n \in 0..NoResponse
    BY <1>4, <2>1 DEF Item, NoResponse
  <2>4. ChainTyped' /\ ctxDone' \in BOOLEAN /\ link' \in {"up", "broken"}
    BY <1>1, <1>3, <1>8, <2>1 DEF WriteFrame, ChainTyped
  <2>5. HandlerTyped'
    BY <1>1, <1>8, <2>2, <2>3 DEF WriteFrame, HandlerTyped, NoResponse
  <2> QED BY <1>3, <2>4, <2>5 DEF TypeOK, ChainTyped, HandlerTyped
<1>9. CASE FramesEnd
  BY <1>1, <1>3, <1>9 DEF FramesEnd, TypeOK, ChainTyped, HandlerTyped, chain
<1>10. CASE SettleUsage
  <2>1. finalUsage' \in 0..Chunks
    BY <1>1, <1>4, <1>10 DEF SettleUsage, HandlerTyped, ChainTyped, NoResponse
  <2> QED BY <1>1, <1>3, <1>10, <2>1 DEF SettleUsage, TypeOK, ChainTyped, HandlerTyped, chain
<1>11. CASE ReadBuffer
  <2>1. replayed' \in Seq(0..Chunks)
    BY <1>1, <1>11, EmptySeq DEF ReadBuffer, ChainTyped
  <2> QED BY <1>1, <1>3, <1>11, <2>1 DEF ReadBuffer, TypeOK, ChainTyped, HandlerTyped, chain
<1>12. CASE Return
  <2>1. hooks' \in 0..1
    BY <1>12 DEF Return, PhaseInv
  <2> QED BY <1>1, <1>3, <1>12, <2>1 DEF Return, TypeOK, ChainTyped, HandlerTyped, chain
<1>13. CASE Drain
  <2>1. hand' \in [Stages -> Seq(Item)] /\ chan' = chan /\ drain' \in {"off", "run", "ended"}
    BY <1>1, <1>13, FrameReceived DEF Drain, ChainTyped
  <2> QED BY <1>1, <1>3, <1>13, <2>1 DEF Drain, TypeOK, ChainTyped, HandlerTyped
<1>14. CASE Break
  BY <1>1, <1>3, <1>14 DEF Break, TypeOK, ChainTyped, HandlerTyped, chain, handler
<1>15. CASE Cancel
  BY <1>1, <1>3, <1>15 DEF Cancel, TypeOK, ChainTyped, HandlerTyped, chain, handler
<1> QED BY <1>5, <1>6, <1>7, <1>8, <1>9, <1>10, <1>11, <1>12, <1>13, <1>14, <1>15

---------------------------------------------------------------------------
(* The stages *)

\* The part of StagesInv about one stage, and the part about several.
StageOK(s) ==
    /\ Len(hand[s]) <= 1
    /\ st[s] \in {"off", "ended"} => hand[s] = <<>>
    /\ Cap[s] = 0 => chan[s] = <<>>
    /\ st[s] = "last" => s \in {"conv", "client"}

ChainOK ==
    /\ st["conv"] = "off" => chan["conv"] = <<>>
    /\ st["reader"] = "off" <=> Provider # "chat"
    /\ Ingress = "chat" => st["frames"] = "off"
    /\ st["client"] = "last" => Ingress = "chat"
    /\ st["tee"] = "ended" => st["conv"] = "ended" /\ chan["conv"] = <<>>
    /\ Over("client") => st["tee"] = "ended"
    /\ st["frames"] = "ended" => st["client"] = "ended"

LEMMA StagesParts ==
    StagesInv <=> (\A s \in Stages : StageOK(s)) /\ ChainOK
  BY DEF StagesInv, StageOK, ChainOK

\* A stage that neither moves nor is touched.
LEMMA StageKept ==
    ASSUME NEW s \in Stages, StageOK(s), UNCHANGED setup,
           hand'[s] = hand[s], chan'[s] = chan[s], st'[s] = st[s]
    PROVE  StageOK(s)'
<1>1. Cap' = Cap
  BY Kept
<1> QED BY <1>1 DEF StageOK

LEMMA UpstreamStages ==
    ASSUME TypeOK, StagesInv, PhaseInv, ReadChunk \/ PullEvent \/ SourceEnds \/ ConvertChunk
                                        \/ ChunksEnd \/ ConvCancelled
    PROVE  StagesInv'
<1>1. UNCHANGED setup /\ Provider' = Provider /\ Ingress' = Ingress /\ Cap' = Cap
  BY Kept DEF ReadChunk, PullEvent, SourceEnds, ConvertChunk, ChunksEnd, ConvCancelled
<1>2. /\ st \in [Stages -> {"off", "run", "last", "ended"}]
      /\ hand \in [Stages -> Seq(Item)] /\ chan \in [Stages -> Seq(Item)]
  BY DEF TypeOK
<1>3. (\A s \in Stages : StageOK(s)) /\ ChainOK
  BY StagesParts
<1>4. "reader" \in Stages /\ "conv" \in Stages /\ "tee" \in Stages /\ "client" \in Stages /\ "frames" \in Stages
  BY DEF Stages
<1>5. \A x : Len(<<x>>) <= 1
  OBVIOUS
<1>6. ASSUME NEW s \in Stages, \A r \in Stages \ {s} : hand'[r] = hand[r] /\ chan'[r] = chan[r] /\ st'[r] = st[r],
             StageOK(s)', ChainOK'
      PROVE  StagesInv'
  <2>1. ASSUME NEW r \in Stages PROVE StageOK(r)'
    BY <1>1, <1>3, <1>6, <2>1, StageKept
  <2> QED BY <1>6, <2>1 DEF StagesInv, StageOK, ChainOK
<1>7. CASE ReadChunk
  <2>1. /\ hand' = [hand EXCEPT !["reader"] = <<Delta(got + 1)>>] /\ chan' = chan /\ st' = st
        /\ st["reader"] = "run"
    BY <1>7 DEF ReadChunk, Idle
  <2>2. StageOK("reader")'
    BY <1>1, <1>2, <1>3, <1>4, <1>5, <2>1 DEF StageOK
  <2>3. ChainOK'
    BY <1>1, <1>3, <2>1 DEF ChainOK, Over
  <2> QED BY <1>2, <1>4, <1>6, <2>1, <2>2, <2>3
<1>8. CASE PullEvent
  <2>1. /\ hand' = [hand EXCEPT !["conv"] = <<CoreEvent(got + 1)>>] /\ chan' = chan /\ st' = st
        /\ st["conv"] = "run"
    BY <1>8 DEF PullEvent, Idle
  <2>2. StageOK("conv")'
    BY <1>1, <1>2, <1>3, <1>4, <1>5, <2>1 DEF StageOK
  <2>3. ChainOK'
    BY <1>1, <1>3, <2>1 DEF ChainOK, Over
  <2> QED BY <1>2, <1>4, <1>6, <2>1, <2>2, <2>3
<1>9. CASE SourceEnds
  <2>0. PICK o : o = Source
    OBVIOUS
  <2>1. Idle(o) /\ chan' = chan /\ o \in {"reader", "conv"} /\ (o = "reader" <=> Provider = "chat")
    BY <1>9, <2>0 DEF SourceEnds, Source
  <2>2. CASE End(o)
    <3>1. st' = [st EXCEPT ![o] = "ended"] /\ hand' = hand /\ hand[o] = <<>>
      BY <2>1, <2>2 DEF End, Idle
    <3>2. StageOK(o)'
      BY <1>1, <1>2, <1>3, <1>4, <2>1, <3>1 DEF StageOK
    <3>3. ChainOK'
      BY <1>1, <1>2, <1>3, <1>4, <2>1, <3>1 DEF ChainOK, Over, Idle
    <3> QED BY <1>2, <1>4, <1>6, <2>1, <3>1, <3>2, <3>3
  <2>3. CASE Provider = "anthropic" /\ LastWords("conv", <<Failed>>)
    <3>1. /\ st' = [st EXCEPT !["conv"] = "last"] /\ hand' = [hand EXCEPT !["conv"] = <<Failed>>]
          /\ st["conv"] = "run"
      BY <2>1, <2>3 DEF LastWords, Idle
    <3>2. StageOK("conv")'
      BY <1>1, <1>2, <1>3, <1>4, <1>5, <2>1, <3>1 DEF StageOK
    <3>3. ChainOK'
      BY <1>1, <1>2, <1>3, <1>4, <2>1, <2>3, <3>1 DEF ChainOK, Over
    <3> QED BY <1>2, <1>4, <1>6, <2>1, <3>1, <3>2, <3>3
  <2> QED BY <1>9, <2>0, <2>2, <2>3 DEF SourceEnds
<1>10. CASE ConvertChunk
  <2>1. /\ Provider = "chat" /\ st["conv"] = "run" /\ st' = st
        /\ Ready("reader") /\ Receive("conv", <<Offered("reader")>>)
    BY <1>10 DEF ConvertChunk, Idle
  <2>2. Cap["reader"] > 0 /\ Cap["reader"] # 0
    BY Setup, BoundsAssumption
  <2>3. /\ hand'["conv"] = <<Offered("reader")>> /\ hand'["reader"] = hand["reader"]
        /\ \A x \in Stages \ {"reader", "conv"} : hand'[x] = hand[x]
        /\ \A x \in Stages \ {"reader"} : chan'[x] = chan[x]
    <3>1. "reader" = Input["conv"] /\ <<Offered("reader")>> \in Seq(Item) /\ "reader" # "conv"
      BY <1>4, <2>1, Setup, OfferedItem
    <3> QED BY <1>4, <2>1, <2>2, <3>1, Received, ZenonT(60)
  <2>4. StageOK("conv")'
    BY <1>1, <1>2, <1>3, <1>4, <1>5, <2>1, <2>3 DEF StageOK
  <2>5. StageOK("reader")'
    BY <1>1, <1>2, <1>3, <1>4, <2>1, <2>2, <2>3 DEF StageOK
  <2>6. ChainOK'
    BY <1>1, <1>3, <1>4, <2>1, <2>3 DEF ChainOK, Over
  <2>7. ASSUME NEW r \in Stages PROVE StageOK(r)'
    BY <1>1, <1>3, <2>1, <2>3, <2>4, <2>5, <2>7, StageKept
  <2> QED BY <2>6, <2>7 DEF StagesInv, StageOK, ChainOK
<1>11. CASE ChunksEnd
  <2>1. PICK e : e = Completed(IF seen = Chunks THEN Chunks ELSE 0)
    OBVIOUS
  <2>2. /\ st' = [st EXCEPT !["conv"] = "last"] /\ hand' = [hand EXCEPT !["conv"] = <<e>>]
        /\ st["conv"] = "run" /\ chan' = chan
    BY <1>11, <2>1 DEF ChunksEnd, LastWords, Idle
  <2>3. StageOK("conv")'
    BY <1>1, <1>2, <1>3, <1>4, <1>5, <2>2 DEF StageOK
  <2>4. ChainOK'
    BY <1>1, <1>2, <1>3, <1>4, <2>2 DEF ChainOK, Over
  <2> QED BY <1>2, <1>4, <1>6, <2>2, <2>3, <2>4
<1>12. CASE ConvCancelled
  <2>1. /\ st' = [st EXCEPT !["conv"] = "ended"] /\ hand' = hand /\ chan' = chan
        /\ hand["conv"] = <<>> /\ st["conv"] = "run"
    BY <1>12 DEF ConvCancelled, End, Idle
  <2>2. StageOK("conv")'
    BY <1>1, <1>2, <1>3, <1>4, <2>1 DEF StageOK
  <2>3. ChainOK'
    BY <1>1, <1>2, <1>3, <1>4, <2>1 DEF ChainOK, Over
  <2> QED BY <1>2, <1>4, <1>6, <2>1, <2>2, <2>3
<1> QED BY <1>7, <1>8, <1>9, <1>10, <1>11, <1>12

LEMMA RelayStages ==
    ASSUME TypeOK, StagesInv, PhaseInv, Tee \/ ClientEvent \/ Forward
    PROVE  StagesInv'
<1>1. UNCHANGED setup /\ Provider' = Provider /\ Ingress' = Ingress /\ Cap' = Cap /\ UNCHANGED st
  BY Kept DEF Tee, ClientEvent, Forward
<1>2. /\ st \in [Stages -> {"off", "run", "last", "ended"}]
      /\ hand \in [Stages -> Seq(Item)] /\ chan \in [Stages -> Seq(Item)]
  BY DEF TypeOK
<1>3. (\A s \in Stages : StageOK(s)) /\ ChainOK
  BY StagesParts
<1>4. \A x \in Item : <<x>> \in Seq(Item) /\ Len(<<x>>) <= 1
  OBVIOUS
<1>5. ASSUME NEW s \in Stages, NEW i \in Stages, i = Input[s], i # s, NEW made \in Seq(Item),
             Len(made) <= 1, st[s] = "run", Ready(i), Receive(s, made),
             i = "conv" => Cap[i] = 0 \/ st[i] # "off" \/ chan[i] # <<>>
      PROVE  StagesInv'
  <2>1. /\ hand'[s] = made
        /\ \A x \in Stages \ {i, s} : hand'[x] = hand[x]
        /\ \A x \in Stages \ {i} : chan'[x] = chan[x]
        /\ Cap[i] = 0 => hand'[i] = <<>> /\ chan' = chan
        /\ Cap[i] > 0 => hand'[i] = hand[i] /\ chan'[i] = Tail(chan[i]) /\ chan[i] # <<>>
    BY <1>5, Received
  <2>2. StageOK(s)'
    BY <1>1, <1>3, <1>5, <2>1 DEF StageOK
  <2>3. StageOK(i)' /\ (chan[i] = <<>> => chan'[i] = <<>>)
    <3>1. CASE Cap[i] = 0
      <4>1. Len(hand'[i]) <= 1
        BY <2>1, <3>1, EmptySeq
      <4> QED BY <1>1, <1>3, <1>5, <2>1, <3>1, <4>1 DEF StageOK
    <3>2. CASE Cap[i] # 0
      <4>1. Cap[i] > 0
        BY <3>2, Setup
      <4>2. hand'[i] = hand[i] /\ chan[i] # <<>>
        BY <2>1, <4>1
      <4> QED BY <1>1, <1>3, <1>5, <3>2, <4>2 DEF StageOK
    <3> QED BY <3>1, <3>2
  <2>4. ASSUME NEW r \in Stages PROVE StageOK(r)' /\ (chan[r] = <<>> => chan'[r] = <<>>)
    <3>1. CASE r = i
      BY <2>3, <3>1
    <3>2. CASE r = s
      BY <1>5, <2>1, <2>2, <3>2
    <3>3. CASE r # i /\ r # s
      BY <1>1, <1>3, <2>1, <2>4, <3>3, StageKept
    <3> QED BY <3>1, <3>2, <3>3
  <2>5. "conv" \in Stages
    BY DEF Stages
  <2>6. ChainOK'
    BY <1>1, <1>3, <2>4, <2>5 DEF ChainOK, Over
  <2> QED BY <2>4, <2>6 DEF StagesInv, StageOK, ChainOK
<1>6. CASE Tee
  <2>1. Offered("conv") \in Item /\ Ready("conv") /\ Receive("tee", <<Offered("conv")>>) /\ st["tee"] = "run"
    BY <1>6, OfferedItem DEF Tee, Stages, Idle
  <2>2. Input["tee"] = "conv" /\ "tee" \in Stages /\ "conv" \in Stages /\ "conv" # "tee"
    BY Setup DEF Stages
  <2>3. Cap["conv"] = 0 \/ chan["conv"] # <<>>
    BY <2>1 DEF Ready
  <2> QED BY <1>4, <1>5, <2>1, <2>2, <2>3
<1>7. CASE ClientEvent
  <2>1. /\ Offered("tee") \in Item /\ Ready("tee") /\ Receive("client", FramesOf(Offered("tee")))
        /\ st["client"] = "run"
    BY <1>7, OfferedItem DEF ClientEvent, Stages, Idle
  <2>2. Input["client"] = "tee" /\ "tee" \in Stages /\ "client" \in Stages /\ "client" # "tee"
    BY Setup DEF Stages
  <2>3. FramesOf(Offered("tee")) \in Seq(Item) /\ Len(FramesOf(Offered("tee"))) <= 1
    BY <2>1, ItemFacts
  <2> QED BY <1>5, <2>1, <2>2, <2>3
<1>8. CASE Forward
  <2>1. /\ Offered("client") \in Item /\ Ready("client") /\ Receive("frames", <<Offered("client")>>)
        /\ st["frames"] = "run"
    BY <1>8, OfferedItem DEF Forward, Stages, Idle
  <2>2. Input["frames"] = "client" /\ "frames" \in Stages /\ "client" \in Stages /\ "client" # "frames"
    BY Setup DEF Stages
  <2> QED BY <1>4, <1>5, <2>1, <2>2
<1> QED BY <1>6, <1>7, <1>8

LEMMA StageStepStages ==
    ASSUME TypeOK, StagesInv, PhaseInv, NEW s \in Stages,
           Send(s) \/ GiveUp(s) \/ Close(s) \/ RelayEnds(s)
    PROVE  StagesInv'
<1>1. UNCHANGED setup /\ Provider' = Provider /\ Ingress' = Ingress /\ Cap' = Cap
  BY Kept DEF Send, GiveUp, Close, RelayEnds
<1>2. /\ st \in [Stages -> {"off", "run", "last", "ended"}]
      /\ hand \in [Stages -> Seq(Item)] /\ chan \in [Stages -> Seq(Item)]
  BY DEF TypeOK
<1>3. (\A r \in Stages : StageOK(r)) /\ ChainOK
  BY StagesParts
<1>4. "reader" \in Stages /\ "conv" \in Stages /\ "tee" \in Stages /\ "client" \in Stages /\ "frames" \in Stages
  BY DEF Stages
<1>5. Len(<<>>) <= 1 /\ Len(<<FinishFrames>>) <= 1
  BY EmptySeq
<1>6. ASSUME \A r \in Stages \ {s} : hand'[r] = hand[r] /\ chan'[r] = chan[r] /\ st'[r] = st[r],
             StageOK(s)', ChainOK'
      PROVE  StagesInv'
  <2>1. ASSUME NEW r \in Stages PROVE StageOK(r)'
    BY <1>1, <1>3, <1>6, <2>1, StageKept
  <2> QED BY <1>6, <2>1 DEF StagesInv, StageOK, ChainOK
<1>7. CASE Send(s)
  <2>1. PICK x \in Item :
              /\ hand[s] = <<x>> /\ hand' = [hand EXCEPT ![s] = <<>>]
              /\ chan' = [chan EXCEPT ![s] = Append(chan[s], x)] /\ Cap[s] > 0
    BY <1>7, Sent
  <2>2. st' = st /\ Cap[s] # 0 /\ hand[s] # <<>>
    BY <1>7, <2>1, Setup DEF Send
  <2>3. StageOK(s)'
    BY <1>1, <1>2, <1>3, <1>5, <2>1, <2>2 DEF StageOK
  <2>4. st["conv"] \in {"off", "ended"} => s # "conv"
    BY <1>3, <1>4, <2>2 DEF StageOK
  <2>5. ChainOK'
    BY <1>1, <1>2, <1>3, <1>4, <2>1, <2>2, <2>4 DEF ChainOK, Over
  <2> QED BY <1>2, <1>6, <2>1, <2>2, <2>3, <2>5
<1>8. CASE GiveUp(s)
  <2>1. /\ hand[s] # <<>> /\ s \in {"reader", "conv"} /\ hand' = [hand EXCEPT ![s] = <<>>]
        /\ st' = st \/ st' = [st EXCEPT ![s] = "ended"]
    BY <1>8, Dropped
  <2>2. chan' = chan
    BY <1>8 DEF GiveUp
  <2>3. st[s] \notin {"off", "ended"}
    BY <1>3, <2>1 DEF StageOK
  <2>4. StageOK(s)'
    BY <1>1, <1>2, <1>3, <1>5, <2>1, <2>2 DEF StageOK
  <2>5. ChainOK'
    BY <1>1, <1>2, <1>3, <1>4, <2>1, <2>2, <2>3 DEF ChainOK, Over
  <2> QED BY <1>2, <1>6, <2>1, <2>2, <2>4, <2>5
<1>9. CASE Close(s)
  <2>1. st[s] = "last" /\ hand[s] = <<>> /\ st' = [st EXCEPT ![s] = "ended"] /\ hand' = hand /\ chan' = chan
    BY <1>9 DEF Close
  <2>2. s \in {"conv", "client"}
    BY <1>3, <2>1 DEF StageOK
  <2>3. StageOK(s)'
    BY <1>1, <1>2, <1>3, <2>1 DEF StageOK
  <2>4. ChainOK'
    BY <1>1, <1>2, <1>3, <1>4, <2>1, <2>2 DEF ChainOK, Over
  <2> QED BY <1>2, <1>6, <2>1, <2>3, <2>4
<1>10. CASE RelayEnds(s)
  <2>1. /\ s \in {"tee", "client", "frames"} /\ st[s] = "run" /\ hand[s] = <<>>
        /\ st[Input[s]] = "ended" /\ chan[Input[s]] = <<>> /\ chan' = chan
    BY <1>10 DEF RelayEnds, Idle, Closed
  <2>2. CASE s = "client" /\ Ingress = "chat"
    <3>1. st' = [st EXCEPT ![s] = "last"] /\ hand' = [hand EXCEPT ![s] = <<FinishFrames>>]
      BY <1>10, <2>2 DEF RelayEnds, LastWords
    <3>2. StageOK(s)'
      BY <1>1, <1>2, <1>3, <1>5, <2>1, <2>2, <3>1 DEF StageOK
    <3>3. ChainOK'
      BY <1>1, <1>2, <1>3, <1>4, <2>1, <2>2, <3>1, Setup DEF ChainOK, Over
    <3> QED BY <1>2, <1>6, <2>1, <3>1, <3>2, <3>3
  <2>3. CASE ~(s = "client" /\ Ingress = "chat")
    <3>1. st' = [st EXCEPT ![s] = "ended"] /\ hand' = hand
      BY <1>10, <2>3 DEF RelayEnds, End
    <3>2. StageOK(s)'
      BY <1>1, <1>2, <1>3, <2>1, <3>1 DEF StageOK
    <3>3. ChainOK'
      BY <1>1, <1>2, <1>3, <1>4, <2>1, <2>3, <3>1, Setup, SMTT(20) DEF ChainOK, Over
    <3> QED BY <1>2, <1>6, <2>1, <3>1, <3>2, <3>3
  <2> QED BY <2>2, <2>3
<1> QED BY <1>7, <1>8, <1>9, <1>10

LEMMA HandlerStages ==
    ASSUME TypeOK, StagesInv, PhaseInv,
           \/ StartConv \/ StartClient \/ Refuse \/ WriteFrame \/ FramesEnd \/ SettleUsage
           \/ ReadBuffer \/ Return \/ Drain \/ Break \/ Cancel
    PROVE  StagesInv'
<1>1. UNCHANGED setup
  BY DEF StartConv, StartClient, Refuse, WriteFrame, FramesEnd, SettleUsage, ReadBuffer, Return,
         Drain, Break, Cancel
<1>2. Provider' = Provider /\ Ingress' = Ingress /\ Cap' = Cap
  BY <1>1, Kept
<1>3. (\A s \in Stages : StageOK(s)) /\ ChainOK
  BY StagesParts
<1>4. /\ st \in [Stages -> {"off", "run", "last", "ended"}]
      /\ hand \in [Stages -> Seq(Item)] /\ chan \in [Stages -> Seq(Item)]
  BY DEF TypeOK
<1>5. "reader" \in Stages /\ "conv" \in Stages /\ "tee" \in Stages /\ "client" \in Stages
      /\ "frames" \in Stages /\ Out \in Stages /\ Out \in {"client", "frames"}
      /\ (Out = "client" <=> Ingress = "chat")
  BY Setup DEF Stages, Out
<1>6. ASSUME hand' = hand, chan' = chan, st' = st PROVE StagesInv'
  <2>1. ASSUME NEW r \in Stages PROVE StageOK(r)'
    BY <1>1, <1>3, <1>6, <2>1, StageKept
  <2>2. ChainOK'
    BY <1>2, <1>3, <1>6 DEF ChainOK, Over
  <2> QED BY <2>1, <2>2 DEF StagesInv, StageOK, ChainOK
<1>7. ASSUME Ready(Out), ReceiveFrame, st' = st PROVE StagesInv'
  <2>1. hand' = [hand EXCEPT ![Out] = <<>>] /\ chan' = chan
    BY <1>7, FrameReceived
  <2>2. Len(<<>>) <= 1
    BY EmptySeq
  <2>3. ASSUME NEW r \in Stages PROVE StageOK(r)'
    <3>1. hand'[r] = hand[r] \/ hand'[r] = <<>>
      BY <1>4, <1>5, <2>1
    <3> QED BY <1>2, <1>3, <1>7, <2>1, <2>2, <3>1 DEF StageOK
  <2>4. ChainOK'
    BY <1>2, <1>3, <1>7, <2>1 DEF ChainOK, Over
  <2> QED BY <2>3, <2>4 DEF StagesInv, StageOK, ChainOK
<1>8. CASE StartConv
  <2>1. st["conv"] = "off" /\ st["tee"] = "off" /\ st["client"] = "off" /\ st["frames"] # "ended"
    BY <1>3, <1>8 DEF StartConv, PhaseInv, Streamed, ChainOK
  <2>2. st' = [st EXCEPT !["conv"] = "run"] /\ hand' = hand /\ chan' = chan
    BY <1>8 DEF StartConv
  <2>3. ASSUME NEW r \in Stages PROVE StageOK(r)'
    BY <1>2, <1>3, <1>4, <2>1, <2>2 DEF StageOK
  <2>4. ChainOK'
    BY <1>2, <1>3, <1>4, <1>5, <2>1, <2>2 DEF ChainOK, Over
  <2> QED BY <2>3, <2>4 DEF StagesInv, StageOK, ChainOK
<1>9. CASE StartClient
  <2>1. st["tee"] = "off" /\ st["client"] = "off" /\ st["frames"] # "ended"
    BY <1>3, <1>9 DEF StartClient, PhaseInv, Streamed, ChainOK
  <2>2. /\ st' = [s \in Stages |-> IF s \in {"tee", "client", Out} THEN "run" ELSE st[s]]
        /\ hand' = hand /\ chan' = chan
    BY <1>9 DEF StartClient
  <2>3. ASSUME NEW r \in Stages PROVE StageOK(r)'
    <3>1. st'[r] = st[r] \/ st'[r] = "run"
      BY <2>2
    <3> QED BY <1>2, <1>3, <2>2, <3>1 DEF StageOK
  <2>4. /\ st'["conv"] = st["conv"] /\ st'["reader"] = st["reader"]
        /\ st'["tee"] = "run" /\ st'["client"] = "run"
        /\ st'["frames"] = IF Ingress = "chat" THEN st["frames"] ELSE "run"
    BY <1>5, <2>2
  <2>5. ChainOK'
    BY <1>2, <1>3, <2>1, <2>2, <2>4 DEF ChainOK, Over
  <2> QED BY <2>3, <2>5 DEF StagesInv, StageOK, ChainOK
<1>10. CASE Refuse \/ FramesEnd \/ SettleUsage \/ ReadBuffer \/ Return \/ Break \/ Cancel
  BY <1>6, <1>10 DEF Refuse, FramesEnd, SettleUsage, ReadBuffer, Return, Break, Cancel, chain
<1>11. CASE WriteFrame
  BY <1>7, <1>11 DEF WriteFrame
<1>12. CASE Drain
  BY <1>6, <1>7, <1>12 DEF Drain
<1> QED BY <1>8, <1>9, <1>10, <1>11, <1>12

---------------------------------------------------------------------------
(* The handler *)

Upstream == ReadChunk \/ PullEvent \/ SourceEnds \/ ConvertChunk \/ ChunksEnd \/ ConvCancelled
Relays == Tee \/ ClientEvent \/ Forward
HandlerMove == \/ StartConv \/ StartClient \/ Refuse \/ WriteFrame \/ FramesEnd \/ SettleUsage
               \/ ReadBuffer \/ Return \/ Drain \/ Break \/ Cancel

ChainStep == Upstream \/ Relays \/ \E s \in Stages : Send(s) \/ GiveUp(s) \/ Close(s) \/ RelayEnds(s)

LEMMA Steps == Next <=> ChainStep \/ HandlerMove
  BY DEF Next, ChainStep, HandlerMove, Upstream, Relays

\* A stage that has ended stays ended, and nothing it wrote changes any more.
LEMMA ChainSteps ==
    ASSUME TypeOK, StagesInv, ChainStep
    PROVE  /\ UNCHANGED <<setup, ctxDone, link, handler>>
           /\ \A r \in Stages : /\ st'[r] = "off" <=> st[r] = "off"
                                /\ st[r] = "ended" => st'[r] = "ended"
           /\ st["conv"] = "ended" => capture' = capture
           /\ st["tee"] = "ended" => coreUsage' = coreUsage
<1>1. /\ st \in [Stages -> {"off", "run", "last", "ended"}]
      /\ \A s \in Stages : StageOK(s)
  BY StagesParts DEF TypeOK
<1>2. "conv" \in Stages /\ "reader" \in Stages /\ Source \in {"conv", "reader"}
  BY DEF Stages, Source
<1>3. CASE Upstream
  <2>1. UNCHANGED <<setup, ctxDone, link, handler, coreUsage>>
    BY <1>3 DEF Upstream, ReadChunk, PullEvent, SourceEnds, ConvertChunk, ChunksEnd, ConvCancelled
  <2>2. st["conv"] = "ended" => capture' = capture
    BY <1>3 DEF Upstream, ReadChunk, PullEvent, SourceEnds, ConvertChunk, ChunksEnd, ConvCancelled, Idle
  <2>3. \/ st' = st
        \/ \E s \in {"conv", "reader"} :
              st[s] = "run" /\ (st' = [st EXCEPT ![s] = "last"] \/ st' = [st EXCEPT ![s] = "ended"])
    <3>1. CASE ReadChunk \/ PullEvent \/ ConvertChunk
      BY <3>1 DEF ReadChunk, PullEvent, ConvertChunk
    <3>2. CASE SourceEnds
      <4>1. PICK o : o = Source
        OBVIOUS
      <4>2. Idle(o) /\ o \in {"conv", "reader"} /\ (Provider = "anthropic" => o = "conv")
        BY <1>2, <3>2, <4>1 DEF SourceEnds, Source
      <4>3. \/ st' = [st EXCEPT ![o] = "ended"]
            \/ Provider = "anthropic" /\ st' = [st EXCEPT !["conv"] = "last"]
        BY <3>2, <4>1 DEF SourceEnds, End, LastWords
      <4> QED BY <4>2, <4>3 DEF Idle
    <3>3. CASE ChunksEnd \/ ConvCancelled
      BY <3>3 DEF ChunksEnd, ConvCancelled, Idle, End, LastWords
    <3> QED BY <1>3, <3>1, <3>2, <3>3 DEF Upstream
  <2>4. \A r \in Stages : /\ st'[r] = "off" <=> st[r] = "off"
                          /\ st[r] = "ended" => st'[r] = "ended"
    BY <1>1, <1>2, <2>3
  <2> QED BY <2>1, <2>2, <2>4
<1>4. CASE Relays
  BY <1>4 DEF Relays, Tee, ClientEvent, Forward, Idle
<1>5. ASSUME NEW s \in Stages, Send(s) \/ GiveUp(s) \/ Close(s) \/ RelayEnds(s)
      PROVE  /\ UNCHANGED <<setup, ctxDone, link, handler, capture, coreUsage>>
             /\ \A r \in Stages : /\ st'[r] = "off" <=> st[r] = "off"
                                  /\ st[r] = "ended" => st'[r] = "ended"
  <2>1. UNCHANGED <<setup, ctxDone, link, handler, capture, coreUsage>>
    BY <1>5 DEF Send, GiveUp, Close, RelayEnds
  <2>2. \/ st' = st
        \/ /\ st[s] \notin {"off", "ended"}
           /\ st' = [st EXCEPT ![s] = "last"] \/ st' = [st EXCEPT ![s] = "ended"]
    <3>1. CASE Send(s)
      BY <3>1 DEF Send
    <3>2. CASE GiveUp(s)
      <4>1. hand[s] # <<>> /\ (st' = st \/ st' = [st EXCEPT ![s] = "ended"])
        BY <3>2, Dropped
      <4>2. st[s] \notin {"off", "ended"}
        BY <1>1, <4>1 DEF StageOK
      <4> QED BY <4>1, <4>2
    <3>3. CASE Close(s) \/ RelayEnds(s)
      BY <3>3 DEF Close, RelayEnds, Idle, End, LastWords
    <3> QED BY <1>5, <3>1, <3>2, <3>3
  <2> QED BY <1>1, <2>1, <2>2
<1> QED BY <1>3, <1>4, <1>5 DEF ChainStep

\* When the stage the handler reads has ended, so have those before it.
LEMMA OutEnded ==
    ASSUME TypeOK, StagesInv, st[Out] = "ended"
    PROVE  /\ st["client"] = "ended" /\ st["tee"] = "ended" /\ st["conv"] = "ended"
           /\ chan["conv"] = <<>> /\ st["frames"] \in {"off", "ended"}
  BY Setup DEF StagesInv, Over, Out

LEMMA ChainStepPhase ==
    ASSUME TypeOK, StagesInv, PhaseInv, SettledInv, ChainStep
    PROVE  PhaseInv' /\ SettledInv'
<1>1. /\ UNCHANGED <<setup, ctxDone, link, handler>>
      /\ \A r \in Stages : /\ st'[r] = "off" <=> st[r] = "off"
                           /\ st[r] = "ended" => st'[r] = "ended"
      /\ st["conv"] = "ended" => capture' = capture
      /\ st["tee"] = "ended" => coreUsage' = coreUsage
  BY ChainSteps
<1>2. Provider' = Provider /\ Ingress' = Ingress /\ Out' = Out
  BY <1>1, Kept
<1>3. "conv" \in Stages /\ "tee" \in Stages /\ "client" \in Stages /\ Out \in Stages
  BY DEF Stages, Out
<1>5. (Streamed' <=> Streamed) /\ (st'[Out] = "off" <=> st[Out] = "off")
      /\ (st[Out] = "ended" => st'[Out] = "ended") /\ (st'["client"] = "off" <=> st["client"] = "off")
      /\ (st'["conv"] = "off" <=> st["conv"] = "off") /\ (st["conv"] = "ended" => st'["conv"] = "ended")
  BY <1>1, <1>3 DEF Streamed
<1>6. PhaseInv'
  BY <1>1, <1>2, <1>5 DEF PhaseInv, handler, NoResponse
<1>7. SettledInv'
  <2>1. (phase \in {"replay", "trace", "done"} /\ Streamed /\ ~aborted) => coreUsage' = coreUsage
    BY <1>1, OutEnded DEF PhaseInv
  <2> QED BY <1>1, <1>2, <1>5, <2>1 DEF SettledInv, handler, NoResponse
<1> QED BY <1>6, <1>7

LEMMA HandlerPhase ==
    ASSUME TypeOK, StagesInv, PhaseInv, SettledInv, HandlerMove
    PROVE  PhaseInv' /\ SettledInv'
<1>1. UNCHANGED setup /\ UNCHANGED <<capture, coreUsage>>
  BY DEF HandlerMove, StartConv, StartClient, Refuse, WriteFrame, FramesEnd, SettleUsage, ReadBuffer,
         Return, Drain, Break, Cancel, chain
<1>2. Provider' = Provider /\ Ingress' = Ingress /\ Out' = Out
  BY <1>1, Kept
<1>3. "conv" \in Stages /\ "tee" \in Stages /\ "client" \in Stages /\ Out \in Stages
      /\ Out # "conv" /\ Out # "tee"
  BY DEF Stages, Out
<1>4. st \in [Stages -> {"off", "run", "last", "ended"}]
  BY DEF TypeOK
<1>5. ASSUME st' = st, PhaseInv PROVE Streamed' = Streamed /\ st'[Out'] = st[Out]
  BY <1>2, <1>5 DEF Streamed
<1>6. CASE StartConv
  <2>1. /\ phase = "opened" /\ phase' = "converted" /\ st' = [st EXCEPT !["conv"] = "run"]
        /\ UNCHANGED <<ctxDone, link, written, finalResp, aborted, drain, finalUsage, replayed, hooks>>
    BY <1>6 DEF StartConv
  <2>2. /\ st'["conv"] = "run" /\ st'["tee"] = st["tee"] /\ st'["client"] = st["client"]
        /\ st'[Out'] = st[Out]
    BY <1>2, <1>3, <1>4, <2>1
  <2>3. PhaseInv'
    BY <1>2, <2>1, <2>2 DEF PhaseInv, Streamed, NoResponse
  <2> QED BY <2>1, <2>3 DEF SettledInv
<1>7. CASE StartClient
  <2>1. /\ phase = "converted" /\ phase' = "streaming"
        /\ st' = [s \in Stages |-> IF s \in {"tee", "client", Out} THEN "run" ELSE st[s]]
        /\ UNCHANGED <<ctxDone, link, written, finalResp, aborted, drain, finalUsage, replayed, hooks>>
    BY <1>7 DEF StartClient
  <2>2. /\ st'["conv"] = st["conv"] /\ st'["tee"] = "run" /\ st'["client"] = "run"
        /\ st'[Out'] = "run"
    BY <1>2, <1>3, <2>1
  <2>3. PhaseInv'
    BY <1>2, <2>1, <2>2 DEF PhaseInv, Streamed, NoResponse
  <2> QED BY <2>1, <2>3 DEF SettledInv
<1>8. CASE Refuse
  <2>1. st' = st
    BY <1>8 DEF Refuse, chain
  <2>2. /\ st'["conv"] = st["conv"] /\ st'["tee"] = st["tee"] /\ st'["client"] = st["client"]
        /\ st'[Out'] = st[Out]
    BY <1>2, <2>1
  <2>3. PhaseInv'
    BY <1>2, <1>8, <2>2 DEF Refuse, PhaseInv, Streamed, NoResponse
  <2> QED BY <1>8, <2>2, <2>3 DEF Refuse, PhaseInv, SettledInv, Streamed
<1>9. CASE WriteFrame
  <2>1. /\ phase = "streaming" /\ st' = st /\ UNCHANGED <<ctxDone, link, finalUsage, replayed, hooks>>
        /\ finalResp' = IF Ingress = "responses" /\ Offered(Out).type = "completed"
                        THEN Offered(Out).n ELSE finalResp
        /\ \/ phase' = phase /\ aborted' = aborted /\ drain' = drain
           \/ link = "broken" /\ aborted' = TRUE /\ drain' = "run" /\ phase' = "settle"
    BY <1>9 DEF WriteFrame
  <2>2. /\ st'["conv"] = st["conv"] /\ st'["tee"] = st["tee"] /\ st'["client"] = st["client"]
        /\ st'[Out'] = st[Out]
    BY <1>2, <2>1
  <2>3. PhaseInv'
    BY <1>2, <2>1, <2>2 DEF PhaseInv, Streamed, NoResponse
  <2> QED BY <2>1, <2>3 DEF SettledInv
<1>10. CASE FramesEnd
  <2>1. /\ phase = "streaming" /\ st' = st /\ phase' = "settle" /\ st[Out] = "ended"
        /\ UNCHANGED <<ctxDone, link, written, finalResp, aborted, drain, finalUsage, replayed, hooks>>
    BY <1>10 DEF FramesEnd, chain, Closed
  <2>2. /\ st'["conv"] = st["conv"] /\ st'["tee"] = st["tee"] /\ st'["client"] = st["client"]
        /\ st'[Out'] = st[Out]
    BY <1>2, <2>1
  <2>3. PhaseInv'
    BY <1>2, <2>1, <2>2 DEF PhaseInv, Streamed, NoResponse
  <2> QED BY <2>1, <2>3 DEF SettledInv
<1>11. CASE SettleUsage \/ ReadBuffer \/ Return
  <2>1. /\ phase \in {"settle", "replay", "trace"} /\ phase' \in {"replay", "trace", "done"} /\ st' = st
        /\ (phase' = "done" => ctxDone') /\ (phase' # "done" => hooks' = hooks)
        /\ (ctxDone' # ctxDone => phase' = "done")
        /\ UNCHANGED <<link, written, finalResp, aborted, drain>>
    BY <1>11 DEF SettleUsage, ReadBuffer, Return, chain
  <2>2. /\ st'["conv"] = st["conv"] /\ st'["tee"] = st["tee"] /\ st'["client"] = st["client"]
        /\ st'[Out'] = st[Out]
    BY <1>2, <2>1
  <2>3. PhaseInv'
    BY <1>2, <2>1, <2>2 DEF PhaseInv, Streamed, NoResponse
  <2>4. CASE SettleUsage
    BY <1>1, <1>2, <2>2, <2>3, <2>4 DEF SettleUsage, SettledInv, Streamed, NoResponse
  <2>5. CASE ReadBuffer
    BY <1>1, <1>2, <2>2, <2>3, <2>5 DEF ReadBuffer, SettledInv, Streamed, NoResponse
  <2>6. CASE Return
    BY <1>1, <1>2, <2>2, <2>3, <2>6 DEF Return, SettledInv, Streamed, NoResponse
  <2> QED BY <1>11, <2>3, <2>4, <2>5, <2>6
<1>12. CASE Drain \/ Break \/ Cancel
  <2>1. /\ st' = st /\ UNCHANGED <<phase, written, finalResp, aborted, finalUsage, replayed, hooks>>
        /\ (drain' # drain => drain = "run") /\ (ctxDone' # ctxDone => link = "broken")
        /\ (link' # link => link' = "broken") /\ (phase = "done" => link' = link)
        /\ (ctxDone' = ctxDone \/ ctxDone' = TRUE)
    BY <1>12 DEF Drain, Break, Cancel, chain, handler
  <2>2. /\ st'["conv"] = st["conv"] /\ st'["tee"] = st["tee"] /\ st'["client"] = st["client"]
        /\ st'[Out'] = st[Out]
    BY <1>2, <2>1
  <2>3. link' = link \/ link' = "broken"
    BY <2>1
  <2>4. link = "broken" => link' = "broken"
    BY <2>1
  <2>5. PhaseInv'
    BY <1>2, <2>1, <2>2, <2>3, <2>4 DEF PhaseInv, Streamed, NoResponse
  <2> QED BY <1>1, <1>2, <2>1, <2>2, <2>5 DEF SettledInv, Streamed, NoResponse
<1> QED BY <1>6, <1>7, <1>8, <1>9, <1>10, <1>11, <1>12 DEF HandlerMove

\* TypeOK and what it takes to keep it, for every request.
Base == TypeOK /\ StagesInv /\ PhaseInv /\ SettledInv

LEMMA BaseKeeps ==
    ASSUME Base, [Next]_vars
    PROVE  Base'
<1>1. CASE ChainStep
  <2>1. TypeOK' /\ StagesInv'
    BY <1>1, UpstreamTyped, RelayTyped, StageTyped, UpstreamStages, RelayStages, StageStepStages
       DEF Base, ChainStep, Upstream, Relays
  <2> QED BY <1>1, <2>1, ChainStepPhase DEF Base
<1>2. CASE HandlerMove
  <2>1. TypeOK' /\ StagesInv'
    BY <1>2, HandlerStepTyped, HandlerStages DEF Base, HandlerMove
  <2> QED BY <1>2, <2>1, HandlerPhase DEF Base
<1>3. CASE UNCHANGED vars
  <2>1. UNCHANGED <<setup, st, hand, chan, got, seen, capture, coreUsage, ctxDone, link, phase, written,
                    finalResp, aborted, drain, finalUsage, replayed, hooks>>
    BY <1>3 DEF vars, chain, handler
  <2>2. Cap' = Cap /\ Provider' = Provider /\ Ingress' = Ingress /\ Out' = Out /\ Streamed' = Streamed
    BY <2>1, Kept DEF Streamed
  <2>3. TypeOK'
    BY <2>1, <2>2 DEF Base, TypeOK, NoResponse
  <2>4. StagesInv'
    BY <2>1, <2>2 DEF Base, StagesInv, Over
  <2>5. PhaseInv' /\ SettledInv'
    BY <2>1, <2>2 DEF Base, PhaseInv, SettledInv, NoResponse
  <2> QED BY <2>3, <2>4, <2>5 DEF Base
<1> QED BY <1>1, <1>2, <1>3, Steps

LEMMA BaseInit == Init => Base
<1> SUFFICES ASSUME Init PROVE Base
  OBVIOUS
<1>1. setup.provider \in {"chat", "anthropic", "response"} /\ setup.ingress \in {"responses", "chat"}
  BY SetupsAssumption DEF Init, AllSetups
<1>2. \A s \in Stages : Cap[s] \in Nat
  BY <1>1, BoundsAssumption DEF Cap, Stages, Provider
<1>3. Len(<<>>) = 0 /\ <<>> \in Seq(Item) /\ <<>> \in Seq(0..Chunks)
  BY EmptySeq
<1>4. \A n \in Nat : 0 <= n
  OBVIOUS
<1>5. TypeOK
  <2>1. \A s \in Stages : Len(chan[s]) <= Cap[s]
    <3>1. \A s \in Stages : chan[s] = <<>>
      BY DEF Init
    <3> QED BY <1>2, <1>3, <1>4, <3>1
  <2>2. Len(capture) <= BufCap
    BY <1>3, <1>4, BoundsAssumption DEF Init
  <2>3. 0 \in 0..Chunks /\ NoResponse \in 0..NoResponse /\ 0 \in 0..1
    BY BoundsAssumption DEF NoResponse
  <2>4. /\ st \in [Stages -> {"off", "run", "last", "ended"}]
        /\ hand \in [Stages -> Seq(Item)] /\ chan \in [Stages -> Seq(Item)]
    BY <1>3 DEF Init
  <2>5. capture \in Seq(0..Chunks) /\ replayed \in Seq(0..Chunks) /\ written \in Seq(Item)
    BY <1>3 DEF Init
  <2> QED BY <2>1, <2>2, <2>3, <2>4, <2>5 DEF Init, TypeOK
<1>6. StagesInv
  BY <1>1, <1>3, <1>5, Setup DEF Init, StagesInv, Over, Stages, Provider
<1>7. PhaseInv /\ SettledInv
  BY <1>1 DEF Init, PhaseInv, SettledInv, Streamed, Out, Stages
<1> QED BY <1>5, <1>6, <1>7 DEF Base

---------------------------------------------------------------------------
(* The chain as one queue *)

\* What waits for the client: the frames of the last two stages, then what the
\* tee, the channel of the converter and the converter have still to pass on.
Queue(a, b, c, d, e, A) == Join(Join(a, b), Selected(Join(Join(c, d), e), A))

LEMMA QueueTyped ==
    ASSUME NEW S, NEW a \in Seq(S), NEW b \in Seq(S), NEW c \in Seq(S), NEW d \in Seq(S),
           NEW e \in Seq(S), NEW A
    PROVE  Queue(a, b, c, d, e, A) \in Seq(S)
<1>1. Join(a, b) \in Seq(S) /\ Join(c, d) \in Seq(S)
  BY JoinTyped
<1>2. Join(Join(c, d), e) \in Seq(S)
  BY <1>1, JoinTyped
<1>3. Selected(Join(Join(c, d), e), A) \in Seq(S)
  BY <1>2, SelectedFacts
<1> QED BY <1>1, <1>3, JoinTyped DEF Queue

\* The converter takes something new in hand: it goes to the end.
LEMMA QueueNew ==
    ASSUME NEW S, NEW a \in Seq(S), NEW b \in Seq(S), NEW c \in Seq(S), NEW d \in Seq(S),
           NEW y \in Seq(S), NEW A
    PROVE  Queue(a, b, c, d, y, A) = Join(Queue(a, b, c, d, <<>>, A), Selected(y, A))
<1>1. Join(c, d) \in Seq(S) /\ Join(a, b) \in Seq(S)
  BY JoinTyped
<1>2. Selected(Join(c, d), A) \in Seq(S) /\ Selected(y, A) \in Seq(S)
  BY <1>1, SelectedFacts
<1>3. Join(Join(c, d), <<>>) = Join(c, d)
  BY <1>1, JoinEmpty
<1> QED BY <1>1, <1>2, <1>3, SelectedJoin, JoinAssociates DEF Queue

\* It puts what it holds into its channel.
LEMMA QueueSend ==
    ASSUME NEW S, NEW a, NEW b, NEW c \in Seq(S), NEW d \in Seq(S), NEW x \in S, NEW A
    PROVE  Queue(a, b, c, d, <<x>>, A) = Queue(a, b, c, Append(d, x), <<>>, A)
<1>0. PICK y : y = <<x>>
  OBVIOUS
<1>1. Append(d, x) = Join(d, y)
  BY <1>0, JoinAppend
<1>2. y \in Seq(S)
  BY <1>0
<1>3. Join(Join(c, d), y) = Join(c, Join(d, y)) /\ Join(d, y) \in Seq(S)
  BY <1>2, JoinAssociates, JoinTyped
<1>4. Join(c, Join(d, y)) \in Seq(S)
  BY <1>3, JoinTyped
<1>5. Join(Join(c, Join(d, y)), <<>>) = Join(c, Join(d, y))
  BY <1>4, JoinEmpty
<1> QED BY <1>0, <1>1, <1>3, <1>5 DEF Queue

LEMMA HeadFirst ==
    ASSUME NEW S, NEW s \in Seq(S), s # <<>>
    PROVE  s = Join(<<Head(s)>>, Tail(s))
<1>1. PICK x, t : x = Head(s) /\ t = Tail(s)
  OBVIOUS
<1>2. /\ x \in S /\ t \in Seq(S) /\ Len(t) = Len(s) - 1 /\ \A i \in 1..Len(t) : t[i] = s[i + 1]
      /\ Len(s) \in Nat /\ x = s[1] /\ Len(s) # 0
  BY <1>1, HeadTailProperties, LenProperties, EmptySeq
<1>0. PICK y : y = <<x>>
  OBVIOUS
<1>3. PICK u : u = Join(y, t)
  OBVIOUS
<1>4. y \in Seq(S) /\ Len(y) = 1 /\ y[1] = x
  BY <1>0, <1>2
<1>5. /\ u \in Seq(S) /\ Len(u) = 1 + Len(t)
      /\ \A i \in 1..(1 + Len(t)) : u[i] = IF i <= 1 THEN y[i] ELSE t[i - 1]
  <2>1. /\ u \in Seq(S) /\ Len(u) = Len(y) + Len(t)
        /\ \A i \in 1..(Len(y) + Len(t)) : u[i] = IF i <= Len(y) THEN y[i] ELSE t[i - Len(y)]
    <3>1. y \in Seq(S) /\ t \in Seq(S)
      BY <1>2, <1>4
    <3> QED BY <3>1, <1>3, JoinTyped
  <2> QED BY <1>4, <2>1
<1>6. Len(u) = Len(s)
  BY <1>2, <1>5
<1>7. ASSUME NEW i \in 1..Len(s) PROVE s[i] = u[i]
  <2>1. CASE i = 1
    BY <1>2, <1>4, <1>5, <1>6, <2>1
  <2>2. CASE i # 1
    <3>1. i - 1 \in 1..Len(t) /\ (i - 1) + 1 = i /\ ~(i <= 1) /\ i \in 1..(1 + Len(t))
      BY <1>2, <2>2
    <3>2. t[i - 1] = s[i]
      BY <1>2, <3>1
    <3> QED BY <1>5, <3>1, <3>2
  <2> QED BY <2>1, <2>2
<1>8. s = u
  BY <1>5, <1>6, <1>7, SeqEqual
<1> QED BY <1>0, <1>1, <1>3, <1>8

\* The tee takes the oldest item of the channel, or the one in hand.
LEMMA QueueTee ==
    ASSUME NEW S, NEW a, NEW b, NEW d \in Seq(S), NEW e \in Seq(S), d # <<>>, NEW A
    PROVE  Queue(a, b, <<>>, d, e, A) = Queue(a, b, <<Head(d)>>, Tail(d), e, A)
<1>1. Join(<<>>, d) = d
  BY JoinEmpty
<1>2. Join(<<Head(d)>>, Tail(d)) = d
  BY HeadFirst
<1> QED BY <1>1, <1>2 DEF Queue

LEMMA QueueHandover ==
    ASSUME NEW S, NEW a, NEW b, NEW x \in S, NEW A
    PROVE  Queue(a, b, <<>>, <<>>, <<x>>, A) = Queue(a, b, <<x>>, <<>>, <<>>, A)
<1>1. <<>> \in Seq(S) /\ <<x>> \in Seq(S)
  BY EmptySeq
<1>2. Join(<<>>, <<>>) = <<>> /\ Join(<<>>, <<x>>) = <<x>> /\ Join(<<x>>, <<>>) = <<x>>
  BY <1>1, JoinEmpty
<1> QED BY <1>2 DEF Queue

\* The client stage takes what the tee holds and makes its frames of it.
LEMMA QueueClient ==
    ASSUME NEW S, NEW a \in Seq(S), NEW d \in Seq(S), NEW e \in Seq(S), NEW y \in Seq(S), NEW A
    PROVE  Queue(a, <<>>, y, d, e, A) = Queue(a, Selected(y, A), <<>>, d, e, A)
<1>1. Join(a, <<>>) = a /\ Join(<<>>, d) = d /\ Join(d, e) \in Seq(S)
  BY JoinEmpty, JoinTyped
<1>2. Join(Join(y, d), e) = Join(y, Join(d, e))
  BY JoinAssociates
<1>3. Selected(Join(y, Join(d, e)), A) = Join(Selected(y, A), Selected(Join(d, e), A))
  BY <1>1, SelectedJoin
<1>4. Selected(y, A) \in Seq(S) /\ Selected(Join(d, e), A) \in Seq(S)
  BY <1>1, SelectedFacts
<1>5. Join(a, Join(Selected(y, A), Selected(Join(d, e), A))) = Join(Join(a, Selected(y, A)), Selected(Join(d, e), A))
  BY <1>4, JoinAssociates
<1> QED BY <1>1, <1>2, <1>3, <1>5 DEF Queue

LEMMA QueueForward ==
    ASSUME NEW S, NEW x \in S, NEW c, NEW d, NEW e, NEW A
    PROVE  Queue(<<>>, <<x>>, c, d, e, A) = Queue(<<x>>, <<>>, c, d, e, A)
<1>1. <<x>> \in Seq(S)
  OBVIOUS
<1>2. Join(<<>>, <<x>>) = <<x>> /\ Join(<<x>>, <<>>) = <<x>>
  BY <1>1, JoinEmpty
<1> QED BY <1>2 DEF Queue

\* The handler takes the first frame.
LEMMA QueueFirst ==
    ASSUME NEW S, NEW b \in Seq(S), NEW c \in Seq(S), NEW d \in Seq(S), NEW e \in Seq(S),
           NEW y \in Seq(S), NEW A
    PROVE  /\ Queue(y, b, c, d, e, A) = Join(y, Queue(<<>>, b, c, d, e, A))
           /\ Queue(<<>>, y, c, d, e, A) = Join(y, Queue(<<>>, <<>>, c, d, e, A))
<1>1. Join(c, d) \in Seq(S)
  BY JoinTyped
<1>2. Join(Join(c, d), e) \in Seq(S)
  BY <1>1, JoinTyped
<1>3. PICK t : t = Selected(Join(Join(c, d), e), A)
  OBVIOUS
<1>4. t \in Seq(S) /\ <<>> \in Seq(S)
  BY <1>2, <1>3, SelectedFacts, EmptySeq
<1>5. /\ Join(<<>>, b) = b /\ Join(<<>>, y) = y /\ Join(<<>>, <<>>) = <<>> /\ Join(<<>>, t) = t
  BY <1>4, JoinEmpty
<1>6. Join(Join(y, b), t) = Join(y, Join(b, t))
  BY <1>4, JoinAssociates
<1> QED BY <1>3, <1>5, <1>6 DEF Queue

LEMMA QueueEmpty ==
    ASSUME NEW A
    PROVE  Queue(<<>>, <<>>, <<>>, <<>>, <<>>, A) = <<>>
<1>1. Join(<<>>, <<>>) = <<>>
  BY EmptySeq, JoinEmpty
<1> QED BY <1>1, SelectedNone DEF Queue

LEMMA QueueLone ==
    ASSUME NEW S, NEW y \in Seq(S), NEW A
    PROVE  Queue(<<>>, y, <<>>, <<>>, <<>>, A) = y
<1>1. Join(<<>>, <<>>) = <<>>
  BY EmptySeq, JoinEmpty
<1>2. Join(<<>>, y) = y /\ Join(y, <<>>) = y
  BY JoinEmpty
<1> QED BY <1>1, <1>2, SelectedNone DEF Queue

---------------------------------------------------------------------------
(* What a stream looks like *)

\* d deltas, in order, then other events; em says whether the completed event
\* has been made, which carries us and has a frame when framed.
Streams(F, d, em, us, run, framed) ==
    /\ d <= Len(F)
    /\ \A i \in 1..Len(F) : IF i <= d THEN F[i] = Delta(i) ELSE F[i].type # "delta"
    /\ run => Len(F) = d
    /\ \A i \in 1..Len(F) : F[i].type = "completed" => em /\ F[i].n = us
    /\ em /\ framed => \E i \in 1..Len(F) : F[i].type = "completed"

LEMMA StreamAfter ==
    ASSUME NEW F \in Seq(Item), NEW x \in Item
    PROVE  /\ F \o <<x>> \in Seq(Item) /\ Len(F \o <<x>>) = Len(F) + 1 /\ Len(F) \in Nat
           /\ \A i \in 1..Len(F) : (F \o <<x>>)[i] = F[i]
           /\ (F \o <<x>>)[Len(F) + 1] = x
           /\ F \o <<x>> = Append(F, x)
<1>1. F \o <<x>> = Append(F, x)
  BY AppendIsConcat
<1> QED BY <1>1, AppendProperties, LenProperties

LEMMA StreamDelta ==
    ASSUME NEW F \in Seq(Item), NEW d \in Nat, NEW us, NEW v, NEW framed, Delta(d + 1) \in Item,
           Streams(F, d, FALSE, us, TRUE, framed)
    PROVE  Streams(F \o <<Delta(d + 1)>>, d + 1, FALSE, v, TRUE, framed)
<1>1. PICK G : G = F \o <<Delta(d + 1)>>
  OBVIOUS
<1>2. /\ Len(G) = Len(F) + 1 /\ Len(F) \in Nat /\ \A i \in 1..Len(F) : G[i] = F[i]
      /\ G[Len(F) + 1] = Delta(d + 1)
  BY <1>1, StreamAfter
<1>3. /\ Len(F) = d /\ \A i \in 1..d : F[i] = Delta(i)
      /\ \A i \in 1..d : F[i].type # "completed"
  BY DEF Streams
<1>4. ASSUME NEW i \in 1..(d + 1) PROVE G[i] = Delta(i) /\ Delta(i).type = "delta"
  BY <1>2, <1>3 DEF Delta
<1>5. Len(G) = d + 1
  BY <1>2, <1>3
<1> QED BY <1>1, <1>4, <1>5 DEF Streams

LEMMA StreamCompleted ==
    ASSUME NEW F \in Seq(Item), NEW d \in Nat, NEW us, NEW run, NEW u \in 0..Chunks,
           Completed(u) \in Item, Streams(F, d, FALSE, us, run, TRUE)
    PROVE  Streams(F \o <<Completed(u)>>, d, TRUE, u, FALSE, TRUE)
<1>1. PICK G : G = F \o <<Completed(u)>>
  OBVIOUS
<1>2. /\ Len(G) = Len(F) + 1 /\ Len(F) \in Nat /\ \A i \in 1..Len(F) : G[i] = F[i]
      /\ G[Len(F) + 1] = Completed(u)
  BY <1>1, StreamAfter
<1>3. /\ d <= Len(F) /\ \A i \in 1..Len(F) : IF i <= d THEN F[i] = Delta(i) ELSE F[i].type # "delta"
      /\ \A i \in 1..Len(F) : F[i].type # "completed"
  BY DEF Streams
<1>4. Completed(u).type = "completed" /\ Completed(u).n = u
  BY DEF Completed
<1>5. Len(F) + 1 \in 1..Len(G) /\ d <= Len(G) /\ ~(Len(F) + 1 <= d)
  BY <1>2, <1>3
<1>6. ASSUME NEW i \in 1..Len(G)
      PROVE  /\ IF i <= d THEN G[i] = Delta(i) ELSE G[i].type # "delta"
             /\ G[i].type = "completed" => G[i].n = u
  <2>1. CASE i = Len(F) + 1
    BY <1>2, <1>4, <1>5, <2>1
  <2>2. CASE i # Len(F) + 1
    <3>1. i \in 1..Len(F)
      BY <1>2, <2>2
    <3> QED BY <1>2, <1>3, <3>1
  <2> QED BY <2>1, <2>2
<1> QED BY <1>1, <1>2, <1>4, <1>5, <1>6 DEF Streams

LEMMA StreamUnframed ==
    ASSUME NEW F, NEW d, NEW us, NEW run, NEW u, Streams(F, d, FALSE, us, run, FALSE)
    PROVE  Streams(F, d, TRUE, u, FALSE, FALSE)
  BY DEF Streams

LEMMA StreamLast ==
    ASSUME NEW F \in Seq(Item), NEW d \in Nat, NEW em, NEW us, NEW run, NEW framed,
           NEW x \in Item, x.type \in {"failed", "finish"}, Streams(F, d, em, us, run, framed)
    PROVE  Streams(F \o <<x>>, d, em, us, FALSE, framed)
<1>1. PICK G : G = F \o <<x>>
  OBVIOUS
<1>2. /\ Len(G) = Len(F) + 1 /\ Len(F) \in Nat /\ \A i \in 1..Len(F) : G[i] = F[i]
      /\ G[Len(F) + 1] = x
  BY <1>1, StreamAfter
<1>3. /\ d <= Len(F) /\ \A i \in 1..Len(F) : IF i <= d THEN F[i] = Delta(i) ELSE F[i].type # "delta"
      /\ \A i \in 1..Len(F) : F[i].type = "completed" => em /\ F[i].n = us
      /\ em /\ framed => \E i \in 1..Len(F) : F[i].type = "completed"
  BY DEF Streams
<1>4. d <= Len(G) /\ ~(Len(F) + 1 <= d) /\ \A i \in 1..Len(F) : i \in 1..Len(G)
  BY <1>2, <1>3
<1>5. ASSUME NEW i \in 1..Len(G)
      PROVE  /\ IF i <= d THEN G[i] = Delta(i) ELSE G[i].type # "delta"
             /\ G[i].type = "completed" => em /\ G[i].n = us
  <2>1. CASE i = Len(F) + 1
    BY <1>2, <1>4, <2>1
  <2>2. CASE i # Len(F) + 1
    <3>1. i \in 1..Len(F)
      BY <1>2, <2>2
    <3> QED BY <1>2, <1>3, <3>1
  <2> QED BY <2>1, <2>2
<1>6. em /\ framed => \E i \in 1..Len(G) : G[i].type = "completed"
  BY <1>2, <1>3, <1>4
<1> QED BY <1>1, <1>4, <1>5, <1>6 DEF Streams

---------------------------------------------------------------------------
(* How a step changes what is on the way *)

KeptItems == {e \in Item : FramesOf(e) # <<>>}

LEMMA WayIsQueue ==
    /\ OnTheWay = Queue(hand["frames"], hand["client"], hand["tee"], chan["conv"], hand["conv"], KeptItems)
    /\ OnTheWay' = Queue(hand'["frames"], hand'["client"], hand'["tee"], chan'["conv"], hand'["conv"], KeptItems')
    /\ Flow = Join(written, OnTheWay) /\ Flow' = Join(written', OnTheWay')
  BY Zenon DEF OnTheWay, Queue, Join, KeptItems, Flow

LEMMA FramesKept ==
    ASSUME TypeOK, NEW e \in Item
    PROVE  Selected(<<e>>, KeptItems) = FramesOf(e) /\ FramesOf(e) \in Seq(Item)
<1>1. FramesOf(e) = <<>> \/ (FramesOf(e) = <<e>> /\ FramesOf(e) # <<>>)
  BY DEF FramesOf
<1>2. e \in KeptItems <=> FramesOf(e) # <<>>
  BY DEF KeptItems
<1>3. Selected(<<e>>, KeptItems) = IF e \in KeptItems THEN <<e>> ELSE <<>>
  BY SelectedOne
<1> QED BY <1>1, <1>2, <1>3, ItemFacts

LEMMA KeptSame == ASSUME UNCHANGED setup PROVE KeptItems' = KeptItems
  BY DEF KeptItems, FramesOf, Ingress, Item

\* The converter has taken e in hand.
LEMMA WayGrows ==
    ASSUME TypeOK, UNCHANGED <<setup, written>>, NEW e \in Item, hand["conv"] = <<>>,
           hand'["conv"] = <<e>>, chan'["conv"] = chan["conv"], hand'["tee"] = hand["tee"],
           hand'["client"] = hand["client"], hand'["frames"] = hand["frames"]
    PROVE  OnTheWay' = Join(OnTheWay, FramesOf(e)) /\ Flow' = Join(Flow, FramesOf(e))
<1>1. PICK a, b, c, d, y, A, w : /\ a = hand["frames"] /\ b = hand["client"] /\ c = hand["tee"]
                                 /\ d = chan["conv"] /\ y = <<e>> /\ A = KeptItems /\ w = written
  OBVIOUS
<1>2. /\ a \in Seq(Item) /\ b \in Seq(Item) /\ c \in Seq(Item) /\ d \in Seq(Item)
      /\ y \in Seq(Item) /\ w \in Seq(Item) /\ <<>> \in Seq(Item)
  BY <1>1, EmptySeq DEF TypeOK, Stages
<1>3. OnTheWay = Queue(a, b, c, d, <<>>, A) /\ OnTheWay' = Queue(a, b, c, d, y, A)
  BY <1>1, WayIsQueue, KeptSame
<1>4. Selected(y, A) = FramesOf(e) /\ FramesOf(e) \in Seq(Item)
  BY <1>1, FramesKept
<1>5. PICK q, f : q = Queue(a, b, c, d, <<>>, A) /\ f = FramesOf(e)
  OBVIOUS
<1>6. Queue(a, b, c, d, y, A) = Join(q, f)
  BY <1>2, <1>4, <1>5, QueueNew
<1>7. q \in Seq(Item) /\ f \in Seq(Item)
  BY <1>2, <1>4, <1>5, QueueTyped
<1>8. Join(w, Join(q, f)) = Join(Join(w, q), f)
  BY <1>2, <1>7, JoinAssociates
<1>9. Flow = Join(w, q) /\ Flow' = Join(w, Join(q, f))
  BY <1>1, <1>3, <1>5, <1>6, WayIsQueue
<1> QED BY <1>3, <1>5, <1>6, <1>8, <1>9

\* The chain is left as it is.
LEMMA WaySame ==
    ASSUME UNCHANGED <<setup, written>>,
           chan'["conv"] = chan["conv"], hand'["tee"] = hand["tee"], hand'["conv"] = hand["conv"],
           hand'["client"] = hand["client"], hand'["frames"] = hand["frames"]
    PROVE  OnTheWay' = OnTheWay /\ Flow' = Flow
<1>1. OnTheWay' = OnTheWay
  BY WayIsQueue, KeptSame, Zenon
<1> QED BY <1>1, WayIsQueue, Zenon

LEMMA WaySend ==
    ASSUME TypeOK, StagesInv, NEW s \in Stages, Send(s)
    PROVE  OnTheWay' = OnTheWay /\ Flow' = Flow
<1>1. UNCHANGED <<setup, written>>
  BY DEF Send, handler
<1>2. PICK x \in Item :
        /\ hand[s] = <<x>> /\ hand' = [hand EXCEPT ![s] = <<>>]
        /\ chan' = [chan EXCEPT ![s] = Append(chan[s], x)] /\ Cap[s] > 0
  BY Sent
<1>3. s \in {"reader", "conv"}
  BY <1>2, Setup DEF Stages
<1>4. hand \in [Stages -> Seq(Item)] /\ chan \in [Stages -> Seq(Item)]
  BY DEF TypeOK
<1>5. "reader" \in Stages /\ "conv" \in Stages /\ "tee" \in Stages /\ "client" \in Stages /\ "frames" \in Stages
  BY DEF Stages
<1>6. CASE s = "reader"
  BY <1>1, <1>2, <1>4, <1>5, <1>6, WaySame
<1>7. CASE s = "conv"
  <2>1. PICK a, b, c, d, A : /\ a = hand["frames"] /\ b = hand["client"] /\ c = hand["tee"]
                             /\ d = chan["conv"] /\ A = KeptItems
    OBVIOUS
  <2>2. c \in Seq(Item) /\ d \in Seq(Item)
    BY <1>4, <1>5, <2>1
  <2>3. /\ hand'["frames"] = a /\ hand'["client"] = b /\ hand'["tee"] = c
        /\ chan'["conv"] = Append(d, x) /\ hand'["conv"] = <<>> /\ hand["conv"] = <<x>>
    BY <1>2, <1>4, <1>5, <1>7, <2>1
  <2>4. OnTheWay = Queue(a, b, c, d, <<x>>, A) /\ OnTheWay' = Queue(a, b, c, Append(d, x), <<>>, A)
    BY <1>1, <2>1, <2>3, WayIsQueue, KeptSame, Zenon
  <2>5. OnTheWay' = OnTheWay
    BY <2>2, <2>4, QueueSend
  <2> QED BY <1>1, <2>5, WayIsQueue
<1> QED BY <1>3, <1>6, <1>7

LEMMA WayTee ==
    ASSUME TypeOK, StagesInv, Tee
    PROVE  OnTheWay' = OnTheWay /\ Flow' = Flow
<1>1. UNCHANGED <<setup, written>> /\ hand["tee"] = <<>> /\ Ready("conv") /\ Receive("tee", <<Offered("conv")>>)
  BY DEF Tee, handler, Idle
<1>2. "conv" \in Stages /\ "tee" \in Stages /\ "client" \in Stages /\ "frames" \in Stages
      /\ "conv" = Input["tee"] /\ "conv" # "tee"
  BY Setup DEF Stages
<1>3. Offered("conv") \in Item
  BY <1>1, <1>2, OfferedItem
<1>4. PICK x : x = Offered("conv")
  OBVIOUS
<1>5. x \in Item /\ <<x>> \in Seq(Item)
  BY <1>3, <1>4
<1>6. /\ hand'["tee"] = <<x>>
      /\ \A r \in Stages \ {"conv", "tee"} : hand'[r] = hand[r]
      /\ Cap["conv"] = 0 => hand["conv"] = <<x>> /\ hand'["conv"] = <<>> /\ chan' = chan
      /\ Cap["conv"] > 0 => /\ hand'["conv"] = hand["conv"] /\ chan'["conv"] = Tail(chan["conv"])
                            /\ chan["conv"] # <<>> /\ x = Head(chan["conv"])
  BY <1>1, <1>2, <1>4, <1>5, Received
<1>7. PICK a, b, d, e, A : /\ a = hand["frames"] /\ b = hand["client"] /\ d = chan["conv"]
                           /\ e = hand["conv"] /\ A = KeptItems
  OBVIOUS
<1>8. d \in Seq(Item) /\ e \in Seq(Item)
  BY <1>2, <1>7 DEF TypeOK
<1>9. hand'["frames"] = a /\ hand'["client"] = b
  BY <1>2, <1>6, <1>7
<1>10. OnTheWay' = OnTheWay
  <2>1. CASE Cap["conv"] = 0
    <3>1. e = <<x>> /\ hand'["conv"] = <<>> /\ d = <<>> /\ chan'["conv"] = <<>>
      BY <1>2, <1>6, <1>7, <2>1 DEF StagesInv
    <3>2. OnTheWay = Queue(a, b, <<>>, <<>>, <<x>>, A) /\ OnTheWay' = Queue(a, b, <<x>>, <<>>, <<>>, A)
      BY <1>1, <1>6, <1>7, <1>9, <3>1, WayIsQueue, KeptSame, Zenon
    <3> QED BY <1>5, <3>2, QueueHandover
  <2>2. CASE Cap["conv"] # 0
    <3>1. Cap["conv"] > 0
      BY <1>2, <2>2, Setup
    <3>2. hand'["conv"] = e /\ chan'["conv"] = Tail(d) /\ d # <<>> /\ x = Head(d)
      BY <1>6, <1>7, <3>1
    <3>3. OnTheWay = Queue(a, b, <<>>, d, e, A) /\ OnTheWay' = Queue(a, b, <<Head(d)>>, Tail(d), e, A)
      BY <1>1, <1>6, <1>7, <1>9, <3>2, WayIsQueue, KeptSame, Zenon
    <3> QED BY <1>8, <3>2, <3>3, QueueTee
  <2> QED BY <2>1, <2>2
<1> QED BY <1>1, <1>10, WayIsQueue

LEMMA WayClient ==
    ASSUME TypeOK, StagesInv, ClientEvent
    PROVE  OnTheWay' = OnTheWay /\ Flow' = Flow
<1>1. /\ UNCHANGED <<setup, written>> /\ hand["client"] = <<>> /\ Ready("tee")
      /\ Receive("client", FramesOf(Offered("tee")))
  BY DEF ClientEvent, handler, Idle
<1>2. "conv" \in Stages /\ "tee" \in Stages /\ "client" \in Stages /\ "frames" \in Stages
      /\ "tee" = Input["client"] /\ "tee" # "client" /\ Cap["tee"] = 0
  BY Setup DEF Stages
<1>3. Offered("tee") \in Item
  BY <1>1, <1>2, OfferedItem
<1>4. PICK x : x = Offered("tee")
  OBVIOUS
<1>5. x \in Item /\ FramesOf(x) \in Seq(Item) /\ Selected(<<x>>, KeptItems) = FramesOf(x)
  BY <1>3, <1>4, FramesKept
<1>6. /\ hand'["client"] = FramesOf(x) /\ hand["tee"] = <<x>> /\ hand'["tee"] = <<>> /\ chan' = chan
      /\ \A r \in Stages \ {"tee", "client"} : hand'[r] = hand[r]
  BY <1>1, <1>2, <1>4, <1>5, Received
<1>7. PICK a, d, e, y, A : /\ a = hand["frames"] /\ d = chan["conv"] /\ e = hand["conv"]
                           /\ y = <<x>> /\ A = KeptItems
  OBVIOUS
<1>8. a \in Seq(Item) /\ d \in Seq(Item) /\ e \in Seq(Item) /\ y \in Seq(Item)
  BY <1>2, <1>5, <1>7 DEF TypeOK
<1>9. /\ hand'["frames"] = a /\ hand'["conv"] = e /\ chan'["conv"] = d
      /\ hand'["client"] = Selected(y, A)
  BY <1>2, <1>5, <1>6, <1>7
<1>10. OnTheWay = Queue(a, <<>>, y, d, e, A) /\ OnTheWay' = Queue(a, Selected(y, A), <<>>, d, e, A)
  BY <1>1, <1>6, <1>7, <1>9, WayIsQueue, KeptSame, Zenon
<1>11. OnTheWay' = OnTheWay
  BY <1>8, <1>10, QueueClient
<1> QED BY <1>1, <1>11, WayIsQueue

LEMMA WayForward ==
    ASSUME TypeOK, StagesInv, Forward
    PROVE  OnTheWay' = OnTheWay /\ Flow' = Flow
<1>1. /\ UNCHANGED <<setup, written>> /\ hand["frames"] = <<>> /\ Ready("client")
      /\ Receive("frames", <<Offered("client")>>)
  BY DEF Forward, handler, Idle
<1>2. "conv" \in Stages /\ "tee" \in Stages /\ "client" \in Stages /\ "frames" \in Stages
      /\ "client" = Input["frames"] /\ "client" # "frames" /\ Cap["client"] = 0
  BY Setup DEF Stages
<1>3. Offered("client") \in Item
  BY <1>1, <1>2, OfferedItem
<1>4. PICK x : x = Offered("client")
  OBVIOUS
<1>5. x \in Item /\ <<x>> \in Seq(Item)
  BY <1>3, <1>4
<1>6. /\ hand'["frames"] = <<x>> /\ hand["client"] = <<x>> /\ hand'["client"] = <<>> /\ chan' = chan
      /\ \A r \in Stages \ {"client", "frames"} : hand'[r] = hand[r]
  BY <1>1, <1>2, <1>4, <1>5, Received
<1>7. PICK c, d, e, A : c = hand["tee"] /\ d = chan["conv"] /\ e = hand["conv"] /\ A = KeptItems
  OBVIOUS
<1>8. hand'["tee"] = c /\ hand'["conv"] = e /\ chan'["conv"] = d
  BY <1>2, <1>6, <1>7
<1>9. OnTheWay = Queue(<<>>, <<x>>, c, d, e, A) /\ OnTheWay' = Queue(<<x>>, <<>>, c, d, e, A)
  BY <1>1, <1>6, <1>7, <1>8, WayIsQueue, KeptSame, Zenon
<1>10. OnTheWay' = OnTheWay
  BY <1>5, <1>9, QueueForward
<1> QED BY <1>1, <1>10, WayIsQueue

\* The handler, or who drains for it, takes the first frame of the queue.
LEMMA WayWritten ==
    ASSUME TypeOK, StagesInv, Ready(Out), ReceiveFrame, UNCHANGED setup
    PROVE  /\ OnTheWay = Join(<<Offered(Out)>>, OnTheWay')
           /\ OnTheWay' \in Seq(Item) /\ Offered(Out) \in Item
           /\ written' = Append(written, Offered(Out)) => Flow' = Flow
<1>1. PICK f : f = Offered(Out)
  OBVIOUS
<1>2. f \in Item /\ hand[Out] = <<f>> /\ hand' = [hand EXCEPT ![Out] = <<>>] /\ chan' = chan
  BY <1>1, FrameReceived
<1>3. "conv" \in Stages /\ "tee" \in Stages /\ "client" \in Stages /\ "frames" \in Stages
  BY DEF Stages
<1>4. hand \in [Stages -> Seq(Item)] /\ chan \in [Stages -> Seq(Item)] /\ written \in Seq(Item)
  BY DEF TypeOK
<1>5. PICK b, c, d, e, A, y, w : /\ b = hand["client"] /\ c = hand["tee"] /\ d = chan["conv"]
                                 /\ e = hand["conv"] /\ A = KeptItems /\ y = <<f>> /\ w = written
  OBVIOUS
<1>6. /\ b \in Seq(Item) /\ c \in Seq(Item) /\ d \in Seq(Item) /\ e \in Seq(Item)
      /\ y \in Seq(Item) /\ w \in Seq(Item) /\ <<>> \in Seq(Item)
  BY <1>2, <1>3, <1>4, <1>5, EmptySeq
<1>7. PICK q : q = OnTheWay'
  OBVIOUS
<1>8. OnTheWay = Join(y, q) /\ q \in Seq(Item)
  <2>1. CASE Out = "frames"
    <3>1. /\ hand["frames"] = y /\ hand'["frames"] = <<>> /\ hand'["client"] = b /\ hand'["tee"] = c
          /\ hand'["conv"] = e /\ chan'["conv"] = d
      BY <1>2, <1>3, <1>4, <1>5, <2>1
    <3>2. OnTheWay = Queue(y, b, c, d, e, A) /\ q = Queue(<<>>, b, c, d, e, A)
      BY <1>5, <1>7, <3>1, WayIsQueue, KeptSame, Zenon
    <3>3. Queue(y, b, c, d, e, A) = Join(y, Queue(<<>>, b, c, d, e, A))
      BY <1>6, QueueFirst
    <3>4. Queue(<<>>, b, c, d, e, A) \in Seq(Item)
      BY <1>6, QueueTyped
    <3> QED BY <3>2, <3>3, <3>4
  <2>2. CASE Out = "client"
    <3>1. st["frames"] = "off" /\ hand["frames"] = <<>>
      BY <1>3, <2>2, Setup DEF Out, StagesInv
    <3>2. /\ hand'["frames"] = <<>> /\ hand["client"] = y /\ hand'["client"] = <<>> /\ hand'["tee"] = c
          /\ hand'["conv"] = e /\ chan'["conv"] = d
      BY <1>2, <1>3, <1>4, <1>5, <2>2, <3>1
    <3>3. OnTheWay = Queue(<<>>, y, c, d, e, A) /\ q = Queue(<<>>, <<>>, c, d, e, A)
      BY <1>5, <1>7, <3>1, <3>2, WayIsQueue, KeptSame, Zenon
    <3>4. Queue(<<>>, y, c, d, e, A) = Join(y, Queue(<<>>, <<>>, c, d, e, A))
      BY <1>6, QueueFirst
    <3>5. Queue(<<>>, <<>>, c, d, e, A) \in Seq(Item)
      BY <1>6, QueueTyped
    <3> QED BY <3>3, <3>4, <3>5
  <2> QED BY <2>1, <2>2 DEF Out
<1>9. ASSUME written' = Append(written, f) PROVE Flow' = Flow
  <2>1. written' = Join(w, y)
    BY <1>2, <1>5, <1>6, <1>9, JoinAppend
  <2>2. Join(Join(w, y), q) = Join(w, Join(y, q))
    BY <1>6, <1>8, JoinAssociates
  <2> QED BY <1>5, <1>7, <1>8, <2>1, <2>2, WayIsQueue
<1> QED BY <1>1, <1>2, <1>5, <1>7, <1>8, <1>9

\* A chain that has ended up to the client stage has nothing on the way.
LEMMA WayEmpty ==
    ASSUME TypeOK, StagesInv, st["tee"] = "ended", hand["client"] = <<>>, hand["frames"] = <<>>
    PROVE  OnTheWay = <<>>
<1>1. chan["conv"] = <<>> /\ hand["tee"] = <<>> /\ hand["conv"] = <<>>
  BY DEF StagesInv, Stages
<1>2. OnTheWay = Queue(<<>>, <<>>, <<>>, <<>>, <<>>, KeptItems)
  BY <1>1, WayIsQueue, Zenon
<1> QED BY <1>2, QueueEmpty

LEMMA WayFinish ==
    ASSUME TypeOK, StagesInv, RelayEnds("client"), Ingress = "chat"
    PROVE  OnTheWay' = Join(OnTheWay, <<FinishFrames>>) /\ Flow' = Join(Flow, <<FinishFrames>>)
<1>1. /\ UNCHANGED <<setup, chan, written>> /\ hand["client"] = <<>> /\ st["tee"] = "ended"
      /\ hand' = [hand EXCEPT !["client"] = <<FinishFrames>>]
  BY Setup DEF RelayEnds, Idle, Closed, LastWords, handler
<1>2. "conv" \in Stages /\ "tee" \in Stages /\ "client" \in Stages /\ "frames" \in Stages
  BY DEF Stages
<1>3. hand \in [Stages -> Seq(Item)] /\ written \in Seq(Item) /\ FinishFrames \in Item
  BY ItemFacts DEF TypeOK
<1>4. st["frames"] = "off" /\ hand["frames"] = <<>>
  BY <1>2 DEF StagesInv
<1>5. /\ hand["conv"] = <<>> /\ hand["tee"] = <<>> /\ chan["conv"] = <<>>
  BY <1>1, <1>2 DEF StagesInv
<1>6. PICK y, w, A : y = <<FinishFrames>> /\ w = written /\ A = KeptItems
  OBVIOUS
<1>7. y \in Seq(Item) /\ w \in Seq(Item) /\ <<>> \in Seq(Item)
  BY <1>3, <1>6, EmptySeq
<1>8. /\ hand'["frames"] = <<>> /\ hand'["client"] = y /\ hand'["tee"] = <<>> /\ hand'["conv"] = <<>>
      /\ chan'["conv"] = <<>>
  BY <1>1, <1>2, <1>3, <1>4, <1>5, <1>6
<1>9. OnTheWay = <<>>
  BY <1>1, <1>4, WayEmpty
<1>10. OnTheWay' = Queue(<<>>, y, <<>>, <<>>, <<>>, A)
  BY <1>1, <1>6, <1>8, WayIsQueue, KeptSame, Zenon
<1>11. OnTheWay' = y
  BY <1>7, <1>10, QueueLone
<1>12. Join(y, <<>>) = y /\ Join(<<>>, y) = y /\ Join(w, <<>>) = w
  BY <1>7, JoinEmpty
<1>13. Flow = w /\ Flow' = Join(w, y)
  BY <1>1, <1>6, <1>9, <1>11, <1>12, WayIsQueue
<1> QED BY <1>6, <1>9, <1>11, <1>12, <1>13

---------------------------------------------------------------------------
(* A request whose client is there *)

\* When such a request is done, nothing of it runs any more.
LEMMA Stopped ==
    ASSUME IInv, Intact, phase = "done"
    PROVE  /\ \A s \in Stages : st[s] \in {"off", "ended"} /\ hand[s] = <<>>
           /\ Provider = "chat" => st["reader"] = "ended" /\ chan["reader"] = <<>>
           /\ st["tee"] = "ended" /\ st["conv"] = "ended" /\ chan["conv"] = <<>>
           /\ st["client"] = "ended"
           /\ ~aborted /\ drain = "off" /\ link = "up" /\ ctxDone /\ Streamed
<1>1. TypeOK /\ StagesInv /\ PhaseInv /\ ReaderInv
  BY DEF IInv
<1>2. link = "up" /\ Streamed
  BY DEF Intact
<1>3. ~aborted /\ drain = "off" /\ ctxDone /\ st[Out] = "ended"
  BY <1>1, <1>2 DEF PhaseInv, TypeOK
<1>4. /\ st["client"] = "ended" /\ st["tee"] = "ended" /\ st["conv"] = "ended"
      /\ chan["conv"] = <<>> /\ st["frames"] \in {"off", "ended"}
  BY <1>1, <1>3, OutEnded
<1>5. IF Provider = "chat" THEN st["reader"] = "ended" /\ chan["reader"] = <<>> ELSE st["reader"] = "off"
  BY <1>1, <1>4 DEF ReaderInv, StagesInv, Over
<1>6. \A s \in Stages : st[s] \in {"off", "ended"}
  BY <1>4, <1>5 DEF Stages
<1>7. \A s \in Stages : hand[s] = <<>>
  BY <1>1, <1>6 DEF StagesInv
<1> QED BY <1>2, <1>3, <1>4, <1>5, <1>6, <1>7

LEMMA Quiet ==
    ASSUME IInv, Intact, phase = "done"
    PROVE  ~Next
<1>1. /\ \A s \in Stages : st[s] \in {"off", "ended"} /\ hand[s] = <<>>
      /\ drain = "off" /\ link = "up" /\ ctxDone
  BY Stopped
<1>2. "reader" \in Stages /\ "conv" \in Stages /\ "tee" \in Stages /\ "client" \in Stages
      /\ "frames" \in Stages /\ Source \in Stages
  BY DEF Stages, Source
<1>3. ~ChainStep
  <2>1. ~Upstream
    BY <1>1, <1>2 DEF Upstream, ReadChunk, PullEvent, SourceEnds, ConvertChunk, ChunksEnd, ConvCancelled, Idle
  <2>2. ~Relays
    BY <1>1, <1>2 DEF Relays, Tee, ClientEvent, Forward, Idle
  <2>3. ASSUME NEW s \in Stages PROVE ~(Send(s) \/ GiveUp(s) \/ Close(s) \/ RelayEnds(s))
    BY <1>1 DEF Send, GiveUp, Close, RelayEnds, Idle
  <2> QED BY <2>1, <2>2, <2>3 DEF ChainStep
<1>4. ~HandlerMove
  BY <1>1 DEF HandlerMove, StartConv, StartClient, Refuse, WriteFrame, FramesEnd, SettleUsage, ReadBuffer,
              Return, Drain, Break, Cancel
<1> QED BY <1>3, <1>4, Steps

\* Every step that leaves the client connected is one of a request still going on.
LEMMA LiveStep ==
    ASSUME IInv, Next, Intact'
    PROVE  /\ Intact /\ link = "up" /\ link' = "up" /\ phase # "done" /\ ~ctxDone
           /\ drain = "off" /\ ~aborted
           /\ ~Refuse /\ ~ConvCancelled /\ ~Drain /\ ~Break /\ ~Cancel
           /\ \A s \in Stages : ~GiveUp(s)
<1>1. TypeOK /\ StagesInv /\ PhaseInv
  BY DEF IInv
<1>2. link' = "up" /\ (phase' # "done" \/ Streamed')
  BY DEF Intact
<1>3. ~Break
  BY <1>2 DEF Break
<1>4. link = "up"
  <2>1. CASE ChainStep
    BY <1>1, <1>2, <2>1, ChainSteps
  <2>2. CASE HandlerMove
    BY <1>2, <1>3, <2>2 DEF HandlerMove, StartConv, StartClient, Refuse, WriteFrame, FramesEnd,
                            SettleUsage, ReadBuffer, Return, Drain, Cancel
  <2> QED BY <2>1, <2>2, Steps
<1>5. ~Refuse
  <2> SUFFICES ASSUME Refuse PROVE FALSE
    OBVIOUS
  <2>1. phase' = "done" /\ st' = st /\ phase \in {"opened", "converted"}
    BY DEF Refuse, chain
  <2> QED BY <1>1, <1>2, <2>1 DEF PhaseInv, Streamed
<1>6. phase # "done"
  <2> SUFFICES ASSUME phase = "done" PROVE FALSE
    OBVIOUS
  <2>1. phase' = "done" /\ Streamed' = Streamed
    <3>1. CASE ChainStep
      BY <1>1, <3>1, ChainSteps DEF Streamed, handler, Stages
    <3>2. CASE HandlerMove
      BY <1>3, <3>2 DEF HandlerMove, StartConv, StartClient, Refuse, WriteFrame, FramesEnd,
                        SettleUsage, ReadBuffer, Return, Drain, Cancel, chain, handler, Streamed
    <3> QED BY <3>1, <3>2, Steps
  <2>2. Intact
    BY <1>2, <1>4, <2>1 DEF Intact
  <2> QED BY <2>2, Quiet
<1>7. Intact
  BY <1>4, <1>6 DEF Intact
<1>8. ~ctxDone /\ ~aborted /\ drain = "off"
  BY <1>1, <1>4, <1>6 DEF PhaseInv
<1>9. ~ConvCancelled /\ ~Drain /\ ~Cancel /\ \A s \in Stages : ~GiveUp(s)
  BY <1>4, <1>8 DEF ConvCancelled, Drain, Cancel, GiveUp
<1> QED BY <1>2, <1>3, <1>4, <1>5, <1>6, <1>7, <1>8, <1>9

\* What neither reads upstream nor converts leaves the reader's end alone.
LEMMA ReaderSame ==
    ASSUME ReaderInv, UNCHANGED <<setup, got, seen>>, chan'["reader"] = chan["reader"],
           hand'["reader"] = hand["reader"], st'["reader"] = st["reader"],
           Over("conv")' <=> Over("conv")
    PROVE  ReaderInv'
<1>1. Provider' = Provider
  BY Kept
<1> QED BY <1>1 DEF ReaderInv, Delta

\* The steps of a live request that only move or end what is after the
\* converter, with what they leave alone.
Downstream == \/ Tee \/ ClientEvent \/ Forward \/ Close("conv") \/ Close("client")
              \/ (\E s \in Stages : RelayEnds(s)) \/ StartConv \/ StartClient \/ WriteFrame \/ FramesEnd
              \/ SettleUsage \/ ReadBuffer \/ Return

LEMMA LiveCases ==
    ASSUME IInv, Next, Intact'
    PROVE  \/ ReadChunk \/ PullEvent \/ SourceEnds \/ ConvertChunk \/ ChunksEnd
           \/ Send("reader") \/ Send("conv") \/ Downstream
<1>1. TypeOK /\ StagesInv
  BY DEF IInv
<1>2. /\ ~Refuse /\ ~ConvCancelled /\ ~Drain /\ ~Break /\ ~Cancel
      /\ \A s \in Stages : ~GiveUp(s)
  BY LiveStep
<1>3. ASSUME NEW s \in Stages, Close(s) PROVE s \in {"conv", "client"}
  BY <1>1, <1>3 DEF Close, StagesInv
<1>4. ASSUME NEW s \in Stages, Send(s) PROVE s \in {"reader", "conv"}
  BY <1>1, <1>4, Setup DEF Send, Stages
<1> QED BY <1>2, <1>3, <1>4 DEF Next, Downstream

LEMMA DownstreamKeeps ==
    ASSUME TypeOK, StagesInv, PhaseInv, Downstream
    PROVE  /\ UNCHANGED <<setup, got, seen, capture, link>>
           /\ hand'["reader"] = hand["reader"] /\ chan'["reader"] = chan["reader"]
           /\ st'["reader"] = st["reader"] /\ (Over("conv")' <=> Over("conv"))
           /\ st["conv"] \in {"off", "run"} <=> st'["conv"] \in {"off", "run"}
<1>1. UNCHANGED <<setup, got, seen, capture, link>>
  BY DEF Downstream, Tee, ClientEvent, Forward, Close, RelayEnds, StartConv, StartClient, WriteFrame,
         FramesEnd, SettleUsage, ReadBuffer, Return, chain
<1>2. /\ "reader" \in Stages /\ "conv" \in Stages /\ "tee" \in Stages /\ "client" \in Stages
      /\ "frames" \in Stages /\ Out \in {"client", "frames"}
      /\ Input["tee"] = "conv" /\ Input["client"] = "tee" /\ Input["frames"] = "client"
  BY Setup DEF Stages, Out
<1>3. st \in [Stages -> {"off", "run", "last", "ended"}]
  BY DEF TypeOK
<1>4. hand \in [Stages -> Seq(Item)] /\ chan \in [Stages -> Seq(Item)]
  BY DEF TypeOK
<1>5. CASE Relays
  <2>1. ASSUME NEW s \in {"tee", "client", "frames"}, NEW i \in {"conv", "tee", "client"}, i = Input[s], i # s,
               NEW made, Receive(s, made), st' = st
        PROVE  /\ hand'["reader"] = hand["reader"] /\ chan'["reader"] = chan["reader"]
               /\ st'["reader"] = st["reader"] /\ st'["conv"] = st["conv"]
    BY <1>2, <1>4, <2>1 DEF Receive
  <2>2. hand'["reader"] = hand["reader"] /\ chan'["reader"] = chan["reader"]
        /\ st'["reader"] = st["reader"] /\ st'["conv"] = st["conv"]
    <3>1. CASE Tee
      <4>1. Receive("tee", <<Offered("conv")>>) /\ st' = st
        BY <3>1 DEF Tee
      <4> QED BY <1>2, <2>1, <4>1
    <3>2. CASE ClientEvent
      <4>1. Receive("client", FramesOf(Offered("tee"))) /\ st' = st
        BY <3>2 DEF ClientEvent
      <4> QED BY <1>2, <2>1, <4>1
    <3>3. CASE Forward
      <4>1. Receive("frames", <<Offered("client")>>) /\ st' = st
        BY <3>3 DEF Forward
      <4> QED BY <1>2, <2>1, <4>1
    <3> QED BY <1>5, <3>1, <3>2, <3>3 DEF Relays
  <2> QED BY <1>1, <2>2 DEF Over
<1>6. CASE Close("conv")
  BY <1>1, <1>2, <1>3, <1>6 DEF Close, Over
<1>7. CASE Close("client")
  BY <1>1, <1>2, <1>3, <1>7 DEF Close, Over
<1>8. ASSUME NEW s \in Stages, RelayEnds(s)
      PROVE  /\ hand'["reader"] = hand["reader"] /\ chan'["reader"] = chan["reader"]
             /\ st'["reader"] = st["reader"] /\ st'["conv"] = st["conv"]
  BY <1>2, <1>3, <1>4, <1>8 DEF RelayEnds, LastWords, End
<1>9. CASE StartConv
  <2>1. st["conv"] = "off"
    BY <1>9 DEF StartConv, PhaseInv
  <2> QED BY <1>1, <1>2, <1>3, <1>9, <2>1 DEF StartConv, Over
<1>10. CASE StartClient
  BY <1>1, <1>2, <1>3, <1>10 DEF StartClient, Over
<1>11. CASE WriteFrame
  BY <1>1, <1>2, <1>4, <1>11 DEF WriteFrame, ReceiveFrame, Over
<1>12. CASE FramesEnd \/ SettleUsage \/ ReadBuffer \/ Return
  BY <1>1, <1>12 DEF FramesEnd, SettleUsage, ReadBuffer, Return, chain, Over
<1>13. CASE \E s \in Stages : RelayEnds(s)
  BY <1>1, <1>8, <1>13 DEF Over
<1> QED BY <1>5, <1>6, <1>7, <1>9, <1>10, <1>11, <1>12, <1>13 DEF Downstream, Relays

LEMMA ReaderKeeps ==
    ASSUME IInv, Next, Intact'
    PROVE  ReaderInv'
<1>1. TypeOK /\ StagesInv /\ PhaseInv /\ ReaderInv
  BY LiveStep DEF IInv
<1>2. ChainTyped /\ setup \in Setups
  BY <1>1, TypeParts
<1>3. /\ "reader" \in Stages /\ "conv" \in Stages
  BY DEF Stages
<1>4. /\ st \in [Stages -> {"off", "run", "last", "ended"}]
      /\ hand \in [Stages -> Seq(Item)] /\ chan \in [Stages -> Seq(Item)]
      /\ got \in Nat /\ seen \in Nat /\ Len(<<>>) = 0
  BY <1>2, BoundsAssumption, EmptySeq DEF ChainTyped
<1>5. CASE ReadChunk
  <2>1. /\ hand' = [hand EXCEPT !["reader"] = <<Delta(got + 1)>>] /\ got' = got + 1 /\ hand["reader"] = <<>>
        /\ UNCHANGED <<setup, st, chan, seen>> /\ st["reader"] = "run" /\ Provider = "chat"
    BY <1>5 DEF ReadChunk, Idle, Source
  <2>2. Provider' = Provider /\ hand'["reader"] = <<Delta(got + 1)>>
    BY <1>3, <1>4, <2>1, Kept
  <2>3. hand'["reader"] # <<>> /\ hand'["reader"][1] = Delta(got') /\ Len(hand'["reader"]) = 1
    BY <2>1, <2>2
  <2>4. ~Over("conv") /\ ~Over("conv")'
    BY <1>1, <2>1 DEF ReaderInv, Over
  <2>5. got' = seen' + Len(chan'["reader"]) + Len(hand'["reader"])
    BY <1>1, <1>3, <1>4, <2>1, <2>3, LenProperties DEF ReaderInv
  <2>6. \A i \in 1..Len(chan'["reader"]) : chan'["reader"][i] = Delta(seen' + i)
    BY <1>1, <2>1 DEF ReaderInv
  <2> QED BY <2>1, <2>2, <2>3, <2>4, <2>5, <2>6 DEF ReaderInv, Delta
<1>6. CASE PullEvent
  <2>1. Provider # "chat" /\ UNCHANGED setup /\ seen' = got'
    BY <1>6 DEF PullEvent, Source
  <2> QED BY <2>1, Kept DEF ReaderInv
<1>7. CASE SourceEnds
  <2>1. UNCHANGED <<setup, got, seen, chan>> /\ Idle(Source)
    BY <1>7 DEF SourceEnds
  <2>2. Provider' = Provider
    BY <2>1, Kept
  <2>3. CASE Provider = "chat"
    <3>1. st' = [st EXCEPT !["reader"] = "ended"] /\ hand' = hand /\ st["reader"] = "run"
      BY <1>7, <2>1, <2>3 DEF SourceEnds, Source, End, Idle
    <3>2. st'["conv"] = st["conv"]
      BY <1>3, <1>4, <3>1
    <3> QED BY <1>1, <2>1, <2>2, <2>3, <3>1, <3>2 DEF ReaderInv, Over, Delta
  <2>4. CASE Provider # "chat"
    BY <1>1, <2>1, <2>2, <2>4 DEF ReaderInv
  <2> QED BY <2>3, <2>4
<1>8. CASE ConvertChunk
  <2>1. /\ Provider = "chat" /\ Idle("conv") /\ Ready("reader") /\ Receive("conv", <<Offered("reader")>>)
        /\ seen' = Offered("reader").n /\ UNCHANGED <<setup, st, got>>
    BY <1>8 DEF ConvertChunk
  <2>2. Cap["reader"] > 0 /\ Input["conv"] = "reader" /\ "reader" # "conv"
    BY <1>1, Setup, BoundsAssumption
  <2>3. <<Offered("reader")>> \in Seq(Item)
    BY <1>1, <1>3, <2>1, OfferedItem
  <2>4. PICK c : c = chan["reader"]
    OBVIOUS
  <2>5. /\ hand'["reader"] = hand["reader"] /\ chan'["reader"] = Tail(c) /\ c # <<>>
        /\ Offered("reader") = Head(c)
    BY <1>1, <1>3, <2>1, <2>2, <2>3, <2>4, Received
  <2>6. /\ c \in Seq(Item) /\ Len(c) \in Nat /\ Len(c) >= 1 /\ Head(c) = c[1]
        /\ Tail(c) \in Seq(Item) /\ Len(Tail(c)) = Len(c) - 1
        /\ \A i \in 1..(Len(c) - 1) : Tail(c)[i] = c[i + 1]
    BY <1>3, <1>4, <2>4, <2>5, HeadTailProperties, LenProperties, EmptySeq
  <2>7. /\ got = seen + Len(c) + Len(hand["reader"])
        /\ \A i \in 1..Len(c) : c[i] = Delta(seen + i)
        /\ hand["reader"] # <<>> => hand["reader"][1] = Delta(got)
    BY <1>1, <2>1, <2>4 DEF ReaderInv
  <2>8. seen' = seen + 1
    <3>1. 1 \in 1..Len(c)
      BY <2>6
    <3>2. Head(c) = Delta(seen + 1)
      BY <2>6, <2>7, <3>1
    <3> QED BY <2>1, <2>5, <3>2 DEF Delta
  <2>9. got' = seen' + Len(chan'["reader"]) + Len(hand'["reader"])
    <3>1. Len(hand["reader"]) \in Nat
      BY <1>3, <1>4, LenProperties
    <3>2. Len(chan'["reader"]) = Len(c) - 1 /\ Len(hand'["reader"]) = Len(hand["reader"])
      BY <2>5, <2>6
    <3>3. PICK n, r : n = Len(c) /\ r = Len(hand["reader"])
      OBVIOUS
    <3>4. n \in Nat /\ r \in Nat /\ got = seen + n + r
      BY <2>6, <2>7, <3>1, <3>3
    <3>5. got = (seen + 1) + (n - 1) + r
      BY <1>4, <3>4
    <3> QED BY <2>1, <2>8, <3>2, <3>3, <3>5
  <2>10. ASSUME NEW i \in 1..Len(chan'["reader"]) PROVE chan'["reader"][i] = Delta(seen' + i)
    <3>1. i \in 1..(Len(c) - 1) /\ i + 1 \in 1..Len(c)
      BY <2>5, <2>6
    <3>2. Tail(c)[i] = Delta(seen + (i + 1))
      BY <2>6, <2>7, <3>1
    <3>3. seen + (i + 1) = seen' + i
      BY <1>4, <2>8, <3>1
    <3> QED BY <2>5, <3>2, <3>3
  <2>11. ~Over("conv")' /\ Provider' = Provider
    BY <2>1, Kept DEF Over, Idle
  <2> QED BY <2>1, <2>5, <2>7, <2>9, <2>10, <2>11 DEF ReaderInv, Delta
<1>9. CASE ChunksEnd
  <2>1. /\ Closed("reader") /\ UNCHANGED <<setup, got, seen, chan>> /\ Provider = "chat"
        /\ \E e : st' = [st EXCEPT !["conv"] = "last"] /\ hand' = [hand EXCEPT !["conv"] = <<e>>]
    BY <1>9 DEF ChunksEnd, LastWords
  <2>2. /\ st'["reader"] = "ended" /\ chan'["reader"] = <<>> /\ hand'["reader"] = hand["reader"]
        /\ Provider' = Provider
    BY <1>3, <1>4, <2>1, Kept DEF Closed
  <2> QED BY <1>1, <2>1, <2>2 DEF ReaderInv, Delta
<1>10. CASE Send("reader")
  <2>1. PICK x \in Item :
          /\ hand["reader"] = <<x>> /\ hand' = [hand EXCEPT !["reader"] = <<>>]
          /\ chan' = [chan EXCEPT !["reader"] = Append(chan["reader"], x)]
    BY <1>1, <1>3, <1>10, Sent
  <2>2. UNCHANGED <<setup, st, got, seen>>
    BY <1>10 DEF Send
  <2>3. st["reader"] \notin {"off", "ended"}
    BY <1>1, <1>3, <2>1 DEF StagesInv
  <2>4. Provider = "chat" /\ Provider' = Provider
    BY <1>1, <2>2, <2>3, Kept DEF StagesInv
  <2>5. PICK c : c = chan["reader"]
    OBVIOUS
  <2>6. c \in Seq(Item) /\ Len(c) \in Nat
    BY <1>3, <1>4, <2>5, LenProperties
  <2>7. PICK k : k = Append(c, x)
    OBVIOUS
  <2>8. /\ Len(k) = Len(c) + 1 /\ \A i \in 1..Len(c) : k[i] = c[i]
        /\ k[Len(c) + 1] = x
    BY <2>6, <2>7, AppendProperties
  <2>9. hand'["reader"] = <<>> /\ chan'["reader"] = k
    BY <1>3, <1>4, <2>1, <2>5, <2>7
  <2>10. got = seen + Len(c) + 1 /\ x = Delta(got) /\ \A i \in 1..Len(c) : c[i] = Delta(seen + i)
    <3>1. Len(hand["reader"]) = 1 /\ hand["reader"] # <<>> /\ hand["reader"][1] = x
      BY <2>1
    <3> QED BY <1>1, <1>4, <2>4, <2>5, <3>1 DEF ReaderInv
  <2>11. ASSUME NEW i \in 1..Len(k) PROVE k[i] = Delta(seen + i)
    <3>1. CASE i = Len(c) + 1
      <4>1. seen + i = got
        BY <1>4, <2>6, <2>10, <3>1
      <4> QED BY <2>8, <2>10, <3>1, <4>1
    <3>2. CASE i # Len(c) + 1
      <4>1. i \in 1..Len(c)
        BY <2>6, <2>8, <3>2
      <4> QED BY <2>8, <2>10, <4>1
    <3> QED BY <3>1, <3>2
  <2>12. got' = seen' + Len(k) + 0
    BY <1>4, <2>2, <2>6, <2>8, <2>10
  <2>13. ~Over("conv") /\ ~Over("conv")'
    BY <1>1, <2>2, <2>3, <2>4 DEF ReaderInv, Over
  <2> QED BY <1>4, <2>2, <2>4, <2>9, <2>11, <2>12, <2>13 DEF ReaderInv, Delta
<1>11. CASE Send("conv")
  <2>1. /\ UNCHANGED <<setup, st, got, seen>>
        /\ hand'["reader"] = hand["reader"] /\ chan'["reader"] = chan["reader"]
    BY <1>3, <1>4, <1>11 DEF Send
  <2> QED BY <1>1, <2>1, ReaderSame DEF Over
<1>12. CASE Downstream
  BY <1>1, <1>12, DownstreamKeeps, ReaderSame
<1> QED BY <1>5, <1>6, <1>7, <1>8, <1>9, <1>10, <1>11, <1>12, LiveCases

\* What one more chunk does to the buffer.
LEMMA CapturedItem ==
    ASSUME TypeOK, NEW n \in 0..Chunks
    PROVE  /\ Len(capture) \in Nat /\ Len(capture) <= BufCap /\ BufCap \in Nat
           /\ \A k \in 1..Len(capture) : Captured(n)[k] = capture[k]
           /\ Len(capture) < BufCap => /\ Len(Captured(n)) = Len(capture) + 1
                                       /\ Captured(n)[Len(capture) + 1] = n
           /\ Len(capture) = BufCap => Captured(n) = capture
<1>1. capture \in Seq(0..Chunks) /\ Len(capture) <= BufCap /\ BufCap \in Nat
  BY BoundsAssumption DEF TypeOK
<1>2. PICK c : c = capture
  OBVIOUS
<1>3. c \in Seq(0..Chunks) /\ Len(c) \in Nat
  BY <1>1, <1>2, LenProperties
<1>4. PICK a : a = Append(c, n)
  OBVIOUS
<1>5. Len(a) = Len(c) + 1 /\ (\A k \in 1..Len(c) : a[k] = c[k]) /\ a[Len(c) + 1] = n
  BY <1>3, <1>4, AppendProperties
<1>6. Captured(n) = IF Len(c) < BufCap THEN a ELSE c
  BY <1>2, <1>4 DEF Captured
<1>7. CASE Len(c) < BufCap
  BY <1>1, <1>2, <1>3, <1>5, <1>6, <1>7
<1>8. CASE ~(Len(c) < BufCap)
  BY <1>1, <1>2, <1>3, <1>6, <1>8
<1> QED BY <1>7, <1>8

LEMMA CaptureGrows ==
    ASSUME TypeOK, CaptureInv, Provider # "response", st["conv"] = "run", seen + 1 \in 0..Chunks
    PROVE  /\ \A k \in 1..(seen + 1) : k <= BufCap =>
                  k <= Len(Captured(seen + 1)) /\ Captured(seen + 1)[k] = k
           /\ Len(Captured(seen + 1)) = IF seen + 1 < BufCap THEN seen + 1 ELSE BufCap
<1>1. PICK c, e, L : c = capture /\ e = Captured(seen + 1) /\ L = Len(capture)
  OBVIOUS
<1>2. /\ L \in Nat /\ L <= BufCap /\ BufCap \in Nat /\ \A k \in 1..L : e[k] = c[k]
      /\ L < BufCap => Len(e) = L + 1 /\ e[L + 1] = seen + 1
      /\ L = BufCap => e = c
  BY <1>1, CapturedItem
<1>3. seen \in Nat
  BY BoundsAssumption DEF TypeOK
<1>4. /\ \A k \in 1..seen : k <= BufCap => k <= L /\ c[k] = k
      /\ L = IF seen < BufCap THEN seen ELSE BufCap
  BY <1>1 DEF CaptureInv
<1>5. CASE seen < BufCap
  <2>1. L = seen /\ Len(e) = seen + 1 /\ e[seen + 1] = seen + 1
    BY <1>2, <1>4, <1>5
  <2>2. Len(e) = IF seen + 1 < BufCap THEN seen + 1 ELSE BufCap
    BY <1>2, <1>3, <1>5, <2>1
  <2>3. ASSUME NEW k \in 1..(seen + 1), k <= BufCap PROVE k <= Len(e) /\ e[k] = k
    <3>1. CASE k = seen + 1
      BY <1>3, <2>1, <3>1
    <3>2. CASE k # seen + 1
      <4>1. k \in 1..seen
        BY <1>3, <3>2
      <4> QED BY <1>2, <1>3, <1>4, <2>1, <2>3, <4>1
    <3> QED BY <3>1, <3>2
  <2> QED BY <1>1, <2>2, <2>3
<1>6. CASE ~(seen < BufCap)
  <2>1. L = BufCap /\ e = c /\ Len(e) = BufCap
    BY <1>1, <1>2, <1>4, <1>6
  <2>2. Len(e) = IF seen + 1 < BufCap THEN seen + 1 ELSE BufCap
    BY <1>2, <1>3, <1>6, <2>1
  <2>3. ASSUME NEW k \in 1..(seen + 1), k <= BufCap PROVE k <= Len(e) /\ e[k] = k
    <3>1. k \in 1..seen
      BY <1>2, <1>3, <1>6, <2>3
    <3> QED BY <1>1, <1>4, <2>1, <2>3, <3>1
  <2> QED BY <1>1, <2>2, <2>3
<1> QED BY <1>5, <1>6

\* The zero chunk of the end goes after those.
LEMMA CaptureEnds ==
    ASSUME TypeOK, CaptureInv, Provider # "response"
    PROVE  \A k \in 1..seen : k <= BufCap => k <= Len(Captured(0)) /\ Captured(0)[k] = k
<1>1. 0 \in 0..Chunks /\ seen \in Nat
  BY BoundsAssumption DEF TypeOK
<1>2. PICK c, e, L : c = capture /\ e = Captured(0) /\ L = Len(capture)
  OBVIOUS
<1>3. /\ L \in Nat /\ L <= BufCap /\ BufCap \in Nat /\ \A k \in 1..L : e[k] = c[k]
      /\ L < BufCap => Len(e) = L + 1
      /\ L = BufCap => e = c
  BY <1>1, <1>2, CapturedItem
<1>4. \A k \in 1..seen : k <= BufCap => k <= L /\ c[k] = k
  BY <1>2 DEF CaptureInv
<1>5. L <= Len(e)
  BY <1>2, <1>3
<1>6. ASSUME NEW k \in 1..seen, k <= BufCap PROVE k <= Len(e) /\ e[k] = k
  <2>1. k <= L /\ c[k] = k /\ k \in 1..L
    BY <1>1, <1>3, <1>4, <1>6
  <2>2. Len(e) = L \/ Len(e) = L + 1
    BY <1>2, <1>3
  <2>3. k <= Len(e)
    BY <1>1, <1>3, <2>1, <2>2
  <2> QED BY <1>3, <2>1, <2>3
<1> QED BY <1>2, <1>6

\* The next chunk that is converted is the one after the last.
LEMMA NextChunk ==
    ASSUME TypeOK, StagesInv, ReaderInv, ConvertChunk
    PROVE  seen' = seen + 1 /\ seen + 1 \in 0..Chunks /\ Offered("reader") = Delta(seen + 1)
<1>1. /\ Provider = "chat" /\ Idle("conv") /\ Ready("reader") /\ seen' = Offered("reader").n
  BY DEF ConvertChunk
<1>2. Cap["reader"] > 0 /\ "reader" \in Stages
  BY Setup, BoundsAssumption DEF Stages
<1>3. PICK c : c = chan["reader"]
  OBVIOUS
<1>4. c # <<>> /\ Offered("reader") = Head(c)
  BY <1>1, <1>2, <1>3 DEF Ready, Offered
<1>5. c \in Seq(Item) /\ \A i \in 1..Len(c) : c[i] = Delta(seen + i)
  BY <1>1, <1>2, <1>3 DEF TypeOK, ReaderInv
<1>6. Head(c) = c[1] /\ 1 \in 1..Len(c)
  BY <1>4, <1>5, HeadTailProperties, LenProperties, EmptySeq
<1>7. Offered("reader") = Delta(seen + 1)
  BY <1>4, <1>5, <1>6
<1>8. Offered("reader") \in Item
  BY <1>1, <1>2, OfferedItem
<1>9. Offered("reader").n = seen + 1 /\ Offered("reader").n \in 0..Chunks
  BY <1>7, <1>8 DEF Delta, Item
<1> QED BY <1>1, <1>7, <1>9

LEMMA CaptureSame ==
    ASSUME CaptureInv, UNCHANGED <<setup, seen, capture>>,
           st'["conv"] \in {"off", "run"} => st["conv"] \in {"off", "run"}
    PROVE  CaptureInv'
<1>1. Provider' = Provider
  BY Kept
<1> QED BY <1>1 DEF CaptureInv

LEMMA CaptureKeeps ==
    ASSUME IInv, Next, Intact'
    PROVE  CaptureInv'
<1>1. TypeOK /\ StagesInv /\ PhaseInv /\ ReaderInv /\ CaptureInv
  BY LiveStep DEF IInv
<1>2. /\ "reader" \in Stages /\ "conv" \in Stages /\ Source \in Stages
  BY DEF Stages, Source
<1>3. /\ st \in [Stages -> {"off", "run", "last", "ended"}] /\ seen \in Nat
  BY <1>1, BoundsAssumption DEF TypeOK
<1>4. CASE ReadChunk
  BY <1>1, <1>4, CaptureSame DEF ReadChunk
<1>5. CASE PullEvent
  <2>1. /\ Source = "conv" /\ st["conv"] = "run" /\ got < Chunks /\ seen' = got + 1
        /\ UNCHANGED <<setup, st>>
        /\ capture' = IF Provider = "anthropic" THEN Captured(got + 1) ELSE capture
    BY <1>5 DEF PullEvent, Idle
  <2>2. Provider \in {"anthropic", "response"} /\ Provider' = Provider /\ seen = got
    BY <1>1, <2>1, Setup, Kept DEF Source, ReaderInv
  <2>3. CASE Provider = "response"
    BY <2>2, <2>3 DEF CaptureInv
  <2>4. CASE Provider = "anthropic"
    <3>1. seen + 1 \in 0..Chunks
      BY <1>3, <2>1, <2>2, BoundsAssumption
    <3>2. PICK e, n : e = Captured(seen + 1) /\ n = seen + 1
      OBVIOUS
    <3>3. capture' = e /\ seen' = n
      BY <2>1, <2>2, <2>4, <3>2
    <3>4. /\ \A k \in 1..n : k <= BufCap => k <= Len(e) /\ e[k] = k
          /\ Len(e) = IF n < BufCap THEN n ELSE BufCap
      BY <1>1, <2>1, <2>4, <3>1, <3>2, CaptureGrows
    <3> QED BY <3>3, <3>4 DEF CaptureInv
  <2> QED BY <2>2, <2>3, <2>4
<1>6. CASE SourceEnds
  <2>1. UNCHANGED <<setup, seen, capture>> /\ st[Source] = "run"
    BY <1>6 DEF SourceEnds, Idle
  <2>2. \E x : st' = [st EXCEPT ![Source] = x] \/ st' = [st EXCEPT !["conv"] = x]
    BY <1>6 DEF SourceEnds, End, LastWords
  <2>3. Source \in {"reader", "conv"} /\ (Source = "reader" => Provider = "chat")
    BY DEF Source
  <2>4. st' = [st EXCEPT ![Source] = "ended"] \/ st' = [st EXCEPT !["conv"] = "last"]
    BY <1>6 DEF SourceEnds, End, LastWords
  <2>5. st'["conv"] \in {"off", "run"} => st["conv"] \in {"off", "run"}
    BY <1>2, <1>3, <2>3, <2>4
  <2> QED BY <1>1, <2>1, <2>5, CaptureSame
<1>7. CASE ConvertChunk
  <2>1. /\ Provider = "chat" /\ st["conv"] = "run" /\ UNCHANGED <<setup, st>>
        /\ capture' = Captured(Offered("reader").n) /\ seen' = Offered("reader").n
    BY <1>7 DEF ConvertChunk, Idle
  <2>2. seen' = seen + 1 /\ seen + 1 \in 0..Chunks
    BY <1>1, <1>7, NextChunk
  <2>3. PICK e, n : e = Captured(seen + 1) /\ n = seen + 1
    OBVIOUS
  <2>4. capture' = e /\ seen' = n
    BY <2>1, <2>2, <2>3
  <2>5. /\ \A k \in 1..n : k <= BufCap => k <= Len(e) /\ e[k] = k
        /\ Len(e) = IF n < BufCap THEN n ELSE BufCap
    BY <1>1, <2>1, <2>2, <2>3, CaptureGrows
  <2> QED BY <2>4, <2>5 DEF CaptureInv
<1>8. CASE ChunksEnd
  <2>1. /\ Provider = "chat" /\ UNCHANGED <<setup, seen>> /\ capture' = Captured(0)
        /\ st' = [st EXCEPT !["conv"] = "last"]
    BY <1>8 DEF ChunksEnd, LastWords
  <2>2. st'["conv"] = "last"
    BY <1>2, <1>3, <2>1
  <2>3. PICK e : e = Captured(0)
    OBVIOUS
  <2>4. \A k \in 1..seen : k <= BufCap => k <= Len(e) /\ e[k] = k
    BY <1>1, <2>1, <2>3, CaptureEnds
  <2> QED BY <2>1, <2>2, <2>3, <2>4 DEF CaptureInv
<1>9. CASE Send("reader") \/ Send("conv")
  BY <1>1, <1>9, CaptureSame DEF Send
<1>10. CASE Downstream
  BY <1>1, <1>10, DownstreamKeeps, CaptureSame
<1> QED BY <1>4, <1>5, <1>6, <1>7, <1>8, <1>9, <1>10, LiveCases

---------------------------------------------------------------------------
(* What was written and what is on the way are the events made so far *)

LEMMA FlowIsStream ==
    /\ FlowInv <=> Streams(Flow, Deltas, Emitted, Usage, ~Emitted /\ ~Over("conv"), Ingress = "responses")
    /\ FlowInv' <=> Streams(Flow', Deltas', Emitted', Usage', ~Emitted' /\ ~Over("conv")', Ingress' = "responses")
  BY Zenon DEF FlowInv, Streams, Delta

LEMMA FlowTyped ==
    ASSUME TypeOK
    PROVE  Flow \in Seq(Item) /\ OnTheWay \in Seq(Item)
<1>1. PICK a, b, c, d, e, w : /\ a = hand["frames"] /\ b = hand["client"] /\ c = hand["tee"]
                              /\ d = chan["conv"] /\ e = hand["conv"] /\ w = written
  OBVIOUS
<1>2. /\ a \in Seq(Item) /\ b \in Seq(Item) /\ c \in Seq(Item) /\ d \in Seq(Item)
      /\ e \in Seq(Item) /\ w \in Seq(Item)
  BY <1>1 DEF TypeOK, Stages
<1>3. PICK q : q = Queue(a, b, c, d, e, KeptItems)
  OBVIOUS
<1>4. q \in Seq(Item)
  BY <1>2, <1>3, QueueTyped
<1>5. Join(w, q) \in Seq(Item)
  BY <1>2, <1>4, JoinTyped
<1> QED BY <1>1, <1>3, <1>4, <1>5, WayIsQueue

LEMMA DeltasTyped ==
    ASSUME TypeOK
    PROVE  Deltas \in Nat
<1>1. Chunks \in Nat \ {0} /\ got \in Nat /\ seen \in Nat
  BY BoundsAssumption DEF TypeOK
<1> QED BY <1>1 DEF Deltas

\* The stream is left as it is, and the converter at most ends.
LEMMA FlowSame ==
    ASSUME FlowInv, Flow' = Flow, UNCHANGED <<setup, Deltas, Usage>>,
           Emitted' <=> Emitted, Over("conv") => Over("conv")'
    PROVE  FlowInv'
<1>1. Ingress' = Ingress
  BY Kept
<1>2. Streams(Flow, Deltas, Emitted, Usage, ~Emitted /\ ~Over("conv"), Ingress = "responses")
  BY FlowIsStream
<1>3. Streams(Flow', Deltas', Emitted', Usage', ~Emitted' /\ ~Over("conv")', Ingress' = "responses")
  BY <1>1, <1>2 DEF Streams
<1> QED BY <1>3, FlowIsStream

\* It gets a last event.
LEMMA FlowLast ==
    ASSUME TypeOK, FlowInv, NEW x \in Item, x.type \in {"failed", "finish"}, Flow' = Join(Flow, <<x>>),
           UNCHANGED <<setup, Deltas, Usage>>, Emitted' <=> Emitted, Over("conv")' \/ Emitted
    PROVE  FlowInv'
<1>1. Ingress' = Ingress
  BY Kept
<1>2. PICK F, d, u : F = Flow /\ d = Deltas /\ u = Usage
  OBVIOUS
<1>3. F \in Seq(Item) /\ d \in Nat
  BY <1>2, FlowTyped, DeltasTyped
<1>4. Streams(F, d, Emitted, u, ~Emitted /\ ~Over("conv"), Ingress = "responses")
  BY <1>2, FlowIsStream, Zenon
<1>5. Streams(F \o <<x>>, d, Emitted, u, FALSE, Ingress = "responses")
  BY <1>3, <1>4, StreamLast
<1>6. Flow' = F \o <<x>>
  BY <1>2, Zenon DEF Join
<1>7. Streams(Flow', d, Emitted, u, FALSE, Ingress = "responses")
  BY <1>5, <1>6, Zenon
<1>8. Streams(Flow', Deltas', Emitted', Usage', ~Emitted' /\ ~Over("conv")', Ingress' = "responses")
  BY <1>1, <1>2, <1>7 DEF Streams
<1> QED BY <1>8, FlowIsStream

\* It gets the next delta.
LEMMA FlowDelta ==
    ASSUME TypeOK, FlowInv, UNCHANGED setup, Deltas + 1 \in 0..Chunks,
           Flow' = Join(Flow, FramesOf(Delta(Deltas + 1))),
           ~Emitted, ~Over("conv"), ~Emitted', ~Over("conv")', Deltas' = Deltas + 1
    PROVE  FlowInv'
<1>1. PICK F, d, u, v, b : F = Flow /\ d = Deltas /\ u = Usage /\ v = Usage' /\ b = (Ingress = "responses")
  OBVIOUS
<1>2. (Ingress' = "responses") = b
  BY <1>1, Kept
<1>3. F \in Seq(Item) /\ d \in Nat /\ Delta(d + 1) \in Item
  BY <1>1, FlowTyped, DeltasTyped, ItemFacts
<1>4. Streams(F, d, Emitted, u, ~Emitted /\ ~Over("conv"), b)
  BY <1>1, FlowIsStream, Zenon
<1>5. Streams(F, d, FALSE, u, TRUE, b)
  BY <1>4 DEF Streams
<1>6. Streams(F \o <<Delta(d + 1)>>, d + 1, FALSE, v, TRUE, b)
  BY <1>3, <1>5, StreamDelta
<1>7. FramesOf(Delta(d + 1)) = <<Delta(d + 1)>>
  BY DEF FramesOf, Delta
<1>8. Flow' = F \o <<Delta(d + 1)>>
  BY <1>1, <1>7, Zenon DEF Join
<1>9. Streams(Flow', d + 1, FALSE, v, TRUE, b)
  BY <1>6, <1>8, Zenon
<1>10. Streams(Flow', Deltas', Emitted', Usage', ~Emitted' /\ ~Over("conv")', Ingress' = "responses")
  BY <1>1, <1>2, <1>9 DEF Streams
<1> QED BY <1>10, FlowIsStream

\* It gets the completed event, which Chat Completions has no frame for.
LEMMA FlowCompleted ==
    ASSUME TypeOK, FlowInv, UNCHANGED setup, Usage' \in 0..Chunks,
           Flow' = Join(Flow, FramesOf(Completed(Usage'))),
           ~Emitted, Emitted', Deltas' = Deltas
    PROVE  FlowInv'
<1>1. PICK F, d, u, v : F = Flow /\ d = Deltas /\ u = Usage /\ v = Usage'
  OBVIOUS
<1>2. Ingress' = Ingress
  BY Kept
<1>3. F \in Seq(Item) /\ d \in Nat /\ v \in 0..Chunks /\ Completed(v) \in Item
  BY <1>1, FlowTyped, DeltasTyped, ItemFacts
<1>4. Streams(F, d, Emitted, u, ~Emitted /\ ~Over("conv"), Ingress = "responses")
  BY <1>1, FlowIsStream, Zenon
<1>5. CASE Ingress = "responses"
  <2>1. Streams(F, d, FALSE, u, ~Over("conv"), TRUE)
    BY <1>4, <1>5 DEF Streams
  <2>2. Streams(F \o <<Completed(v)>>, d, TRUE, v, FALSE, TRUE)
    BY <1>3, <2>1, StreamCompleted
  <2>3. FramesOf(Completed(v)) = <<Completed(v)>>
    BY <1>5 DEF FramesOf
  <2>4. Flow' = F \o <<Completed(v)>>
    BY <1>1, <2>3, Zenon DEF Join
  <2>5. Streams(Flow', d, TRUE, v, FALSE, TRUE)
    BY <2>2, <2>4, Zenon
  <2>6. Streams(Flow', Deltas', Emitted', Usage', ~Emitted' /\ ~Over("conv")', Ingress' = "responses")
    BY <1>1, <1>2, <1>5, <2>5 DEF Streams
  <2> QED BY <2>6, FlowIsStream
<1>6. CASE Ingress # "responses"
  <2>1. Streams(F, d, FALSE, u, ~Over("conv"), FALSE)
    BY <1>4, <1>6 DEF Streams
  <2>2. Streams(F, d, TRUE, v, FALSE, FALSE)
    BY <2>1, StreamUnframed
  <2>3. FramesOf(Completed(v)) = <<>>
    BY <1>6, Setup DEF FramesOf, Completed
  <2>4. Flow' = F
    BY <1>1, <1>3, <2>3, JoinEmpty
  <2>5. Streams(Flow', d, TRUE, v, FALSE, FALSE)
    BY <2>2, <2>4, Zenon
  <2>6. Streams(Flow', Deltas', Emitted', Usage', ~Emitted' /\ ~Over("conv")', Ingress' = "responses")
    BY <1>1, <1>2, <1>6, <2>5 DEF Streams
  <2> QED BY <2>6, FlowIsStream
<1> QED BY <1>5, <1>6

LEMMA MarksSame ==
    ASSUME UNCHANGED <<setup, got, seen>>, Provider = "chat" => (Over("conv")' <=> Over("conv"))
    PROVE  Deltas' = Deltas /\ Usage' = Usage /\ (Emitted' <=> Emitted)
<1>1. Provider' = Provider
  BY Kept
<1> QED BY <1>1 DEF Deltas, Usage, Emitted

LEMMA DownstreamFlow ==
    ASSUME TypeOK, StagesInv, Downstream, link = "up"
    PROVE  Flow' = Flow \/ (Flow' = Join(Flow, <<FinishFrames>>) /\ Over("conv"))
<1>1. /\ "conv" \in Stages /\ "tee" \in Stages /\ "client" \in Stages /\ "frames" \in Stages
  BY DEF Stages
<1>2. hand \in [Stages -> Seq(Item)]
  BY DEF TypeOK
<1>3. ASSUME UNCHANGED <<setup, written, hand, chan>> PROVE Flow' = Flow
  BY <1>3, WaySame
<1>4. CASE Tee
  BY <1>4, WayTee
<1>5. CASE ClientEvent
  BY <1>5, WayClient
<1>6. CASE Forward
  BY <1>6, WayForward
<1>7. CASE Close("conv") \/ Close("client")
  <2>1. UNCHANGED <<setup, written, hand, chan>>
    BY <1>7 DEF Close, handler
  <2> QED BY <1>3, <2>1
<1>8. ASSUME NEW s \in Stages, RelayEnds(s)
      PROVE  Flow' = Flow \/ (Flow' = Join(Flow, <<FinishFrames>>) /\ Over("conv"))
  <2>1. CASE s = "client" /\ Ingress = "chat"
    <3>1. st["tee"] = "ended"
      BY <1>8, <2>1, Setup DEF RelayEnds, Closed
    <3>2. Over("conv")
      BY <3>1 DEF StagesInv, Over
    <3> QED BY <1>8, <2>1, <3>2, WayFinish
  <2>2. CASE ~(s = "client" /\ Ingress = "chat")
    <3>1. UNCHANGED <<setup, written, hand, chan>>
      BY <1>8, <2>2 DEF RelayEnds, End, handler
    <3> QED BY <1>3, <3>1
  <2> QED BY <2>1, <2>2
<1>9. CASE StartConv \/ StartClient \/ FramesEnd \/ SettleUsage \/ ReadBuffer \/ Return
  <2>1. UNCHANGED <<setup, written, hand, chan>>
    BY <1>9 DEF StartConv, StartClient, FramesEnd, SettleUsage, ReadBuffer, Return, chain
  <2> QED BY <1>3, <2>1
<1>10. CASE WriteFrame
  <2>1. Ready(Out) /\ ReceiveFrame /\ UNCHANGED setup /\ written' = Append(written, Offered(Out))
    BY <1>10 DEF WriteFrame
  <2> QED BY <2>1, WayWritten
<1> QED BY <1>4, <1>5, <1>6, <1>7, <1>8, <1>9, <1>10 DEF Downstream

\* The converter takes e, the next event of an upstream that it reads itself.
LEMMA FlowPulled ==
    ASSUME TypeOK, StagesInv, ReaderInv, FlowInv, PullEvent
    PROVE  FlowInv'
<1>1. /\ Source = "conv" /\ st["conv"] = "run" /\ hand["conv"] = <<>> /\ got < Chunks /\ got' = got + 1
      /\ UNCHANGED <<setup, st, chan, written>> /\ hand' = [hand EXCEPT !["conv"] = <<CoreEvent(got + 1)>>]
  BY DEF PullEvent, Idle, handler
<1>2. Provider # "chat" /\ Provider' = Provider
  BY <1>1, Kept DEF Source
<1>3. got \in Nat /\ Chunks \in Nat \ {0} /\ got + 1 \in 0..Chunks
  BY <1>1, BoundsAssumption DEF TypeOK
<1>4. PICK e : e = CoreEvent(got + 1)
  OBVIOUS
<1>5. e \in Item
  BY <1>3, <1>4, ItemFacts
<1>6. /\ hand'["conv"] = <<e>> /\ chan'["conv"] = chan["conv"] /\ hand'["tee"] = hand["tee"]
      /\ hand'["client"] = hand["client"] /\ hand'["frames"] = hand["frames"]
  BY <1>1, <1>4 DEF TypeOK, Stages
<1>7. Flow' = Join(Flow, FramesOf(e))
  BY <1>1, <1>5, <1>6, WayGrows
<1>8. Deltas = got /\ ~Emitted /\ ~Over("conv") /\ ~Over("conv")'
  BY <1>1, <1>2, <1>3 DEF Deltas, Emitted, Over
<1>9. CASE got + 1 = Chunks
  <2>1. e = Completed(Chunks) /\ Usage' = Chunks /\ Chunks \in 0..Chunks
    BY <1>2, <1>3, <1>4, <1>9 DEF CoreEvent, Usage
  <2>2. Emitted' /\ Deltas' = got
    BY <1>1, <1>2, <1>3, <1>9 DEF Emitted, Deltas
  <2>3. Usage' \in 0..Chunks /\ Flow' = Join(Flow, FramesOf(Completed(Usage')))
    BY <1>7, <2>1, Zenon
  <2> QED BY <1>1, <1>8, <2>2, <2>3, FlowCompleted
<1>10. CASE got + 1 # Chunks
  <2>1. e = Delta(got + 1)
    BY <1>4, <1>10 DEF CoreEvent
  <2>2. ~Emitted' /\ Deltas' = got + 1
    BY <1>1, <1>2, <1>3, <1>10 DEF Emitted, Deltas
  <2>3. Flow' = Join(Flow, FramesOf(Delta(Deltas + 1)))
    BY <1>7, <1>8, <2>1, Zenon
  <2>4. Deltas + 1 \in 0..Chunks /\ Deltas' = Deltas + 1
    BY <1>3, <1>8, <2>2
  <2> QED BY <1>1, <1>8, <2>2, <2>3, <2>4, FlowDelta
<1> QED BY <1>9, <1>10

\* It takes the next chunk, or what it makes of their end.
LEMMA FlowConverted ==
    ASSUME TypeOK, StagesInv, ReaderInv, FlowInv, ConvertChunk \/ ChunksEnd
    PROVE  FlowInv'
<1>1. "conv" \in Stages /\ "tee" \in Stages /\ "client" \in Stages /\ "frames" \in Stages /\ "reader" \in Stages
  BY DEF Stages
<1>2. Provider = "chat" /\ hand["conv"] = <<>> /\ st["conv"] = "run" /\ UNCHANGED <<setup, got, written>>
  BY DEF ConvertChunk, ChunksEnd, Idle, handler
<1>3. Provider' = Provider
  BY <1>2, Kept
<1>4. Deltas = seen /\ ~Emitted /\ ~Over("conv") /\ Deltas' = seen'
  BY <1>2, <1>3 DEF Deltas, Emitted, Over
<1>5. hand \in [Stages -> Seq(Item)]
  BY DEF TypeOK
<1>6. CASE ConvertChunk
  <2>1. seen' = seen + 1 /\ seen + 1 \in 0..Chunks /\ Offered("reader") = Delta(seen + 1)
    BY <1>6, NextChunk
  <2>2. PICK e : e = Offered("reader")
    OBVIOUS
  <2>3. Ready("reader") /\ Receive("conv", <<e>>) /\ UNCHANGED st
    BY <1>6, <2>2 DEF ConvertChunk
  <2>4. e \in Item
    BY <1>1, <2>2, <2>3, OfferedItem
  <2>5. Cap["reader"] > 0 /\ "reader" = Input["conv"] /\ "reader" # "conv" /\ <<e>> \in Seq(Item)
    BY <2>4, Setup, BoundsAssumption
  <2>6. /\ hand'["conv"] = <<e>>
        /\ \A x \in Stages \ {"reader", "conv"} : hand'[x] = hand[x]
        /\ \A x \in Stages \ {"reader"} : chan'[x] = chan[x]
    BY <1>1, <2>3, <2>5, Received, ZenonT(60)
  <2>7. Flow' = Join(Flow, FramesOf(e))
    BY <1>1, <1>2, <2>4, <2>6, WayGrows
  <2>8. ~Emitted' /\ ~Over("conv")'
    BY <1>2, <1>3, <2>3 DEF Emitted, Over
  <2>9. Flow' = Join(Flow, FramesOf(Delta(Deltas + 1)))
    BY <1>4, <2>1, <2>2, <2>7, Zenon
  <2>10. Deltas + 1 \in 0..Chunks /\ Deltas' = Deltas + 1
    BY <1>4, <2>1
  <2> QED BY <1>2, <1>4, <2>8, <2>9, <2>10, FlowDelta
<1>7. CASE ChunksEnd
  <2>1. PICK e : e = Completed(IF seen = Chunks THEN Chunks ELSE 0)
    OBVIOUS
  <2>2. /\ hand' = [hand EXCEPT !["conv"] = <<e>>] /\ st' = [st EXCEPT !["conv"] = "last"]
        /\ UNCHANGED <<seen, chan>>
    BY <1>7, <2>1 DEF ChunksEnd, LastWords
  <2>3. Usage' = (IF seen = Chunks THEN Chunks ELSE 0) /\ Usage' \in 0..Chunks
    BY <1>2, <1>3, <2>2, BoundsAssumption DEF Usage
  <2>4. e \in Item /\ e = Completed(Usage')
    BY <2>1, <2>3, ItemFacts
  <2>5. /\ hand'["conv"] = <<e>> /\ hand'["tee"] = hand["tee"] /\ hand'["client"] = hand["client"]
        /\ hand'["frames"] = hand["frames"] /\ chan'["conv"] = chan["conv"]
    BY <1>1, <1>5, <2>2
  <2>6. Flow' = Join(Flow, FramesOf(e))
    BY <1>2, <2>4, <2>5, WayGrows
  <2>7. Flow' = Join(Flow, FramesOf(Completed(Usage')))
    BY <2>4, <2>6, Zenon
  <2>8. st'["conv"] = "last"
    BY <1>1, <2>2 DEF TypeOK
  <2>9. Emitted'
    BY <1>2, <1>3, <2>8 DEF Emitted, Over
  <2> QED BY <1>2, <1>4, <2>2, <2>3, <2>7, <2>9, FlowCompleted
<1> QED BY <1>6, <1>7

LEMMA FlowKeeps ==
    ASSUME IInv, Next, Intact'
    PROVE  FlowInv'
<1>1. TypeOK /\ StagesInv /\ PhaseInv /\ ReaderInv /\ FlowInv /\ link = "up"
  BY LiveStep DEF IInv
<1>2. "conv" \in Stages /\ "tee" \in Stages /\ "client" \in Stages /\ "frames" \in Stages /\ "reader" \in Stages
  BY DEF Stages
<1>3. hand \in [Stages -> Seq(Item)] /\ st \in [Stages -> {"off", "run", "last", "ended"}]
  BY <1>1 DEF TypeOK
<1>4. CASE ReadChunk
  <2>1. /\ UNCHANGED <<setup, st, chan, seen, written>> /\ Provider = "chat"
        /\ hand' = [hand EXCEPT !["reader"] = <<Delta(got + 1)>>]
    BY <1>4 DEF ReadChunk, Source, handler
  <2>2. Flow' = Flow
    BY <1>2, <1>3, <2>1, WaySame
  <2>3. Provider' = Provider
    BY <2>1, Kept
  <2>4. Deltas' = Deltas /\ Usage' = Usage /\ (Emitted' <=> Emitted) /\ (Over("conv")' <=> Over("conv"))
    BY <2>1, <2>3 DEF Deltas, Usage, Emitted, Over
  <2> QED BY <1>1, <2>1, <2>2, <2>4, FlowSame
<1>5. CASE PullEvent
  BY <1>1, <1>5, FlowPulled
<1>6. CASE ConvertChunk \/ ChunksEnd
  BY <1>1, <1>6, FlowConverted
<1>7. CASE SourceEnds
  <2>1. UNCHANGED <<setup, chan, got, seen, written>> /\ Idle(Source)
    BY <1>7 DEF SourceEnds, handler
  <2>2. Source \in {"reader", "conv"} /\ (Provider = "chat" <=> Source = "reader")
    BY DEF Source
  <2>3. CASE End(Source)
    <3>1. hand' = hand /\ st' = [st EXCEPT ![Source] = "ended"]
      BY <2>3 DEF End
    <3>2. Flow' = Flow
      BY <2>1, <3>1, WaySame
    <3>3. (Provider = "chat" => (Over("conv")' <=> Over("conv"))) /\ (Over("conv") => Over("conv")')
      BY <1>2, <1>3, <2>2, <3>1 DEF Over
    <3> QED BY <1>1, <2>1, <3>2, <3>3, MarksSame, FlowSame
  <2>4. CASE ~End(Source)
    <3>1. /\ Provider = "anthropic" /\ LastWords("conv", <<Failed>>)
      BY <1>7, <2>4 DEF SourceEnds
    <3>2. /\ hand["conv"] = <<>> /\ hand' = [hand EXCEPT !["conv"] = <<Failed>>]
          /\ st' = [st EXCEPT !["conv"] = "last"]
      BY <2>1, <3>1 DEF Idle, Source, LastWords
    <3>3. Failed \in Item /\ Failed.type \in {"failed", "finish"}
      BY <1>1, ItemFacts DEF Failed
    <3>4. PICK x : x = Failed
      OBVIOUS
    <3>5. /\ hand'["conv"] = <<x>> /\ hand'["tee"] = hand["tee"] /\ hand'["client"] = hand["client"]
          /\ hand'["frames"] = hand["frames"] /\ chan'["conv"] = chan["conv"]
      BY <1>2, <1>3, <2>1, <3>2, <3>4
    <3>6. x \in Item /\ x.type \in {"failed", "finish"} /\ FramesOf(x) = <<x>>
      BY <3>3, <3>4 DEF FramesOf, Failed
    <3>7. Flow' = Join(Flow, <<x>>)
      BY <1>1, <2>1, <3>2, <3>5, <3>6, WayGrows
    <3>8. Over("conv")'
      BY <1>2, <1>3, <3>2 DEF Over
    <3>9. Deltas' = Deltas /\ Usage' = Usage /\ (Emitted' <=> Emitted)
      BY <2>1, <3>1, MarksSame
    <3> QED BY <1>1, <2>1, <3>6, <3>7, <3>8, <3>9, FlowLast
  <2> QED BY <2>3, <2>4
<1>8. ASSUME NEW s \in Stages, Send(s) PROVE FlowInv'
  <2>1. UNCHANGED <<setup, st, got, seen>>
    BY <1>8 DEF Send
  <2>2. Flow' = Flow
    BY <1>1, <1>8, WaySend
  <2>3. Over("conv")' <=> Over("conv")
    BY <2>1 DEF Over
  <2> QED BY <1>1, <2>1, <2>2, <2>3, MarksSame, FlowSame
<1>9. CASE Downstream
  <2>1. UNCHANGED <<setup, got, seen>> /\ (Over("conv")' <=> Over("conv"))
    BY <1>1, <1>9, DownstreamKeeps
  <2>2. Deltas' = Deltas /\ Usage' = Usage /\ (Emitted' <=> Emitted)
    BY <2>1, MarksSame
  <2>3. CASE Flow' = Flow
    BY <1>1, <2>1, <2>2, <2>3, FlowSame
  <2>4. CASE Flow' = Join(Flow, <<FinishFrames>>) /\ Over("conv")
    <3>1. FinishFrames \in Item /\ FinishFrames.type \in {"failed", "finish"}
      BY <1>1, ItemFacts DEF FinishFrames
    <3> QED BY <1>1, <2>1, <2>2, <2>4, <3>1, FlowLast
  <2> QED BY <1>1, <1>9, <2>3, <2>4, DownstreamFlow
<1> QED BY <1>2, <1>4, <1>5, <1>6, <1>7, <1>8, <1>9, LiveCases

---------------------------------------------------------------------------
(* The usage of the response *)

LEMMA FinalSame ==
    ASSUME FinalInv, UNCHANGED <<setup, written, finalResp>>
    PROVE  FinalInv'
<1>1. Ingress' = Ingress
  BY Kept
<1> QED BY <1>1 DEF FinalInv, NoResponse

LEMMA FinalKeeps ==
    ASSUME IInv, Next, Intact'
    PROVE  FinalInv'
<1>1. TypeOK /\ StagesInv /\ PhaseInv /\ FinalInv /\ link = "up" /\ ~Refuse /\ ~Drain /\ ~Break /\ ~Cancel
  BY LiveStep DEF IInv
<1>2. CASE ChainStep
  <2>1. UNCHANGED <<setup, handler>>
    BY <1>1, <1>2, ChainSteps
  <2> QED BY <1>1, <2>1, FinalSame DEF handler
<1>3. CASE WriteFrame
  <2>1. PICK f : f = Offered(Out)
    OBVIOUS
  <2>2. /\ Ready(Out) /\ UNCHANGED setup /\ written' = Append(written, f)
        /\ finalResp' = IF Ingress = "responses" /\ f.type = "completed" THEN f.n ELSE finalResp
    BY <1>1, <1>3, <2>1 DEF WriteFrame
  <2>3. Out \in Stages
    BY DEF Out, Stages
  <2>4. f \in Item
    BY <1>1, <2>1, <2>2, <2>3, OfferedItem
  <2>5. PICK w, v : w = written /\ v = Append(written, f)
    OBVIOUS
  <2>6. w \in Seq(Item)
    BY <1>1, <2>5 DEF TypeOK
  <2>7. Len(v) = Len(w) + 1 /\ Len(w) \in Nat /\ (\A i \in 1..Len(w) : v[i] = w[i]) /\ v[Len(w) + 1] = f
    BY <2>4, <2>5, <2>6, AppendProperties, LenProperties
  <2>8. Ingress' = Ingress
    BY <2>2, Kept
  <2>9. SUFFICES ASSUME Ingress = "responses"
                 PROVE  \/ finalResp' = NoResponse /\ \A i \in 1..Len(v) : v[i].type # "completed"
                        \/ \E i \in 1..Len(v) : v[i].type = "completed" /\ finalResp' = v[i].n
    BY <2>2, <2>5, <2>8 DEF FinalInv, NoResponse
  <2>10. CASE f.type = "completed"
    <3>1. Len(w) + 1 \in 1..Len(v)
      BY <2>7
    <3> QED BY <2>2, <2>7, <2>9, <2>10, <3>1
  <2>11. CASE f.type # "completed"
    <3>1. finalResp' = finalResp
      BY <2>2, <2>11
    <3>2. CASE finalResp = NoResponse /\ \A i \in 1..Len(w) : w[i].type # "completed"
      <4>1. ASSUME NEW i \in 1..Len(v) PROVE v[i].type # "completed"
        <5>1. CASE i = Len(w) + 1
          BY <2>7, <2>11, <5>1
        <5>2. CASE i # Len(w) + 1
          <6>1. i \in 1..Len(w)
            BY <2>7, <5>2
          <6> QED BY <2>7, <3>2, <6>1
        <5> QED BY <5>1, <5>2
      <4> QED BY <3>1, <3>2, <4>1
    <3>3. ASSUME NEW i \in 1..Len(w), w[i].type = "completed", finalResp = w[i].n
          PROVE  \E j \in 1..Len(v) : v[j].type = "completed" /\ finalResp' = v[j].n
      <4>1. i \in 1..Len(v) /\ v[i] = w[i]
        BY <2>7
      <4> QED BY <3>1, <3>3, <4>1
    <3> QED BY <1>1, <2>5, <2>9, <3>2, <3>3 DEF FinalInv
  <2> QED BY <2>10, <2>11
<1>4. CASE StartConv \/ StartClient \/ FramesEnd \/ SettleUsage \/ ReadBuffer \/ Return
  BY <1>1, <1>4, FinalSame DEF StartConv, StartClient, FramesEnd, SettleUsage, ReadBuffer, Return
<1> QED BY <1>1, <1>2, <1>3, <1>4, Steps DEF HandlerMove

---------------------------------------------------------------------------
(* What the tee has noted *)

LEMMA TeeSame ==
    ASSUME TeeInv, hand'["conv"] = hand["conv"], chan'["conv"] = chan["conv"], coreUsage' = coreUsage,
           Emitted' <=> Emitted, Usage' = Usage
    PROVE  TeeInv'
<1>1. \A e : Held(e)' <=> Held(e)
  BY DEF Held
<1> QED BY <1>1 DEF TeeInv, Item, Completed

\* The converter takes x in hand, and no completed event went before it.
LEMMA TeeHolds ==
    ASSUME TypeOK, TeeInv, ~Emitted, NEW x \in Item, hand'["conv"] = <<x>>, chan'["conv"] = chan["conv"],
           x.type = "completed" => Emitted' /\ x.n = Usage', Emitted' => x = Completed(Usage')
    PROVE  TeeInv'
<1>1. PICK y : y = <<x>>
  OBVIOUS
<1>2. hand'["conv"] = y
  BY <1>1
<1>3. \A e : y = <<e>> => e = x
  BY <1>1
<1>4. \A e \in Item : Held(e)' /\ e.type = "completed" => Emitted' /\ e.n = Usage'
  BY <1>2, <1>3 DEF Held, TeeInv
<1>5. Emitted' /\ Usage' = Chunks => Held(Completed(Chunks))'
  BY <1>1, <1>2 DEF Held
<1> QED BY <1>4, <1>5 DEF TeeInv, Item, Completed

\* It puts what it holds into its channel.
LEMMA TeeSent ==
    ASSUME TypeOK, StagesInv, TeeInv, Send("conv")
    PROVE  TeeInv'
<1>1. "conv" \in Stages
  BY DEF Stages
<1>2. PICK x \in Item :
        /\ hand["conv"] = <<x>> /\ hand' = [hand EXCEPT !["conv"] = <<>>]
        /\ chan' = [chan EXCEPT !["conv"] = Append(chan["conv"], x)]
  BY <1>1, Sent
<1>3. UNCHANGED <<setup, st, got, seen, coreUsage>>
  BY DEF Send
<1>4. Emitted' <=> Emitted
  BY <1>3, MarksSame DEF Over
<1>5. Usage' = Usage
  BY <1>3, MarksSame DEF Over
<1>6. PICK c, k : c = chan["conv"] /\ k = Append(c, x)
  OBVIOUS
<1>7. c \in Seq(Item) /\ Len(c) \in Nat
  BY <1>1, <1>6, LenProperties DEF TypeOK
<1>8. Len(k) = Len(c) + 1 /\ (\A i \in 1..Len(c) : k[i] = c[i]) /\ k[Len(c) + 1] = x
  BY <1>6, <1>7, AppendProperties
<1>9. hand'["conv"] = <<>> /\ chan'["conv"] = k
  BY <1>1, <1>2, <1>6 DEF TypeOK
<1>10. ASSUME NEW e PROVE Held(e)' => Held(e)
  <2>1. ASSUME NEW i \in 1..Len(k), k[i] = e PROVE Held(e)
    <3>1. CASE i = Len(c) + 1
      BY <1>2, <1>8, <2>1, <3>1 DEF Held
    <3>2. CASE i # Len(c) + 1
      <4>1. i \in 1..Len(c) /\ c[i] = e
        BY <1>7, <1>8, <2>1, <3>2
      <4> QED BY <1>6, <4>1 DEF Held
    <3> QED BY <3>1, <3>2
  <2>2. <<e>> # <<>>
    OBVIOUS
  <2> QED BY <1>9, <2>1, <2>2 DEF Held
<1>11. ASSUME NEW e, Held(e) PROVE Held(e)'
  <2>1. CASE hand["conv"] = <<e>>
    <3>1. e = x
      BY <1>2, <2>1
    <3>2. Len(c) + 1 \in 1..Len(k) /\ k[Len(c) + 1] = e
      BY <1>7, <1>8, <3>1
    <3> QED BY <1>9, <3>2 DEF Held
  <2>2. ASSUME NEW i \in 1..Len(c), c[i] = e PROVE Held(e)'
    <3>1. i \in 1..Len(k) /\ k[i] = e
      BY <1>7, <1>8, <2>2
    <3> QED BY <1>9, <3>1 DEF Held
  <2> QED BY <1>6, <1>11, <2>1, <2>2 DEF Held
<1> QED BY <1>3, <1>4, <1>5, <1>10, <1>11 DEF TeeInv, Item, Completed

\* The tee takes x and notes its usage.
LEMMA TeeTakes ==
    ASSUME TypeOK, StagesInv, TeeInv, Tee
    PROVE  TeeInv'
<1>1. "conv" \in Stages /\ "tee" \in Stages /\ Input["tee"] = "conv" /\ "conv" # "tee"
  BY Setup DEF Stages
<1>2. PICK x : x = Offered("conv")
  OBVIOUS
<1>3. /\ Ready("conv") /\ Receive("tee", <<x>>) /\ UNCHANGED <<setup, st, got, seen>>
      /\ coreUsage' = IF x.type = "completed" /\ x.n > 0 THEN x.n ELSE coreUsage
  BY <1>2 DEF Tee
<1>4. x \in Item
  BY <1>1, <1>2, <1>3, OfferedItem
<1>5. <<x>> \in Seq(Item)
  BY <1>4
<1>6. /\ Cap["conv"] = 0 => hand["conv"] = <<x>> /\ hand'["conv"] = <<>> /\ chan' = chan
      /\ Cap["conv"] > 0 => /\ hand'["conv"] = hand["conv"] /\ chan'["conv"] = Tail(chan["conv"])
                            /\ chan["conv"] # <<>> /\ x = Head(chan["conv"])
  BY <1>1, <1>2, <1>3, <1>5, Received
<1>7. Usage' = Usage /\ (Emitted' <=> Emitted)
  BY <1>3, MarksSame DEF Over
<1>8. /\ Held(x) /\ (\A e : Held(e)' => Held(e)) /\ (\A e : Held(e) => e = x \/ Held(e)')
  <2>1. CASE Cap["conv"] = 0
    <3>1. chan["conv"] = <<>> /\ chan'["conv"] = <<>> /\ Len(<<>>) = 0
      BY <1>1, <1>6, <2>1, EmptySeq DEF StagesInv
    <3>2. \A i \in 1..0 : FALSE
      OBVIOUS
    <3>3. \A e : <<e>> # <<>> /\ (<<x>> = <<e>> => e = x)
      OBVIOUS
    <3>4. \A e : Held(e) <=> <<x>> = <<e>>
      BY <1>6, <2>1, <3>1, <3>2 DEF Held
    <3>5. \A e : ~Held(e)'
      BY <1>6, <2>1, <3>1, <3>2, <3>3 DEF Held
    <3> QED BY <3>3, <3>4, <3>5
  <2>2. CASE Cap["conv"] # 0
    <3>1. Cap["conv"] > 0
      BY <1>1, <2>2, Setup
    <3>2. PICK c, t : c = chan["conv"] /\ t = Tail(c)
      OBVIOUS
    <3>3. c \in Seq(Item) /\ c # <<>> /\ x = Head(c) /\ chan'["conv"] = t /\ hand'["conv"] = hand["conv"]
      BY <1>1, <1>6, <3>1, <3>2 DEF TypeOK
    <3>4. /\ Len(c) \in Nat /\ Len(c) >= 1 /\ x = c[1] /\ Len(t) = Len(c) - 1
          /\ \A i \in 1..(Len(c) - 1) : t[i] = c[i + 1]
      BY <3>2, <3>3, HeadTailProperties, LenProperties, EmptySeq
    <3>5. Held(x)
      <4>1. 1 \in 1..Len(c)
        BY <3>4
      <4> QED BY <3>2, <3>4, <4>1 DEF Held
    <3>6. ASSUME NEW e, NEW i \in 1..Len(t), t[i] = e PROVE Held(e)
      <4>1. i + 1 \in 1..Len(c) /\ c[i + 1] = e
        BY <3>4, <3>6
      <4> QED BY <3>2, <4>1 DEF Held
    <3>7. ASSUME NEW e, NEW i \in 1..Len(c), c[i] = e PROVE e = x \/ Held(e)'
      <4>1. CASE i = 1
        BY <3>4, <3>7, <4>1
      <4>2. CASE i # 1
        <5>1. i - 1 \in 1..(Len(c) - 1) /\ (i - 1) + 1 = i
          BY <3>4, <4>2
        <5>2. i - 1 \in 1..Len(t) /\ t[i - 1] = e
          BY <3>4, <3>7, <5>1
        <5> QED BY <3>3, <5>2 DEF Held
      <4> QED BY <4>1, <4>2
    <3> QED BY <3>2, <3>3, <3>5, <3>6, <3>7 DEF Held
  <2> QED BY <2>1, <2>2
<1>9. \A e \in Item : Held(e)' /\ e.type = "completed" => Emitted' /\ e.n = Usage'
  BY <1>7, <1>8 DEF TeeInv
<1>10. ASSUME Emitted, Usage = Chunks PROVE coreUsage' = Chunks \/ Held(Completed(Chunks))'
  <2>1. x.type = "completed" => x.n = Chunks
    BY <1>4, <1>8, <1>10 DEF TeeInv
  <2>2. CASE coreUsage = Chunks
    BY <1>3, <2>1, <2>2
  <2>3. CASE Held(Completed(Chunks))
    <3>1. CASE x = Completed(Chunks)
      <4>1. x.type = "completed" /\ x.n = Chunks /\ Chunks > 0
        BY <3>1, BoundsAssumption DEF Completed
      <4> QED BY <1>3, <4>1
    <3>2. CASE x # Completed(Chunks)
      BY <1>8, <2>3, <3>2
    <3> QED BY <3>1, <3>2
  <2> QED BY <1>10, <2>2, <2>3 DEF TeeInv
<1> QED BY <1>7, <1>9, <1>10 DEF TeeInv, Item, Completed

LEMMA TeeKeeps ==
    ASSUME IInv, Next, Intact'
    PROVE  TeeInv'
<1>1. TypeOK /\ StagesInv /\ PhaseInv /\ ReaderInv /\ TeeInv
  BY LiveStep DEF IInv
<1>2. /\ "reader" \in Stages /\ "conv" \in Stages /\ "tee" \in Stages /\ "client" \in Stages
      /\ "frames" \in Stages /\ Input["client"] = "tee" /\ Input["frames"] = "client"
      /\ Out \in {"client", "frames"}
  BY <1>1, Setup DEF Stages, Out
<1>3. /\ hand \in [Stages -> Seq(Item)] /\ chan \in [Stages -> Seq(Item)]
      /\ st \in [Stages -> {"off", "run", "last", "ended"}]
  BY <1>1 DEF TypeOK
<1>4. Chunks \in Nat \ {0} /\ got \in Nat
  BY <1>1, BoundsAssumption DEF TypeOK
<1>5. CASE ReadChunk
  <2>1. /\ UNCHANGED <<setup, st, chan, seen, coreUsage>> /\ Provider = "chat"
        /\ hand'["conv"] = hand["conv"]
    BY <1>2, <1>3, <1>5 DEF ReadChunk, Source
  <2>2. Provider' = Provider
    BY <2>1, Kept
  <2>3. Usage' = Usage /\ (Emitted' <=> Emitted)
    BY <2>1, <2>2 DEF Usage, Emitted, Over
  <2> QED BY <1>1, <2>1, <2>3, TeeSame
<1>6. CASE PullEvent
  <2>1. /\ Provider # "chat" /\ got < Chunks /\ got' = got + 1 /\ UNCHANGED <<setup, chan>>
        /\ hand' = [hand EXCEPT !["conv"] = <<CoreEvent(got + 1)>>]
    BY <1>6 DEF PullEvent, Source
  <2>2. Provider' = Provider
    BY <2>1, Kept
  <2>3. PICK x : x = CoreEvent(got + 1)
    OBVIOUS
  <2>4. got + 1 \in 0..Chunks
    BY <1>4, <2>1
  <2>5. x \in Item /\ hand'["conv"] = <<x>> /\ chan'["conv"] = chan["conv"]
    BY <1>1, <1>2, <1>3, <2>1, <2>3, <2>4, ItemFacts
  <2>6. ~Emitted /\ (Emitted' <=> got + 1 = Chunks) /\ Usage' = Chunks
    BY <1>4, <2>1, <2>2 DEF Emitted, Usage
  <2>7. x = IF got + 1 = Chunks THEN Completed(Chunks) ELSE Delta(got + 1)
    BY <2>3 DEF CoreEvent
  <2>8. x.type = "completed" => Emitted' /\ x.n = Usage'
    BY <2>6, <2>7 DEF Completed, Delta
  <2>9. Emitted' => x = Completed(Usage')
    BY <2>6, <2>7
  <2> QED BY <1>1, <2>5, <2>6, <2>8, <2>9, TeeHolds
<1>7. CASE SourceEnds
  <2>1. UNCHANGED <<setup, chan, got, seen, coreUsage>>
    BY <1>7 DEF SourceEnds
  <2>2. CASE End(Source)
    <3>1. hand' = hand /\ st' = [st EXCEPT ![Source] = "ended"]
      BY <2>2 DEF End
    <3>2. Provider = "chat" => (Over("conv")' <=> Over("conv"))
      BY <1>2, <1>3, <3>1 DEF Over, Source
    <3> QED BY <1>1, <2>1, <3>1, <3>2, MarksSame, TeeSame
  <2>3. CASE ~End(Source)
    <3>1. /\ Provider = "anthropic" /\ got < Chunks /\ LastWords("conv", <<Failed>>)
      BY <1>7, <2>3 DEF SourceEnds
    <3>2. hand'["conv"] = <<Failed>> /\ Failed \in Item /\ Failed.type # "completed"
      BY <1>1, <1>2, <1>3, <3>1, ItemFacts DEF LastWords, Failed
    <3>3. ~Emitted /\ ~Emitted'
      BY <1>4, <2>1, <3>1, MarksSame DEF Emitted
    <3> QED BY <1>1, <2>1, <3>2, <3>3, TeeHolds
  <2> QED BY <2>2, <2>3
<1>8. CASE ConvertChunk
  <2>1. Offered("reader") = Delta(seen + 1) /\ seen + 1 \in 0..Chunks
    BY <1>1, <1>8, NextChunk
  <2>2. PICK x : x = Offered("reader")
    OBVIOUS
  <2>3. /\ Provider = "chat" /\ st["conv"] = "run" /\ Ready("reader") /\ Receive("conv", <<x>>)
        /\ UNCHANGED <<setup, st>>
    BY <1>8, <2>2 DEF ConvertChunk, Idle
  <2>4. x \in Item /\ x.type = "delta"
    BY <1>1, <2>1, <2>2, ItemFacts DEF Delta
  <2>5. <<x>> \in Seq(Item) /\ "reader" = Input["conv"] /\ "reader" # "conv"
    BY <1>1, <2>4, Setup
  <2>6. hand'["conv"] = <<x>> /\ chan'["conv"] = chan["conv"]
    <3>1. TypeOK /\ StagesInv /\ "reader" \in Stages /\ "conv" \in Stages
      BY <1>1, <1>2
    <3>2. Ready("reader") /\ Receive("conv", <<x>>)
      BY <2>3
    <3>3. hand'["conv"] = <<x>> /\ \A r \in Stages \ {"reader"} : chan'[r] = chan[r]
      BY <2>5, <3>1, <3>2, Received
    <3> QED BY <1>2, <3>3
  <2>7. Provider' = Provider
    BY <2>3, Kept
  <2>8. ~Emitted /\ ~Emitted'
    BY <2>3, <2>7 DEF Emitted, Over
  <2> QED BY <1>1, <2>4, <2>6, <2>8, TeeHolds
<1>9. CASE ChunksEnd
  <2>1. PICK x : x = Completed(IF seen = Chunks THEN Chunks ELSE 0)
    OBVIOUS
  <2>2. /\ hand' = [hand EXCEPT !["conv"] = <<x>>] /\ UNCHANGED <<setup, seen, chan>>
        /\ Provider = "chat" /\ st["conv"] = "run"
    BY <1>9, <2>1 DEF ChunksEnd, LastWords, Idle
  <2>3. Provider' = Provider
    BY <2>2, Kept
  <2>4. Usage' = (IF seen = Chunks THEN Chunks ELSE 0) /\ Usage' \in 0..Chunks
    BY <1>4, <2>2, <2>3 DEF Usage
  <2>5. x = Completed(Usage') /\ x \in Item
    BY <1>1, <2>1, <2>4, ItemFacts
  <2>6. st'["conv"] = "last"
    BY <1>2, <1>3, <1>9 DEF ChunksEnd, LastWords
  <2>7. ~Emitted /\ Emitted'
    BY <2>2, <2>3, <2>6 DEF Emitted, Over
  <2>8. hand'["conv"] = <<x>> /\ chan'["conv"] = chan["conv"]
    BY <1>2, <1>3, <2>2
  <2>9. x.n = Usage'
    BY <2>5 DEF Completed
  <2> QED BY <1>1, <2>5, <2>7, <2>8, <2>9, TeeHolds
<1>10. CASE Send("reader")
  <2>1. /\ UNCHANGED <<setup, st, got, seen, coreUsage>>
        /\ hand'["conv"] = hand["conv"] /\ chan'["conv"] = chan["conv"]
    BY <1>2, <1>3, <1>10 DEF Send
  <2> QED BY <1>1, <2>1, MarksSame, TeeSame DEF Over
<1>11. CASE Send("conv")
  BY <1>1, <1>11, TeeSent
<1>12. CASE Downstream
  <2>1. CASE Tee
    BY <1>1, <2>1, TeeTakes
  <2>2. CASE ~Tee
    <3>1. UNCHANGED <<setup, got, seen>> /\ (Over("conv")' <=> Over("conv"))
      BY <1>1, <1>12, DownstreamKeeps
    <3>2. Usage' = Usage /\ (Emitted' <=> Emitted)
      BY <3>1, MarksSame
    <3>3. coreUsage' = coreUsage
      BY <1>12, <2>2 DEF Downstream, ClientEvent, Forward, Close, RelayEnds, StartConv, StartClient,
                         WriteFrame, FramesEnd, SettleUsage, ReadBuffer, Return, chain
    <3>4. ASSUME NEW s \in {"client", "frames"}, NEW i \in {"tee", "client"}, i = Input[s],
                 NEW made, Receive(s, made)
          PROVE  hand'["conv"] = hand["conv"] /\ chan'["conv"] = chan["conv"]
      BY <1>2, <1>3, <3>4 DEF Receive
    <3>5. hand'["conv"] = hand["conv"] /\ chan'["conv"] = chan["conv"]
      <4>1. CASE ClientEvent
        <5>1. Receive("client", FramesOf(Offered("tee")))
          BY <4>1 DEF ClientEvent
        <5> QED BY <1>2, <3>4, <5>1
      <4>2. CASE Forward
        <5>1. Receive("frames", <<Offered("client")>>)
          BY <4>2 DEF Forward
        <5> QED BY <1>2, <3>4, <5>1
      <4>3. CASE \E s \in Stages : RelayEnds(s)
        <5>1. UNCHANGED chan /\ (hand' = hand \/ hand' = [hand EXCEPT !["client"] = <<FinishFrames>>])
          BY <4>3 DEF RelayEnds, LastWords, End
        <5> QED BY <1>2, <1>3, <5>1
      <4>4. CASE WriteFrame
        BY <1>2, <1>3, <4>4 DEF WriteFrame, ReceiveFrame
      <4>5. CASE Close("conv") \/ Close("client")
        BY <4>5 DEF Close
      <4>6. CASE StartConv \/ StartClient \/ FramesEnd \/ SettleUsage \/ ReadBuffer \/ Return
        BY <4>6 DEF StartConv, StartClient, FramesEnd, SettleUsage, ReadBuffer, Return, chain
      <4> QED BY <1>12, <2>2, <4>1, <4>2, <4>3, <4>4, <4>5, <4>6 DEF Downstream
    <3> QED BY <1>1, <3>2, <3>3, <3>5, TeeSame
  <2> QED BY <2>1, <2>2
<1> QED BY <1>5, <1>6, <1>7, <1>8, <1>9, <1>10, <1>11, <1>12, LiveCases

---------------------------------------------------------------------------
(* The invariant *)

LEMMA InvInit == Init => IInv
<1> SUFFICES ASSUME Init PROVE IInv
  OBVIOUS
<1>1. TypeOK /\ StagesInv /\ PhaseInv /\ SettledInv
  BY BaseInit DEF Base
<1>2. /\ hand["conv"] = <<>> /\ hand["tee"] = <<>> /\ hand["client"] = <<>> /\ hand["frames"] = <<>>
      /\ hand["reader"] = <<>> /\ chan["conv"] = <<>> /\ chan["reader"] = <<>> /\ written = <<>>
      /\ capture = <<>> /\ got = 0 /\ seen = 0 /\ finalResp = NoResponse
  BY DEF Init, Stages
<1>3. st["conv"] = "off"
  BY DEF Init, Stages
<1>4. Len(<<>>) = 0 /\ <<>> \in Seq(Item) /\ Chunks \in Nat \ {0} /\ BufCap \in Nat /\ ~Over("conv")
  BY <1>3, EmptySeq, BoundsAssumption DEF Over
<1>5. \A i \in 1..0 : FALSE
  OBVIOUS
<1>6. ~Emitted /\ Deltas = 0
  BY <1>2, <1>4 DEF Emitted, Deltas
<1>7. ReaderInv
  BY <1>2, <1>4, <1>5 DEF ReaderInv
<1>8. CaptureInv
  BY <1>2, <1>4, <1>5 DEF CaptureInv
<1>9. FlowInv
  <2>1. OnTheWay = Queue(<<>>, <<>>, <<>>, <<>>, <<>>, KeptItems)
    BY <1>2, WayIsQueue, Zenon
  <2>2. OnTheWay = <<>>
    BY <2>1, QueueEmpty
  <2>3. Join(<<>>, <<>>) = <<>>
    BY <1>4, JoinEmpty
  <2>4. Flow = <<>>
    BY <1>2, <2>2, <2>3, WayIsQueue
  <2> QED BY <1>4, <1>5, <1>6, <2>4 DEF FlowInv
<1>10. FinalInv
  BY <1>2, <1>4, <1>5 DEF FinalInv
<1>11. TeeInv
  <2>1. \A e : ~Held(e)
    BY <1>2, <1>4, <1>5 DEF Held
  <2> QED BY <1>6, <2>1 DEF TeeInv
<1> QED BY <1>1, <1>7, <1>8, <1>9, <1>10, <1>11 DEF IInv

LEMMA InvStutters ==
    ASSUME IInv, UNCHANGED vars
    PROVE  IInv'
<1>1. Base'
  BY BaseKeeps DEF IInv, Base
<1>2. UNCHANGED <<setup, st, hand, chan, got, seen, capture, coreUsage, written, finalResp>>
  BY DEF vars, chain, handler
<1>3. Intact' <=> Intact
  BY DEF vars, chain, handler, Intact, Streamed
<1>4. Over("conv")' <=> Over("conv")
  BY <1>2 DEF Over
<1>5. Deltas' = Deltas /\ Usage' = Usage /\ (Emitted' <=> Emitted)
  BY <1>2, <1>4, MarksSame
<1>6. Flow' = Flow
  BY <1>2, WaySame
<1>7. Intact => ReaderInv' /\ CaptureInv'
  BY <1>2, <1>4, ReaderSame, CaptureSame DEF IInv
<1>8. Intact => FlowInv'
  BY <1>2, <1>4, <1>5, <1>6, FlowSame DEF IInv
<1>9. Intact => FinalInv' /\ TeeInv'
  BY <1>2, <1>5, FinalSame, TeeSame DEF IInv
<1> QED BY <1>1, <1>3, <1>7, <1>8, <1>9 DEF IInv, Base

LEMMA Inductive == Spec => []IInv
<1>1. Init => IInv
  BY InvInit
<1>2. IInv /\ [Next]_vars => IInv'
  <2> SUFFICES ASSUME IInv, [Next]_vars PROVE IInv'
    OBVIOUS
  <2>1. Base'
    BY BaseKeeps DEF IInv, Base
  <2>2. CASE Next
    <3>1. Intact' => ReaderInv' /\ CaptureInv' /\ FlowInv' /\ FinalInv' /\ TeeInv'
      BY <2>2, ReaderKeeps, CaptureKeeps, FlowKeeps, FinalKeeps, TeeKeeps
    <3> QED BY <2>1, <3>1 DEF IInv, Base
  <2>3. CASE UNCHANGED vars
    BY <2>3, InvStutters
  <2> QED BY <2>2, <2>3
<1> QED BY <1>1, <1>2, PTL DEF Spec

---------------------------------------------------------------------------
(* Theorems *)

\* The stages, channels and buffers of a request, and what its handler notes,
\* are of the form that the code gives them: no channel holds more than its
\* capacity, and the request is reported at most once.
THEOREM TypeCorrect == Spec => []TypeOK
<1>1. IInv => TypeOK
  BY DEF IInv
<1> QED BY <1>1, Inductive, PTL

\* Nothing is on its way any more when the client of a finished request is still
\* there, and every chunk that was read has been converted.
LEMMA Finished ==
    ASSUME IInv, phase = "done", link = "up", Streamed
    PROVE  /\ TypeOK /\ StagesInv /\ PhaseInv /\ SettledInv
           /\ ReaderInv /\ CaptureInv /\ FlowInv /\ FinalInv /\ TeeInv
           /\ OnTheWay = <<>> /\ Flow = written /\ seen = got /\ ~aborted /\ Over("conv")
           /\ \A e : ~Held(e)
<1>1. Intact
  BY DEF Intact
<1>2. /\ TypeOK /\ StagesInv /\ PhaseInv /\ SettledInv
      /\ ReaderInv /\ CaptureInv /\ FlowInv /\ FinalInv /\ TeeInv
  BY <1>1 DEF IInv
<1>3. /\ \A s \in Stages : hand[s] = <<>>
      /\ Provider = "chat" => chan["reader"] = <<>>
      /\ st["tee"] = "ended" /\ st["conv"] = "ended" /\ chan["conv"] = <<>> /\ ~aborted
  BY <1>1, Stopped
<1>4. /\ hand["client"] = <<>> /\ hand["frames"] = <<>> /\ hand["conv"] = <<>> /\ hand["reader"] = <<>>
  BY <1>3 DEF Stages
<1>5. OnTheWay = <<>>
  BY <1>2, <1>3, <1>4, WayEmpty
<1>6. Flow = written
  <2>1. written \in Seq(Item)
    BY <1>2 DEF TypeOK
  <2>2. Join(written, <<>>) = written
    BY <2>1, JoinEmpty
  <2> QED BY <1>5, <2>2, WayIsQueue, Zenon
<1>7. Len(<<>>) = 0 /\ got \in Nat /\ seen \in Nat
  BY <1>2, EmptySeq, BoundsAssumption DEF TypeOK
<1>8. seen = got
  <2>1. CASE Provider = "chat"
    <3>1. got = seen + 0 + 0
      BY <1>2, <1>3, <1>4, <1>7, <2>1 DEF ReaderInv
    <3> QED BY <1>7, <3>1
  <2>2. CASE Provider # "chat"
    BY <1>2, <2>2 DEF ReaderInv
  <2> QED BY <2>1, <2>2
<1>9. \A e : ~Held(e)
  <2>1. \A e : <<e>> # <<>>
    OBVIOUS
  <2>2. \A i \in 1..0 : FALSE
    OBVIOUS
  <2> QED BY <1>3, <1>4, <1>7, <2>1, <2>2 DEF Held
<1> QED BY <1>2, <1>3, <1>5, <1>6, <1>8, <1>9 DEF Over

\* A request is recorded with the usage of the response that it was sent, else
\* with what the tee noted once the tee has ended, never while it may still
\* write; and with the usage of the whole stream when the client stayed and the
\* upstream said all it had (handleAdapterStream, teeCoreUsage).
THEOREM UsageIsSettled == Spec => []UsageSettled
<1>1. ASSUME IInv PROVE UsageSettled
  <2>1. TypeOK /\ StagesInv /\ PhaseInv /\ SettledInv
    BY <1>1 DEF IInv
  <2>2. ASSUME phase \in {"replay", "trace", "done"}, Streamed, finalResp = NoResponse
        PROVE  (st["tee"] = "ended" /\ finalUsage = coreUsage) \/ (aborted /\ finalUsage = 0)
    <3>1. finalUsage = IF aborted THEN 0 ELSE coreUsage
      BY <2>1, <2>2 DEF SettledInv
    <3>2. ~aborted => st[Out] = "ended"
      BY <2>1, <2>2 DEF PhaseInv
    <3> QED BY <2>1, <3>1, <3>2, OutEnded
  <2>3. ASSUME phase = "done", link = "up", Streamed, got = Chunks PROVE finalUsage = Chunks
    <3>1. /\ FlowInv /\ FinalInv /\ TeeInv /\ Flow = written /\ seen = got /\ ~aborted /\ Over("conv")
          /\ \A e : ~Held(e)
      BY <1>1, <2>3, Finished
    <3>2. Emitted /\ Usage = Chunks
      BY <2>3, <3>1 DEF Emitted, Usage
    <3>3. finalUsage = IF finalResp # NoResponse THEN finalResp ELSE coreUsage
      BY <2>1, <2>3, <3>1 DEF SettledInv
    <3>4. CASE Ingress = "responses"
      <4>1. /\ \A i \in 1..Len(written) : written[i].type = "completed" => written[i].n = Chunks
            /\ \E i \in 1..Len(written) : written[i].type = "completed"
        BY <3>1, <3>2, <3>4 DEF FlowInv
      <4>2. finalResp = Chunks
        BY <3>1, <3>4, <4>1 DEF FinalInv
      <4>3. Chunks # NoResponse
        BY BoundsAssumption DEF NoResponse
      <4> QED BY <3>3, <4>2, <4>3
    <3>5. CASE Ingress # "responses"
      <4>1. finalResp = NoResponse
        BY <2>1, <3>5, Setup DEF PhaseInv
      <4>2. coreUsage = Chunks
        BY <3>1, <3>2 DEF TeeInv
      <4> QED BY <3>3, <4>1, <4>2
    <3> QED BY <3>4, <3>5
  <2> QED BY <2>2, <2>3 DEF UsageSettled
<1> QED BY <1>1, Inductive, PTL

\* The replay reads a provider buffer that is complete and at rest, and what is
\* in it is the chunks in their order, up to the buffer's capacity (StreamBuffer,
\* bufReady).
THEOREM ReplayIsExact == Spec => []ReplayExact
<1>1. ASSUME IInv PROVE ReplayExact
  <2> SUFFICES ASSUME phase \in {"trace", "done"}, Streamed, Provider # "response"
               PROVE  /\ st["conv"] = "ended" /\ replayed = capture
                      /\ link = "up" => \A k \in 1..got : k <= BufCap => replayed[k] = k
    BY DEF ReplayExact
  <2>1. st["conv"] = "ended" /\ replayed = capture
    BY <1>1 DEF IInv, SettledInv
  <2>2. ASSUME link = "up" PROVE \A k \in 1..got : k <= BufCap => capture[k] = k
    <3>1. Intact /\ TypeOK /\ StagesInv
      BY <1>1, <2>2 DEF Intact, IInv
    <3>2. ReaderInv /\ CaptureInv
      BY <1>1, <3>1 DEF IInv
    <3>3. got \in Nat /\ seen \in Nat /\ Len(<<>>) = 0
      BY <3>1, EmptySeq, BoundsAssumption DEF TypeOK
    <3>4. seen = got
      <4>1. CASE Provider = "chat"
        <5>1. st["reader"] = "ended" /\ chan["reader"] = <<>>
          BY <2>1, <3>2, <4>1 DEF ReaderInv, Over
        <5>2. hand["reader"] = <<>>
          BY <3>1, <5>1 DEF StagesInv, Stages
        <5>3. got = seen + 0 + 0
          BY <3>2, <3>3, <4>1, <5>1, <5>2 DEF ReaderInv
        <5> QED BY <3>3, <5>3
      <4>2. CASE Provider # "chat"
        BY <3>2, <4>2 DEF ReaderInv
      <4> QED BY <4>1, <4>2
    <3> QED BY <3>2, <3>4 DEF CaptureInv
  <2> QED BY <2>1, <2>2
<1> QED BY <1>1, Inductive, PTL

\* A client that stays is sent every event of the upstream, once and in order,
\* whatever the channels' capacities and the length of the stream (the goroutines
\* and channels of handleAdapterStream).
THEOREM EverythingIsDelivered == Spec => []EverythingDelivered
<1>1. ASSUME IInv PROVE EverythingDelivered
  <2> DEFINE A == {f \in Item : f.type = "delta"}
             sent == IF Provider = "chat" THEN got ELSE IF got = Chunks THEN got - 1 ELSE got
  <2> SUFFICES ASSUME phase = "done", link = "up", Streamed
               PROVE  Selected(written, A) = [k \in 1..sent |-> Delta(k)]
    BY DEF EverythingDelivered
  <2>1. TypeOK /\ FlowInv /\ Flow = written /\ seen = got
    BY <1>1, Finished
  <2>2. sent = Deltas /\ Deltas \in Nat
    BY <2>1, DeltasTyped DEF Deltas
  <2>3. PICK w, d : w = written /\ d = Deltas
    OBVIOUS
  <2>4. w \in Seq(Item) /\ Len(w) \in Nat /\ d \in Nat
    BY <2>1, <2>2, <2>3, LenProperties DEF TypeOK
  <2>5. /\ d <= Len(w)
        /\ \A i \in 1..Len(w) : IF i <= d THEN w[i] = Delta(i) ELSE w[i].type # "delta"
    BY <2>1, <2>3 DEF FlowInv
  <2>6. \A i \in 1..Len(w) : w[i] \in A <=> i <= d
    <3>1. \A i \in 1..Len(w) : w[i] \in Item
      BY <2>4, ElementOfSeq
    <3>2. \A i : Delta(i).type = "delta"
      BY DEF Delta
    <3> QED BY <2>5, <3>1, <3>2
  <2>7. d \in 0..Len(w)
    BY <2>4, <2>5
  <2>8. PICK v : v = Selected(w, A)
    OBVIOUS
  <2> HIDE DEF A
  <2>9. v \in Seq(Item) /\ Len(v) = d /\ \A i \in 1..d : v[i] = w[i]
    BY <2>4, <2>6, <2>7, <2>8, SelectedPrefix
  <2>10. \A i \in 1..d : v[i] = Delta(i)
    BY <2>4, <2>5, <2>9
  <2>11. v = [i \in 1..Len(v) |-> v[i]]
    BY <2>9
  <2>12. v = [k \in 1..d |-> Delta(k)]
    BY <2>9, <2>10, <2>11
  <2> QED BY <2>2, <2>3, <2>8, <2>12
<1> QED BY <1>1, Inductive, PTL

---------------------------------------------------------------------------
(* The chain implements the delivery it promises *)

Mode == IF link = "broken" THEN "lost"
        ELSE IF phase # "done" THEN "live" ELSE IF Streamed THEN "over" ELSE "refused"

LEMMA AbstractInit ==
    ASSUME Flow = <<>>, written = <<>>, Mode = "live"
    PROVE  Delivery!Init
  BY DEF Delivery!Init, Flow, Mode

LEMMA AbstractStutter ==
    ASSUME UNCHANGED <<Flow, written, Mode>>
    PROVE  UNCHANGED Delivery!vars
  BY Zenon DEF Delivery!vars, Flow, Mode

LEMMA AbstractProduce ==
    ASSUME NEW f \in Item, Mode = "live", Flow' = Append(Flow, f), UNCHANGED <<written, Mode>>
    PROVE  Delivery!Next
<1>1. Delivery!Produce(f)
  BY Zenon DEF Delivery!Produce, Flow, Mode
<1> QED BY <1>1 DEF Delivery!Next

LEMMA AbstractDeliver ==
    ASSUME Mode = "live", Len(written) < Len(Flow), written' = Append(written, Flow[Len(written) + 1]),
           UNCHANGED <<Flow, Mode>>
    PROVE  Delivery!Next
<1>1. Delivery!Deliver
  BY Zenon DEF Delivery!Deliver, Flow, Mode
<1> QED BY <1>1 DEF Delivery!Next

LEMMA AbstractRefuse ==
    ASSUME Mode = "live", Mode' = "refused", written = <<>>, UNCHANGED written
    PROVE  Delivery!Next
<1>1. Delivery!Refuse
  BY Zenon DEF Delivery!Refuse, Mode
<1> QED BY <1>1 DEF Delivery!Next

LEMMA AbstractFinish ==
    ASSUME Mode = "live", Mode' = "over", written = Flow, UNCHANGED <<Flow, written>>
    PROVE  Delivery!Next
<1>1. Delivery!Finish
  BY Zenon DEF Delivery!Finish, Flow, Mode
<1> QED BY <1>1 DEF Delivery!Next

LEMMA AbstractLose ==
    ASSUME Mode = "live", Mode' = "lost", UNCHANGED <<Flow, written>>
    PROVE  Delivery!Next
<1>1. Delivery!Lose
  BY Zenon DEF Delivery!Lose, Flow, Mode
<1> QED BY <1>1 DEF Delivery!Next

LEMMA AbstractUnwind ==
    ASSUME TypeOK, Mode \in {"lost", "refused"}, Mode' = Mode,
           \/ written' = written
           \/ Mode = "lost" /\ \E f \in Item : written' = Append(written, f)
    PROVE  Delivery!Next
<1>1. written \in Seq(Item)
  BY DEF TypeOK
<1>2. Delivery!IsPrefix(written, written')
  <2>1. CASE written' = written
    BY <1>1, <2>1, LenProperties DEF Delivery!IsPrefix
  <2>2. ASSUME NEW f \in Item, written' = Append(written, f)
        PROVE  Delivery!IsPrefix(written, written')
    <3>1. PICK w, v : w = written /\ v = Append(written, f)
      OBVIOUS
    <3>2. w \in Seq(Item) /\ v = Append(w, f)
      BY <1>1, <3>1
    <3>3. /\ v \in Seq(Item) /\ Len(v) = Len(w) + 1 /\ Len(w) \in Nat
          /\ \A i \in 1..Len(w) : v[i] = w[i]
      BY <3>2, AppendProperties, LenProperties
    <3>4. SubSeq(w, 1, Len(w)) = SubSeq(v, 1, Len(w))
      BY <3>2, <3>3
    <3>5. Len(w) <= Len(v)
      BY <3>3
    <3> QED BY <2>2, <3>1, <3>4, <3>5 DEF Delivery!IsPrefix
  <2> QED BY <2>1, <2>2
<1>3. Mode = "refused" => UNCHANGED written
  OBVIOUS
<1>4. Delivery!Unwind
  BY <1>2, <1>3, Zenon DEF Delivery!Unwind, Mode
<1> QED BY <1>4 DEF Delivery!Next

\* What a step writes to the connection is one frame at most.
LEMMA WrittenGrows ==
    ASSUME TypeOK, StagesInv, Next
    PROVE  \/ written' = written
           \/ phase = "streaming" /\ \E f \in Item : written' = Append(written, f)
<1>1. CASE ChainStep
  BY <1>1, ChainSteps DEF handler
<1>2. CASE WriteFrame
  <2>1. Out \in Stages /\ Ready(Out) /\ phase = "streaming"
    BY <1>2 DEF WriteFrame, Out, Stages
  <2>2. Offered(Out) \in Item
    BY <2>1, OfferedItem
  <2>3. written' = written \/ written' = Append(written, Offered(Out))
    BY <1>2 DEF WriteFrame
  <2> QED BY <2>1, <2>2, <2>3
<1>3. CASE StartConv \/ StartClient \/ Refuse \/ FramesEnd \/ SettleUsage \/ ReadBuffer \/ Return
           \/ Drain \/ Break \/ Cancel
  BY <1>3 DEF StartConv, StartClient, Refuse, FramesEnd, SettleUsage, ReadBuffer, Return, Drain, Break,
              Cancel, handler
<1> QED BY <1>1, <1>2, <1>3, Steps DEF HandlerMove

\* What a step adds to the queue, while the request goes on, is one frame at most.
LEMMA FlowGrows ==
    ASSUME IInv, Next, Intact'
    PROVE  \/ Flow' = Flow
           \/ UNCHANGED <<written, phase>> /\ \E x \in Item : Flow' = Append(Flow, x)
<1>1. TypeOK /\ StagesInv /\ PhaseInv /\ ReaderInv /\ FlowInv /\ link = "up"
  BY LiveStep DEF IInv
<1>2. "conv" \in Stages /\ "tee" \in Stages /\ "client" \in Stages /\ "frames" \in Stages /\ "reader" \in Stages
  BY DEF Stages
<1>3. hand \in [Stages -> Seq(Item)] /\ Flow \in Seq(Item)
  BY <1>1, FlowTyped DEF TypeOK
<1>4. ASSUME NEW e \in Item, Flow' = Join(Flow, FramesOf(e))
      PROVE  Flow' = Flow \/ \E x \in Item : Flow' = Append(Flow, x)
  <2>1. FramesOf(e) = <<>> \/ FramesOf(e) = <<e>>
    BY DEF FramesOf
  <2>2. Join(Flow, <<>>) = Flow /\ Join(Flow, <<e>>) = Append(Flow, e)
    BY <1>3, JoinEmpty, JoinAppend
  <2> QED BY <1>4, <2>1, <2>2, Zenon
<1>5. ASSUME NEW e, e \in Item, hand["conv"] = <<>>, hand' = [hand EXCEPT !["conv"] = <<e>>],
             UNCHANGED <<setup, written, chan>>
      PROVE  Flow' = Flow \/ \E x \in Item : Flow' = Append(Flow, x)
  <2>1. /\ hand'["conv"] = <<e>> /\ hand'["tee"] = hand["tee"] /\ hand'["client"] = hand["client"]
        /\ hand'["frames"] = hand["frames"] /\ chan'["conv"] = chan["conv"]
    BY <1>2, <1>3, <1>5
  <2>2. Flow' = Join(Flow, FramesOf(e))
    BY <1>1, <1>5, <2>1, WayGrows
  <2> QED BY <1>4, <1>5, <2>2
<1>6. CASE ReadChunk
  <2>1. UNCHANGED <<setup, written, chan>> /\ hand' = [hand EXCEPT !["reader"] = <<Delta(got + 1)>>]
    BY <1>6 DEF ReadChunk, handler
  <2> QED BY <1>2, <1>3, <2>1, WaySame
<1>7. CASE PullEvent
  <2>1. /\ UNCHANGED <<setup, chan, written, phase>> /\ hand["conv"] = <<>> /\ got < Chunks
        /\ hand' = [hand EXCEPT !["conv"] = <<CoreEvent(got + 1)>>]
    BY <1>7 DEF PullEvent, Idle, handler
  <2>2. got + 1 \in 0..Chunks
    BY <1>1, <2>1, BoundsAssumption DEF TypeOK
  <2>3. CoreEvent(got + 1) \in Item
    BY <1>1, <2>2, ItemFacts
  <2> QED BY <1>5, <2>1, <2>3
<1>8. CASE SourceEnds
  <2>1. UNCHANGED <<setup, chan, written, phase>> /\ Idle(Source)
    BY <1>8 DEF SourceEnds, handler
  <2>2. CASE End(Source)
    BY <2>1, <2>2, WaySame DEF End
  <2>3. CASE ~End(Source)
    <3>1. Provider = "anthropic" /\ LastWords("conv", <<Failed>>)
      BY <1>8, <2>3 DEF SourceEnds
    <3>2. hand["conv"] = <<>> /\ hand' = [hand EXCEPT !["conv"] = <<Failed>>] /\ Failed \in Item
      BY <1>1, <2>1, <3>1, ItemFacts DEF Idle, Source, LastWords
    <3> QED BY <1>5, <2>1, <3>2
  <2> QED BY <2>2, <2>3
<1>9. CASE ConvertChunk
  <2>1. PICK e : e = Offered("reader")
    OBVIOUS
  <2>2. /\ Ready("reader") /\ Receive("conv", <<e>>) /\ UNCHANGED <<setup, written, phase>>
        /\ hand["conv"] = <<>>
    BY <1>9, <2>1 DEF ConvertChunk, Idle, handler
  <2>3. e \in Item
    BY <1>1, <1>2, <2>1, <2>2, OfferedItem
  <2>4. "reader" = Input["conv"] /\ "reader" # "conv" /\ <<e>> \in Seq(Item)
    BY <1>1, <2>3, Setup
  <2>5. /\ hand'["conv"] = <<e>>
        /\ \A x \in Stages \ {"reader", "conv"} : hand'[x] = hand[x]
        /\ \A x \in Stages \ {"reader"} : chan'[x] = chan[x]
    <3>1. TypeOK /\ StagesInv /\ "reader" \in Stages /\ "conv" \in Stages
      BY <1>1, <1>2
    <3>2. Ready("reader") /\ Receive("conv", <<e>>)
      BY <2>2
    <3> QED BY <2>4, <3>1, <3>2, Received
  <2>6. Flow' = Join(Flow, FramesOf(e))
    BY <1>1, <1>2, <2>2, <2>3, <2>5, WayGrows
  <2> QED BY <1>4, <2>2, <2>3, <2>6
<1>10. CASE ChunksEnd
  <2>1. PICK e : e = Completed(IF seen = Chunks THEN Chunks ELSE 0)
    OBVIOUS
  <2>2. /\ UNCHANGED <<setup, chan, written, phase>> /\ hand["conv"] = <<>>
        /\ hand' = [hand EXCEPT !["conv"] = <<e>>]
    BY <1>10, <2>1 DEF ChunksEnd, LastWords, Idle, handler
  <2>3. (IF seen = Chunks THEN Chunks ELSE 0) \in 0..Chunks
    BY BoundsAssumption
  <2>4. e \in Item
    BY <1>1, <2>1, <2>3, ItemFacts
  <2> QED BY <1>5, <2>2, <2>4
<1>11. ASSUME NEW s \in Stages, Send(s) PROVE Flow' = Flow
  BY <1>1, <1>11, WaySend
<1>12. CASE \E s \in Stages : RelayEnds(s)
  <2>1. PICK s \in Stages : RelayEnds(s)
    BY <1>12
  <2>2. CASE s = "client" /\ Ingress = "chat"
    <3>1. Flow' = Join(Flow, <<FinishFrames>>) /\ FinishFrames \in Item
      BY <1>1, <2>1, <2>2, WayFinish, ItemFacts
    <3>2. Flow' = Append(Flow, FinishFrames)
      BY <1>3, <3>1, JoinAppend, Zenon
    <3>3. UNCHANGED <<written, phase>>
      BY <2>1 DEF RelayEnds, handler
    <3> QED BY <3>1, <3>2, <3>3
  <2>3. CASE ~(s = "client" /\ Ingress = "chat")
    BY <2>1, <2>3, WaySame DEF RelayEnds, End, handler
  <2> QED BY <2>2, <2>3
<1>13. CASE Downstream /\ ~\E s \in Stages : RelayEnds(s)
  <2>1. CASE Tee \/ ClientEvent \/ Forward
    BY <1>1, <2>1, WayTee, WayClient, WayForward
  <2>2. CASE Close("conv") \/ Close("client")
    BY <2>2, WaySame DEF Close, handler
  <2>3. CASE StartConv \/ StartClient \/ FramesEnd \/ SettleUsage \/ ReadBuffer \/ Return
    BY <2>3, WaySame DEF StartConv, StartClient, FramesEnd, SettleUsage, ReadBuffer, Return, chain
  <2>4. CASE WriteFrame
    <3>1. Ready(Out) /\ ReceiveFrame /\ UNCHANGED setup /\ written' = Append(written, Offered(Out))
      BY <1>1, <2>4 DEF WriteFrame
    <3> QED BY <1>1, <3>1, WayWritten
  <2> QED BY <1>13, <2>1, <2>2, <2>3, <2>4 DEF Downstream
<1>14. UNCHANGED <<written, phase>> \/ Flow' = Flow
  <2>1. CASE PullEvent \/ SourceEnds \/ ConvertChunk \/ ChunksEnd
    BY <2>1 DEF PullEvent, SourceEnds, ConvertChunk, ChunksEnd, handler
  <2>2. CASE \E s \in Stages : RelayEnds(s)
    BY <2>2 DEF RelayEnds, handler
  <2> QED BY <1>2, <1>6, <1>11, <1>13, <2>1, <2>2, LiveCases
<1> QED BY <1>2, <1>6, <1>7, <1>8, <1>9, <1>10, <1>11, <1>12, <1>13, <1>14, LiveCases

LEMMA WayTyped ==
    ASSUME Base, Next
    PROVE  OnTheWay' \in Seq(Item)
<1>1. TypeOK'
  BY BaseKeeps DEF Base
<1>2. PICK a, b, c, d, e, A : /\ a = hand'["frames"] /\ b = hand'["client"] /\ c = hand'["tee"]
                              /\ d = chan'["conv"] /\ e = hand'["conv"] /\ A = KeptItems'
  OBVIOUS
<1>3. a \in Seq(Item) /\ b \in Seq(Item) /\ c \in Seq(Item) /\ d \in Seq(Item) /\ e \in Seq(Item)
  BY <1>1, <1>2 DEF TypeOK, Stages
<1>4. Queue(a, b, c, d, e, A) \in Seq(Item)
  BY <1>3, QueueTyped
<1>5. OnTheWay' = Queue(a, b, c, d, e, A)
  BY <1>2, WayIsQueue, Zenon
<1> QED BY <1>4, <1>5

LEMMA RefinementStep ==
    ASSUME IInv, Next
    PROVE  Delivery!Next \/ UNCHANGED Delivery!vars
<1>1. TypeOK /\ StagesInv /\ PhaseInv
  BY DEF IInv
<1>2. \/ written' = written
      \/ phase = "streaming" /\ \E f \in Item : written' = Append(written, f)
  BY <1>1, WrittenGrows
<1>3. Flow \in Seq(Item) /\ written \in Seq(Item)
  BY <1>1, FlowTyped DEF TypeOK
<1>4. link \in {"up", "broken"} /\ link' \in {"up", "broken"} /\ (link = "broken" => link' = "broken")
  <2>1. CASE ChainStep
    BY <1>1, <2>1, ChainSteps DEF TypeOK
  <2>2. CASE HandlerMove
    BY <1>1, <2>2 DEF HandlerMove, StartConv, StartClient, Refuse, WriteFrame, FramesEnd, SettleUsage,
                      ReadBuffer, Return, Drain, Break, Cancel, TypeOK
  <2> QED BY <2>1, <2>2, Steps
<1>5. CASE link = "broken"
  <2>1. Mode = "lost" /\ Mode' = "lost"
    BY <1>4, <1>5 DEF Mode
  <2> QED BY <1>1, <1>2, <2>1, AbstractUnwind
<1>6. CASE link = "up" /\ link' = "broken"
  <2>1. Break
    <3>1. CASE ChainStep
      BY <1>1, <1>6, <3>1, ChainSteps
    <3>2. CASE HandlerMove
      BY <1>6, <3>2 DEF HandlerMove, StartConv, StartClient, Refuse, WriteFrame, FramesEnd, SettleUsage,
                        ReadBuffer, Return, Drain, Cancel
    <3> QED BY <3>1, <3>2, Steps
  <2>2. UNCHANGED <<setup, hand, chan, written>> /\ phase # "done"
    BY <2>1 DEF Break, chain, handler
  <2>3. Flow' = Flow
    BY <2>2, WaySame
  <2>4. Mode = "live" /\ Mode' = "lost"
    BY <1>6, <2>2 DEF Mode
  <2> QED BY <2>2, <2>3, <2>4, AbstractLose
<1>7. CASE link = "up" /\ link' = "up" /\ ~Intact'
  <2>1. phase' = "done" /\ ~Streamed'
    BY <1>7 DEF Intact
  <2>2. CASE phase # "done"
    <3>1. Refuse
      <4>1. CASE ChainStep
        BY <1>1, <2>1, <2>2, <4>1, ChainSteps DEF handler
      <4>2. CASE HandlerMove
        <5>1. Refuse \/ Return \/ UNCHANGED phase \/ phase' # "done"
          BY <4>2 DEF HandlerMove, StartConv, StartClient, WriteFrame, FramesEnd, SettleUsage, ReadBuffer,
                      Drain, Break, Cancel, handler
        <5>2. ~Return
          BY <1>1, <2>1 DEF Return, PhaseInv, Streamed, chain
        <5> QED BY <2>1, <2>2, <5>1, <5>2
      <4> QED BY <4>1, <4>2, Steps
    <3>2. UNCHANGED <<written, st>> /\ phase \in {"opened", "converted"}
      BY <3>1 DEF Refuse, chain
    <3>3. written = <<>>
      BY <1>1, <3>2 DEF PhaseInv
    <3>4. Mode = "live" /\ Mode' = "refused"
      BY <1>7, <2>1, <2>2 DEF Mode
    <3> QED BY <3>2, <3>3, <3>4, AbstractRefuse
  <2>3. CASE phase = "done"
    <3>1. written' = written
      BY <1>2, <2>3
    <3>2. ~Streamed
      <4>1. CASE ChainStep
        BY <1>1, <2>1, <4>1, ChainSteps DEF Streamed, Stages
      <4>2. CASE HandlerMove
        BY <2>1, <2>3, <4>2 DEF HandlerMove, StartConv, StartClient, Refuse, WriteFrame, FramesEnd,
                                SettleUsage, ReadBuffer, Return, Drain, Break, Cancel, chain, Streamed
      <4> QED BY <4>1, <4>2, Steps
    <3>3. Mode = "refused" /\ Mode' = "refused"
      BY <1>7, <2>1, <2>3, <3>2 DEF Mode
    <3> QED BY <1>1, <3>1, <3>3, AbstractUnwind
  <2> QED BY <2>2, <2>3
<1>8. CASE link = "up" /\ link' = "up" /\ Intact'
  <2>1. Intact /\ phase # "done" /\ ~aborted
    BY <1>8, LiveStep
  <2>2. Mode = "live"
    BY <1>8, <2>1 DEF Mode
  <2>3. CASE phase' = "done"
    <3>1. Return
      <4>1. CASE ChainStep
        BY <1>1, <2>1, <2>3, <4>1, ChainSteps DEF handler
      <4>2. CASE HandlerMove
        <5>1. ~Refuse
          BY <1>8, LiveStep
        <5> QED BY <2>1, <2>3, <4>2, <5>1
                DEF HandlerMove, StartConv, StartClient, WriteFrame, FramesEnd, SettleUsage, ReadBuffer,
                    Drain, Break, Cancel, handler
      <4> QED BY <4>1, <4>2, Steps
    <3>2. UNCHANGED <<setup, hand, chan, st, written>> /\ phase = "trace"
      BY <3>1 DEF Return, chain
    <3>3. Streamed /\ st[Out] = "ended"
      BY <1>1, <2>1, <3>2 DEF PhaseInv
    <3>4. st["client"] = "ended" /\ st["tee"] = "ended" /\ st["frames"] \in {"off", "ended"}
      BY <1>1, <3>3, OutEnded
    <3>5. hand["client"] = <<>> /\ hand["frames"] = <<>>
      BY <1>1, <3>4 DEF StagesInv, Stages
    <3>6. OnTheWay = <<>>
      BY <1>1, <3>4, <3>5, WayEmpty
    <3>7. Flow = written /\ Flow' = Flow
      <4>1. Join(written, <<>>) = written
        BY <1>3, JoinEmpty
      <4> QED BY <3>2, <3>6, <4>1, WayIsQueue, WaySame
    <3>8. Mode' = "over"
      BY <1>8, <2>3, <3>2, <3>3 DEF Mode, Streamed
    <3> QED BY <2>2, <3>2, <3>7, <3>8, AbstractFinish
  <2>4. CASE phase' # "done"
    <3>1. Mode' = "live"
      BY <1>8, <2>4 DEF Mode
    <3>2. CASE Flow' # Flow
      <4>1. written' = written /\ \E x \in Item : Flow' = Append(Flow, x)
        BY <1>8, <3>2, FlowGrows
      <4> QED BY <2>2, <3>1, <4>1, AbstractProduce
    <3>3. CASE Flow' = Flow /\ written' = written
      BY <2>2, <3>1, <3>3, AbstractStutter
    <3>4. ASSUME Flow' = Flow, NEW f \in Item, written' = Append(written, f) PROVE Delivery!Next
      <4>1. PICK w, F, q : w = written /\ F = Flow /\ q = OnTheWay'
        OBVIOUS
      <4>3. w \in Seq(Item) /\ F \in Seq(Item) /\ Len(w) \in Nat /\ f \in Item
        BY <1>3, <4>1, LenProperties
      <4>4. q \in Seq(Item)
        BY <4>1, WayTyped DEF IInv, Base
      <4>5. F = Join(Append(w, f), q)
        BY <3>4, <4>1, WayIsQueue
      <4>6. PICK v : v = Append(w, f)
        OBVIOUS
      <4>7. v \in Seq(Item) /\ Len(v) = Len(w) + 1 /\ v[Len(w) + 1] = f
        BY <4>3, <4>6, AppendProperties
      <4>8. /\ Len(F) = Len(v) + Len(q) /\ Len(q) \in Nat
            /\ \A i \in 1..(Len(v) + Len(q)) : F[i] = IF i <= Len(v) THEN v[i] ELSE q[i - Len(v)]
        BY <4>4, <4>5, <4>6, <4>7, JoinTyped, LenProperties
      <4>9. Len(w) < Len(F) /\ F[Len(w) + 1] = f
        BY <4>3, <4>7, <4>8
      <4> QED BY <2>2, <3>1, <3>4, <4>1, <4>9, AbstractDeliver
    <3> QED BY <1>2, <3>2, <3>3, <3>4
  <2> QED BY <2>3, <2>4
<1> QED BY <1>4, <1>5, <1>6, <1>7, <1>8

\* The goroutines and channels of a request together are one queue between the
\* converter and the connection, which delivers its frames in the order they were
\* made, ends when all are delivered, and is cut short only by a refusal before
\* the first of them or by the loss of the connection.
THEOREM DeliveryIsImplemented == Spec => DeliveryImplemented
<1>1. Init => Delivery!Init
  <2> SUFFICES ASSUME Init PROVE Delivery!Init
    OBVIOUS
  <2>1. /\ hand["conv"] = <<>> /\ hand["tee"] = <<>> /\ hand["client"] = <<>> /\ hand["frames"] = <<>>
        /\ chan["conv"] = <<>> /\ written = <<>> /\ link = "up" /\ phase = "opened"
    BY DEF Init, Stages
  <2>2. OnTheWay = Queue(<<>>, <<>>, <<>>, <<>>, <<>>, KeptItems)
    BY <2>1, WayIsQueue, Zenon
  <2>3. OnTheWay = <<>>
    BY <2>2, QueueEmpty
  <2>4. Join(<<>>, <<>>) = <<>>
    BY EmptySeq, JoinEmpty
  <2>5. Flow = <<>>
    BY <2>1, <2>3, <2>4, WayIsQueue
  <2>6. Mode = "live"
    BY <2>1 DEF Mode
  <2> QED BY <2>1, <2>5, <2>6, AbstractInit
<1>2. IInv /\ [Next]_vars => [Delivery!Next]_(Delivery!vars)
  <2> SUFFICES ASSUME IInv, [Next]_vars PROVE Delivery!Next \/ UNCHANGED Delivery!vars
    OBVIOUS
  <2>1. CASE Next
    BY <2>1, RefinementStep
  <2>2. CASE UNCHANGED vars
    <3>1. UNCHANGED <<setup, hand, chan, written, link, phase, st>>
      BY <2>2 DEF vars, chain, handler
    <3>2. Flow' = Flow
      BY <3>1, WaySame
    <3>3. Mode' = Mode
      BY <3>1 DEF Mode, Streamed
    <3> QED BY <3>1, <3>2, <3>3, AbstractStutter
  <2> QED BY <2>1, <2>2
<1> QED BY <1>1, <1>2, Inductive, PTL DEF Spec, DeliveryImplemented, Delivery!Spec
=============================================================================
