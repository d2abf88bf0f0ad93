----------------------- MODULE StreamConversionProofs -----------------------
(***************************************************************************)
(* What holds of a stream converted from any provider's protocol to        *)
(* either client's, for any number of chunks, calls and blocks.            *)
(***************************************************************************)
EXTENDS StreamConversion, SelectionProofs

---------------------------------------------------------------------------
(* Maps keyed by a block's index *)

Maps(V) == UNION {[D -> V] : D \in SUBSET Nat}

LEMMA MapTyped ==
    ASSUME NEW V, NEW f \in Maps(V)
    PROVE  /\ DOMAIN f \subseteq Nat
           /\ \A k \in DOMAIN f : f[k] \in V
           /\ f \in [DOMAIN f -> V]
<1>1. PICK D \in SUBSET Nat : f \in [D -> V]
  BY DEF Maps
<1>2. DOMAIN f = D
  BY <1>1
<1> QED BY <1>1, <1>2

LEMMA NoMapTyped == \A V : NoMap \in Maps(V)
<1> SUFFICES ASSUME NEW V PROVE NoMap \in Maps(V)
  OBVIOUS
<1>1. <<>> \in [{} -> V]
  OBVIOUS
<1> QED BY <1>1 DEF NoMap, Maps

\* g is f with v put at k, and f without k.
IsPut(g, V, f, k, v) ==
    /\ g \in Maps(V)
    /\ DOMAIN g = DOMAIN f \union {k}
    /\ g[k] = v
    /\ \A j \in DOMAIN f \ {k} : g[j] = f[j]

IsDrop(g, V, f, k) ==
    /\ g \in Maps(V)
    /\ DOMAIN g = DOMAIN f \ {k}
    /\ \A j \in DOMAIN f \ {k} : g[j] = f[j]

LEMMA PutFacts ==
    ASSUME NEW V, NEW f \in Maps(V), NEW k \in Nat, NEW v \in V
    PROVE  IsPut(Put(f, k, v), V, f, k, v)
<1>1. /\ DOMAIN f \subseteq Nat
      /\ \A j \in DOMAIN f : f[j] \in V
  BY MapTyped
<1>3. Put(f, k, v) \in [DOMAIN f \union {k} -> V]
  BY <1>1 DEF Put
<1>4. DOMAIN f \union {k} \in SUBSET Nat
  BY <1>1
<1> QED BY <1>3, <1>4 DEF Maps, Put, IsPut

LEMMA DropFacts ==
    ASSUME NEW V, NEW f \in Maps(V), NEW k
    PROVE  IsDrop(Drop(f, k), V, f, k)
<1>1. /\ DOMAIN f \subseteq Nat
      /\ \A j \in DOMAIN f : f[j] \in V
  BY MapTyped
<1>2. Drop(f, k) = [x \in DOMAIN f \ {k} |-> f[x]]
  BY DEF Drop, Restrict
<1>3. Drop(f, k) \in [DOMAIN f \ {k} -> V]
  BY <1>1, <1>2
<1> QED BY <1>1, <1>2, <1>3 DEF Maps, IsDrop

LEMMA LookupTyped ==
    ASSUME NEW V, NEW f \in Maps(V), NEW k, NEW v \in V
    PROVE  Lookup(f, k, v) \in V
BY MapTyped DEF Lookup, Has

---------------------------------------------------------------------------
(* Texts, frames and what they show *)

Pieces == Nat \X {"piece", "act", "whole", "params"}
Texts == Seq(Pieces)

Items == [type : {"message", "reasoning", "function_call"}, d : Texts,
          status : {"in_progress", "completed"}]

\* the frames of both protocols that say nothing
SilentNames ==
    {"output_item.added", "output_item.done", "content_part.added", "content_part.done",
     "output_text.done", "reasoning_summary_part.added", "reasoning_summary_part.done",
     "reasoning_summary_text.done", "function_call_arguments.delta",
     "function_call_arguments.done", "response.created", "response.in_progress",
     "response.completed", "response.incomplete", "response.failed",
     "role", "tool_call", "tool_args", "finish", "error", "[DONE]"}

Spoken == [f : TextFrames \union ThoughtFrames, oi : Nat, d : Texts]
Silent == [f : SilentNames, oi : Nat, d : Texts \union Seq(Items)]
Frames == Spoken \union Silent

Part(fr, F) == IF fr.f \in F THEN fr.d ELSE <<>>
Shown(frames, F) == FlattenSeq([k \in DOMAIN frames |-> Part(frames[k], F)])

LEMMA SilentAreSilent == SilentNames \cap (TextFrames \union ThoughtFrames) = {}
BY DEF SilentNames, TextFrames, ThoughtFrames

LEMMA PartTyped ==
    ASSUME NEW fr \in Frames, NEW F \in {TextFrames, ThoughtFrames}
    PROVE  Part(fr, F) \in Texts
BY SilentAreSilent DEF Part, Frames, Spoken, Silent, Texts

LEMMA ShownAppend ==
    ASSUME NEW frames \in Seq(Frames), NEW fr \in Frames, NEW F \in {TextFrames, ThoughtFrames}
    PROVE  /\ Shown(frames, F) \in Texts
           /\ Shown(Append(frames, fr), F) = Shown(frames, F) \o Part(fr, F)
<1> DEFINE parts(fs) == [k \in DOMAIN fs |-> Part(fs[k], F)]
           n == Len(frames)
           u == Append(frames, fr)
<1>1. /\ n \in Nat /\ DOMAIN frames = 1..n
      /\ \A k \in 1..n : frames[k] \in Frames
  BY LenProperties, ElementOfSeq
<1>2. /\ DOMAIN u = 1..(n + 1) /\ u[n + 1] = fr
      /\ \A k \in 1..n : u[k] = frames[k]
  BY AppendProperties, LenProperties
<1>3. parts(frames) \in [1..n -> Texts]
  BY <1>1, PartTyped
<1>4. parts(frames) \in Seq(Texts) /\ Len(parts(frames)) = n
  BY <1>1, <1>3, ListTyped
<1>5. Part(fr, F) \in Texts
  BY PartTyped
<1>6. parts(u) = Append(parts(frames), Part(fr, F))
  <2>1. PICK p : p = parts(frames)
    OBVIOUS
  <2>2. PICK x : x = Part(fr, F)
    OBVIOUS
  <2>3. p \in Seq(Texts) /\ Len(p) = n /\ x \in Texts /\ \A k \in 1..n : p[k] = Part(frames[k], F)
    BY <1>1, <1>4, <1>5, <2>1, <2>2
  <2> DEFINE q == [k \in 1..(n + 1) |-> IF k = n + 1 THEN x ELSE p[k]]
  <2>4. Append(p, x) = q
    <3>1. /\ Append(p, x) \in Seq(Texts) /\ Len(Append(p, x)) = n + 1
          /\ Append(p, x)[n + 1] = x /\ \A k \in 1..n : Append(p, x)[k] = p[k]
      BY <2>3, AppendProperties
    <3>2. \A k \in 1..n : p[k] \in Texts
      BY <2>3, ElementOfSeq
    <3>3. q \in [1..(n + 1) -> Texts]
      BY <2>3, <3>2
    <3>4. q \in Seq(Texts) /\ Len(q) = n + 1
      <4> HIDE DEF q
      <4> QED BY <3>3, <1>1, ListTyped
    <3>5. \A k \in 1..(n + 1) : Append(p, x)[k] = q[k]
      BY <3>1, <1>1
    <3> HIDE DEF q
    <3> QED BY <3>1, <3>4, <3>5, SeqEqual
  <2>5. parts(u) = [k \in 1..(n + 1) |-> IF k = n + 1 THEN x ELSE p[k]]
    <3>1. \A k \in 1..(n + 1) : Part(u[k], F) = IF k = n + 1 THEN x ELSE p[k]
      BY <1>1, <1>2, <2>2, <2>3
    <3> QED BY <1>2, <3>1
  <2> QED BY <2>1, <2>2, <2>4, <2>5
<1>7. parts(frames) \in Seq(Seq(Pieces)) /\ Part(fr, F) \in Seq(Pieces)
  BY <1>4, <1>5 DEF Texts
<1>8. /\ FlattenSeq(parts(frames)) \in Seq(Pieces)
      /\ FlattenSeq(Append(parts(frames), Part(fr, F))) = FlattenSeq(parts(frames)) \o Part(fr, F)
  <2> HIDE DEF parts
  <2> QED BY <1>7, FlattenAppend
<1> QED BY <1>6, <1>8 DEF Shown, Texts

LEMMA ShownNone == \A F : Shown(<<>>, F) = <<>>
<1> SUFFICES ASSUME NEW F PROVE Shown(<<>>, F) = <<>>
  OBVIOUS
<1>1. [k \in DOMAIN <<>> |-> Part(<<>>[k], F)] = <<>>
  OBVIOUS
<1> QED BY <1>1, FlattenNone DEF Shown

\* A sequence up to one more of its elements.
LEMMA OneMore ==
    ASSUME NEW S, NEW s \in Seq(S), NEW n \in 0..(Len(s) - 1)
    PROVE  /\ SubSeq(s, 1, n) \in Seq(S) /\ Len(SubSeq(s, 1, n)) = n
           /\ SubSeq(s, 1, n + 1) = Append(SubSeq(s, 1, n), s[n + 1])
           /\ n + 1 \in 1..Len(s) /\ s[n + 1] \in S
<1>1. Len(s) \in Nat /\ n \in Nat /\ n + 1 \in 1..Len(s) /\ \A i \in 1..Len(s) : s[i] \in S
  BY LenProperties, ElementOfSeq
<1>2. /\ SubSeq(s, 1, n) \in Seq(S) /\ Len(SubSeq(s, 1, n)) = n
      /\ \A i \in 1..n : SubSeq(s, 1, n)[i] = s[i]
  <2>1. \A i \in 1..n : s[i] \in S
    BY <1>1
  <2>2. /\ SubSeq(s, 1, n) \in Seq(S)
        /\ Len(SubSeq(s, 1, n)) = IF 1 <= n THEN n - 1 + 1 ELSE 0
        /\ \A i \in 1 .. n - 1 + 1 : SubSeq(s, 1, n)[i] = s[1 + i - 1]
    BY <2>1, <1>1, SubSeqProperties
  <2>3. \A i \in 1..n : i \in 1 .. n - 1 + 1 /\ 1 + i - 1 = i
    BY <1>1
  <2> QED BY <2>2, <2>3, <1>1
<1>3. /\ SubSeq(s, 1, n + 1) \in Seq(S) /\ Len(SubSeq(s, 1, n + 1)) = n + 1
      /\ \A i \in 1..(n + 1) : SubSeq(s, 1, n + 1)[i] = s[i]
  <2>1. \A i \in 1..(n + 1) : s[i] \in S
    BY <1>1
  <2>2. /\ SubSeq(s, 1, n + 1) \in Seq(S)
        /\ Len(SubSeq(s, 1, n + 1)) = IF 1 <= n + 1 THEN (n + 1) - 1 + 1 ELSE 0
        /\ \A i \in 1 .. (n + 1) - 1 + 1 : SubSeq(s, 1, n + 1)[i] = s[1 + i - 1]
    BY <2>1, <1>1, SubSeqProperties
  <2>3. \A i \in 1..(n + 1) : i \in 1 .. (n + 1) - 1 + 1 /\ 1 + i - 1 = i
    BY <1>1
  <2> QED BY <2>2, <2>3, <1>1
<1>4. PICK a, b, x : a = SubSeq(s, 1, n) /\ b = SubSeq(s, 1, n + 1) /\ x = s[n + 1]
  OBVIOUS
<1>5. /\ a \in Seq(S) /\ Len(a) = n /\ \A i \in 1..n : a[i] = s[i]
      /\ b \in Seq(S) /\ Len(b) = n + 1 /\ \A i \in 1..(n + 1) : b[i] = s[i]
      /\ x \in S
  BY <1>1, <1>2, <1>3, <1>4
<1>6. /\ Append(a, x) \in Seq(S) /\ Len(Append(a, x)) = n + 1
      /\ Append(a, x)[n + 1] = x /\ \A i \in 1..n : Append(a, x)[i] = a[i]
  BY <1>5, AppendProperties
<1>7. \A i \in 1..(n + 1) : b[i] = Append(a, x)[i]
  BY <1>1, <1>4, <1>5, <1>6
<1>8. b = Append(a, x)
  BY <1>5, <1>6, <1>7, SeqEqual
<1> QED BY <1>1, <1>2, <1>4, <1>8

LEMMA NoneYet ==
    ASSUME NEW S, NEW s \in Seq(S)
    PROVE  SubSeq(s, 1, 0) = <<>> /\ SubSeq(s, 1, Len(s)) = s
BY SubSeqEmpty, SubSeqFull

LEMMA ConcatAppend ==
    ASSUME NEW S, NEW s \in Seq(S), NEW t \in Seq(S), NEW x \in S
    PROVE  s \o Append(t, x) = Append(s \o t, x)
<1>1. Append(t, x) = t \o <<x>> /\ <<x>> \in Seq(S)
  BY AppendIsConcat
<1>2. s \o t \in Seq(S)
  BY ConcatProperties
<1>3. Append(s \o t, x) = (s \o t) \o <<x>>
  BY <1>2, AppendIsConcat
<1> QED BY <1>1, <1>3, ConcatAssociative

LEMMA ShownConcat ==
    ASSUME NEW frames \in Seq(Frames), NEW more \in Seq(Frames), NEW F \in {TextFrames, ThoughtFrames}
    PROVE  /\ Shown(frames, F) \in Texts /\ Shown(more, F) \in Texts
           /\ Shown(frames \o more, F) = Shown(frames, F) \o Shown(more, F)
<1> DEFINE upto(n) == SubSeq(more, 1, n)
           T == {n \in 0..Len(more) :
                   /\ Shown(upto(n), F) \in Texts
                   /\ Shown(frames \o upto(n), F) = Shown(frames, F) \o Shown(upto(n), F)}
<1>1. Len(more) \in Nat
  BY LenProperties
<1>2. Shown(frames, F) \in Texts
  <2>1. PICK fr : fr \in Frames
    <3>1. [f |-> "content", oi |-> 0, d |-> <<>>] \in Spoken
      BY DEF Spoken, TextFrames, Texts
    <3> QED BY <3>1 DEF Frames
  <2> QED BY <2>1, ShownAppend
<1>3. 0 \in T
  <2>1. upto(0) = <<>>
    BY NoneYet
  <2>2. Shown(<<>>, F) = <<>> /\ <<>> \in Texts
    BY ShownNone DEF Texts
  <2>3. frames \o <<>> = frames /\ Shown(frames, F) \o <<>> = Shown(frames, F)
    BY <1>2, ConcatEmptySeq DEF Texts
  <2>4. Shown(upto(0), F) \in Texts /\ Shown(frames \o upto(0), F) = Shown(frames, F) \o Shown(upto(0), F)
    BY <2>1, <2>2, <2>3, Zenon
  <2> QED BY <2>4, <1>1
<1>4. ASSUME NEW n \in 0..(Len(more) - 1), n \in T PROVE n + 1 \in T
  <2>1. PICK a, x : a = upto(n) /\ x = more[n + 1]
    OBVIOUS
  <2>2. a \in Seq(Frames) /\ x \in Frames /\ upto(n + 1) = Append(a, x) /\ n + 1 \in 0..Len(more)
    BY <2>1, <1>1, OneMore
  <2>3. Shown(a, F) \in Texts /\ Shown(frames \o a, F) = Shown(frames, F) \o Shown(a, F)
    BY <1>4, <2>1
  <2>4. frames \o Append(a, x) = Append(frames \o a, x) /\ frames \o a \in Seq(Frames)
    BY <2>2, ConcatAppend, ConcatProperties
  <2>5. /\ Shown(Append(a, x), F) = Shown(a, F) \o Part(x, F)
        /\ Shown(Append(frames \o a, x), F) = Shown(frames \o a, F) \o Part(x, F)
        /\ Part(x, F) \in Texts
    BY <2>2, <2>4, ShownAppend, PartTyped
  <2>6. PICK p, q, r : p = Shown(frames, F) /\ q = Shown(a, F) /\ r = Part(x, F)
    OBVIOUS
  <2>7. p \in Seq(Pieces) /\ q \in Seq(Pieces) /\ r \in Seq(Pieces)
    BY <2>3, <2>5, <2>6, <1>2 DEF Texts
  <2>8. (p \o q) \o r = p \o (q \o r) /\ q \o r \in Seq(Pieces)
    BY <2>7, ConcatAssociative, ConcatProperties
  <2>9. /\ Shown(upto(n + 1), F) \in Texts
        /\ Shown(frames \o upto(n + 1), F) = Shown(frames, F) \o Shown(upto(n + 1), F)
    BY <2>2, <2>3, <2>4, <2>5, <2>6, <2>8 DEF Texts
  <2> QED BY <2>2, <2>9
<1>5. Len(more) \in T
  <2> HIDE DEF T
  <2>1. 0..Len(more) \subseteq T
    BY <1>1, <1>3, <1>4, UpToInduction
  <2> QED BY <2>1, <1>1
<1>6. upto(Len(more)) = more
  BY NoneYet
<1> QED BY <1>2, <1>5, <1>6

LEMMA ShownOne ==
    ASSUME NEW fr \in Frames, NEW F \in {TextFrames, ThoughtFrames}
    PROVE  Shown(<<fr>>, F) = Part(fr, F)
<1>1. <<>> \in Seq(Frames) /\ Append(<<>>, fr) = <<fr>>
  OBVIOUS
<1>2. Shown(<<fr>>, F) = <<>> \o Part(fr, F)
  BY <1>1, ShownAppend, ShownNone
<1> QED BY <1>2, PartTyped, ConcatEmptySeq DEF Texts

LEMMA SilentShown ==
    ASSUME NEW fs \in Seq(Silent), NEW F \in {TextFrames, ThoughtFrames}
    PROVE  Shown(fs, F) = <<>>
<1> DEFINE upto(n) == SubSeq(fs, 1, n)
           T == {n \in 0..Len(fs) : Shown(upto(n), F) = <<>>}
<1>1. Len(fs) \in Nat
  BY LenProperties
<1>2. 0 \in T
  <2>1. Shown(upto(0), F) = <<>>
    BY NoneYet, ShownNone, Zenon
  <2> QED BY <2>1, <1>1
<1>3. ASSUME NEW n \in 0..(Len(fs) - 1), n \in T PROVE n + 1 \in T
  <2>1. PICK a, x : a = upto(n) /\ x = fs[n + 1]
    OBVIOUS
  <2>2. a \in Seq(Silent) /\ x \in Silent /\ upto(n + 1) = Append(a, x) /\ n + 1 \in 0..Len(fs)
    BY <2>1, <1>1, OneMore
  <2>3. a \in Seq(Frames) /\ x \in Frames
    <3>1. Silent \subseteq Frames
      BY DEF Frames
    <3> QED BY <2>2, <3>1, SeqMonotonic
  <2>4. Part(x, F) = <<>>
    BY <2>2, SilentAreSilent DEF Part, Silent
  <2>5. Shown(Append(a, x), F) = Shown(a, F) \o <<>> /\ Shown(a, F) = <<>>
    BY <2>1, <2>3, <2>4, <1>3, ShownAppend
  <2>6. Shown(Append(a, x), F) = <<>>
    BY <2>5
  <2> QED BY <2>2, <2>6
<1>4. Len(fs) \in T
  <2> HIDE DEF T
  <2>1. 0..Len(fs) \subseteq T
    BY <1>1, <1>2, <1>3, UpToInduction
  <2> QED BY <2>1, <1>1
<1> QED BY <1>4, NoneYet

---------------------------------------------------------------------------
(* What the Responses converter remembers *)

NestedCalls == [emitted : BOOLEAN, buf : Texts]

Memories ==
    [output : Seq(Items), status : {"in_progress", "completed", "incomplete", "failed"},
     contentText : Maps(Texts), toolArgs : Maps(Texts), outIx : Maps(Nat),
     reason : SUBSET Nat, final : SUBSET Nat, nested : Maps(NestedCalls),
     frames : Seq(Frames), panicked : BOOLEAN]

Stopped == {"", "end_turn", "max_tokens", "tool_use", "tool_calls", "stop", "length",
            "content_filter", "STOP", "MAX_TOKENS"}
Events ==
    [t : {"started", "textDelta", "argsDelta", "argsDone", "blockDone", "itemAdded", "itemDone",
          "ping", "created", "inProgress", "completed", "incomplete", "failed"},
     ix : Nat, kind : {"", "text", "reasoning", "tool", "nested"}, d : Texts, stop : Stopped]

\* Every index of an item addresses one, and a call that was announced has one.
Indexed(r) == \A ix \in DOMAIN r.outIx : r.outIx[ix] < Len(r.output)
Announced(r) == \A ix \in DOMAIN r.nested : r.nested[ix].emitted => r.output # <<>>

\* The memory of a converter that did not read past its items.
Sound(r) == r \in Memories /\ Indexed(r) /\ Announced(r) /\ ~r.panicked

\* A call was started at this index: its end will find an item.
Listed(r, ix) == r.output # <<>> \/ (ix \in DOMAIN r.nested /\ ~r.nested[ix].emitted)
ListedStay(r, q) == \A ix \in Nat : Listed(r, ix) => Listed(q, ix)

\* What the client was shown of text and of thought stays the same.
Hushed(r, q) == \A F \in {TextFrames, ThoughtFrames} : Shown(q.frames, F) = Shown(r.frames, F)

\* q is what became of r: nothing was forgotten and nothing was said.
Became(r, q, reason) == Sound(q) /\ ListedStay(r, q) /\ q.reason = reason /\ Hushed(r, q)

LEMMA SendFacts ==
    ASSUME NEW r \in Memories, NEW fs \in Seq(Frames)
    PROVE  /\ Send(r, fs) \in Memories
           /\ Send(r, fs).output = r.output /\ Send(r, fs).status = r.status
           /\ Send(r, fs).contentText = r.contentText /\ Send(r, fs).toolArgs = r.toolArgs
           /\ Send(r, fs).outIx = r.outIx /\ Send(r, fs).reason = r.reason
           /\ Send(r, fs).final = r.final /\ Send(r, fs).nested = r.nested
           /\ Send(r, fs).panicked = r.panicked
           /\ Send(r, fs).frames = r.frames \o fs
<1>1. r.frames \o fs \in Seq(Frames)
  BY ConcatProperties DEF Memories
<1>2. PICK all : all = r.frames \o fs
  OBVIOUS
<1> QED BY <1>1, <1>2 DEF Send, Memories

LEMMA ItemAtFacts ==
    ASSUME NEW r \in Memories, Indexed(r), NEW ix
    PROVE  /\ ItemAt(r, ix) \in Nat
           /\ r.output # <<>> => IsItem(r, ix) /\ ItemAt(r, ix) + 1 \in 1..Len(r.output)
           /\ ix \in DOMAIN r.outIx => ItemAt(r, ix) < Len(r.output) /\ r.output # <<>>
<1>1. /\ DOMAIN r.outIx \subseteq Nat
      /\ \A k \in DOMAIN r.outIx : r.outIx[k] \in Nat
  BY MapTyped DEF Memories
<1>2. Len(r.output) \in Nat /\ (r.output # <<>> => Len(r.output) > 0) /\ (r.output = <<>> => Len(r.output) = 0)
  BY LenProperties, EmptySeq DEF Memories
<1> QED BY <1>1, <1>2 DEF ItemAt, IsItem, Lookup, Has, Indexed

LEMMA AddItemFacts ==
    ASSUME NEW r \in Memories, Indexed(r), NEW ix \in Nat, NEW item \in Items
    PROVE  LET q == AddItem(r, ix, item)
           IN  /\ q \in Memories /\ Indexed(q) /\ q.output # <<>>
               /\ DOMAIN q.outIx = DOMAIN r.outIx \union {ix} /\ ix \in DOMAIN q.outIx
               /\ q.contentText = r.contentText /\ q.toolArgs = r.toolArgs
               /\ q.reason = r.reason /\ q.final = r.final /\ q.nested = r.nested
               /\ q.frames = r.frames /\ q.panicked = r.panicked
<1>0. PICK q : q = AddItem(r, ix, item)
  OBVIOUS
<1>1. /\ Append(r.output, item) \in Seq(Items) /\ Append(r.output, item) # <<>>
      /\ Len(Append(r.output, item)) = Len(r.output) + 1 /\ Len(r.output) \in Nat
  BY AppendProperties, LenProperties DEF Memories
<1>2. r.outIx \in Maps(Nat)
  BY DEF Memories
<1>3. PICK o, n, m : o = Append(r.output, item) /\ n = Len(r.output) /\ m = Put(r.outIx, ix, n)
  OBVIOUS
<1>9. IsPut(m, Nat, r.outIx, ix, n)
  <2>1. PICK f : f = r.outIx
    OBVIOUS
  <2>2. f \in Maps(Nat) /\ n \in Nat
    BY <2>1, <1>1, <1>2, <1>3
  <2> QED BY <2>1, <2>2, <1>3, PutFacts
<1>4. q = [r EXCEPT !.output = o, !.outIx = m]
  BY <1>0, <1>3, Zenon DEF AddItem
<1>5. q \in Memories
  BY <1>1, <1>3, <1>4, <1>9 DEF Memories, IsPut
<1>6. /\ q.output = o /\ q.outIx = m
      /\ q.contentText = r.contentText /\ q.toolArgs = r.toolArgs
      /\ q.reason = r.reason /\ q.final = r.final /\ q.nested = r.nested
      /\ q.frames = r.frames /\ q.panicked = r.panicked
  BY <1>4 DEF Memories
<1>7. \A j \in DOMAIN r.outIx : r.outIx[j] \in Nat
  BY <1>2, MapTyped
<1>8. Indexed(q)
  BY <1>1, <1>3, <1>6, <1>7, <1>9 DEF Indexed, IsPut
<1> QED BY <1>0, <1>1, <1>3, <1>5, <1>6, <1>8, <1>9 DEF IsPut

LEMMA SetItemFacts ==
    ASSUME NEW r \in Memories, Indexed(r), NEW ix, NEW d \in Texts
    PROVE  LET q == SetItem(r, ix, d)
           IN  /\ q \in Memories /\ Indexed(q) /\ (q.output = <<>> <=> r.output = <<>>)
               /\ q.contentText = r.contentText /\ q.toolArgs = r.toolArgs /\ q.outIx = r.outIx
               /\ q.reason = r.reason /\ q.final = r.final /\ q.nested = r.nested
               /\ q.frames = r.frames /\ q.panicked = r.panicked
<1>0. PICK q : q = SetItem(r, ix, d)
  OBVIOUS
<1>1. CASE Has(r.outIx, ix) /\ IsItem(r, ix)
  <2>1. PICK o, k : o = r.output /\ k = ItemAt(r, ix) + 1
    OBVIOUS
  <2>2. o \in Seq(Items) /\ k \in 1..Len(o) /\ o[k] \in Items
    <3>1. ix \in DOMAIN r.outIx
      BY <1>1 DEF Has
    <3>2. o \in Seq(Items) /\ k \in 1..Len(o)
      BY <2>1, <3>1, ItemAtFacts DEF Memories
    <3> QED BY <3>2, ElementOfSeq
  <2>3. PICK item : item = [o[k] EXCEPT !.d = d, !.status = "completed"]
    OBVIOUS
  <2>4. item \in Items
    BY <2>2, <2>3 DEF Items
  <2>5. PICK p : p = [o EXCEPT ![k] = item]
    OBVIOUS
  <2>6. p \in Seq(Items) /\ Len(p) = Len(o)
    BY <2>2, <2>4, <2>5, ExceptSeq
  <2>7. q = [r EXCEPT !.output = p]
    <3>1. q = [r EXCEPT !.output[ItemAt(r, ix) + 1].d = d,
                        !.output[ItemAt(r, ix) + 1].status = "completed"]
      BY <1>0, <1>1 DEF SetItem
    <3>2. q = [r EXCEPT !.output[k].d = d, !.output[k].status = "completed"]
      BY <2>1, <3>1
    <3>3. [o EXCEPT ![k].d = d, ![k].status = "completed"] = p
      BY <2>2, <2>3, <2>5 DEF Items
    <3> QED BY <2>1, <3>2, <3>3 DEF Memories
  <2>8. q \in Memories
    BY <2>6, <2>7 DEF Memories
  <2>9. /\ q.output = p
        /\ q.contentText = r.contentText /\ q.toolArgs = r.toolArgs /\ q.outIx = r.outIx
        /\ q.reason = r.reason /\ q.final = r.final /\ q.nested = r.nested
        /\ q.frames = r.frames /\ q.panicked = r.panicked
    BY <2>7 DEF Memories
  <2>10. Indexed(q) /\ (q.output = <<>> <=> r.output = <<>>)
    <3>1. Indexed(q)
      BY <2>1, <2>6, <2>9 DEF Indexed
    <3>2. q.output = <<>> <=> Len(q.output) = 0
      BY <2>6, <2>9, EmptySeq
    <3>3. r.output = <<>> <=> Len(r.output) = 0
      BY EmptySeq DEF Memories
    <3> QED BY <3>1, <3>2, <3>3, <2>1, <2>6, <2>9
  <2> QED BY <1>0, <2>8, <2>9, <2>10
<1>2. CASE ~(Has(r.outIx, ix) /\ IsItem(r, ix))
  BY <1>0, <1>2 DEF SetItem
<1> QED BY <1>1, <1>2

LEMMA FrameTyped ==
    ASSUME NEW f \in SilentNames, NEW oi \in Nat, NEW d \in Texts \union Seq(Items)
    PROVE  Frame(f, oi, d) \in Silent
BY DEF Frame, Silent

\* q is r with some silent frames sent.
OnlySent(r, q) ==
    /\ q \in Memories
    /\ q.output = r.output /\ q.contentText = r.contentText /\ q.toolArgs = r.toolArgs
    /\ q.outIx = r.outIx /\ q.reason = r.reason /\ q.final = r.final /\ q.nested = r.nested
    /\ q.panicked = r.panicked
    /\ Hushed(r, q)

LEMMA SendSilent ==
    ASSUME NEW r \in Memories, NEW fs \in Seq(Silent)
    PROVE  OnlySent(r, Send(r, fs))
<1>1. fs \in Seq(Frames)
  BY SeqMonotonic DEF Frames
<1>2. ASSUME NEW F \in {TextFrames, ThoughtFrames}
      PROVE  Shown(Send(r, fs).frames, F) = Shown(r.frames, F)
  <2>1. PICK a : a = r.frames
    OBVIOUS
  <2>2. a \in Seq(Frames)
    BY <2>1 DEF Memories
  <2>3. Shown(a \o fs, F) = Shown(a, F) \o Shown(fs, F) /\ Shown(a, F) \in Texts
    BY <1>1, <2>2, ShownConcat
  <2>4. Shown(fs, F) = <<>>
    BY SilentShown
  <2>5. Shown(a \o fs, F) = Shown(a, F)
    BY <2>3, <2>4, ConcatEmptySeq DEF Texts
  <2> QED BY <1>1, <2>1, <2>5, SendFacts
<1> QED BY <1>1, <1>2, SendFacts DEF Hushed, OnlySent

\* What leaves the items alone forgets nothing.
LEMMA SameItems ==
    ASSUME NEW r, Sound(r), NEW q \in Memories, q.output = r.output, q.outIx = r.outIx,
           q.nested = r.nested, q.panicked = r.panicked
    PROVE  Sound(q) /\ ListedStay(r, q)
BY DEF Sound, Indexed, Announced, ListedStay, Listed

\* Where there is an item every call finds one.
LEMMA SomeItem ==
    ASSUME NEW q \in Memories, Indexed(q), q.output # <<>>, ~q.panicked
    PROVE  Sound(q) /\ \A r : ListedStay(r, q)
BY DEF Sound, Announced, ListedStay, Listed

---------------------------------------------------------------------------
(* Each Core event, as the Responses converter takes it *)

LEMMA AnnounceSends ==
    ASSUME NEW r \in Memories, Indexed(r), NEW ix
    PROVE  OnlySent(r, Announce(r, ix))
<1>1. Frame("output_item.added", ItemAt(r, ix), <<>>) \in Silent
  <2>1. ItemAt(r, ix) \in Nat /\ <<>> \in Texts /\ "output_item.added" \in SilentNames
    BY ItemAtFacts DEF SilentNames, Texts
  <2> QED BY <2>1, FrameTyped, Zenon
<1>2. PICK fr : fr = Frame("output_item.added", ItemAt(r, ix), <<>>)
  OBVIOUS
<1>3. <<fr>> \in Seq(Silent)
  BY <1>1, <1>2
<1>4. OnlySent(r, Send(r, <<fr>>))
  BY <1>3, SendSilent
<1> QED BY <1>2, <1>4, Zenon DEF Announce

LEMMA SendOne ==
    ASSUME NEW r \in Memories, NEW f \in SilentNames,
           NEW oi \in Nat, NEW d \in Texts
    PROVE  OnlySent(r, Send(r, <<Frame(f, oi, d)>>))
<1>1. PICK fr : fr = Frame(f, oi, d)
  OBVIOUS
<1>2. fr \in Silent
  BY <1>1, FrameTyped
<1>3. <<fr>> \in Seq(Silent)
  BY <1>2
<1> QED BY <1>1, <1>3, SendSilent, Zenon

LEMMA StartReasoningKeeps ==
    ASSUME NEW r, Sound(r), NEW ix \in Nat
    PROVE  Became(r, StartReasoning(r, ix), r.reason \union {ix})
<1>0. r \in Memories /\ Indexed(r) /\ ~r.panicked
  BY DEF Sound
<1>1. PICK a : a = AddItem(r, ix, Item("reasoning", <<>>))
  OBVIOUS
<1>2. /\ a \in Memories /\ Indexed(a) /\ a.output # <<>>
      /\ a.reason = r.reason /\ a.frames = r.frames /\ a.panicked = r.panicked
      /\ a.contentText = r.contentText
  <2>1. Item("reasoning", <<>>) \in Items
    BY DEF Item, Items, Texts
  <2> QED BY <1>0, <1>1, <2>1, AddItemFacts
<1>3. PICK m : m = Put(a.contentText, ix, <<>>)
  OBVIOUS
<1>4. m \in Maps(Texts)
  <2>1. PICK c : c = a.contentText
    OBVIOUS
  <2>2. c \in Maps(Texts) /\ <<>> \in Texts
    BY <2>1, <1>2 DEF Memories, Texts
  <2> QED BY <2>1, <2>2, <1>3, PutFacts DEF IsPut
<1>5. PICK b : b = [a EXCEPT !.contentText = m, !.reason = @ \union {ix}]
  OBVIOUS
<1>6. /\ b \in Memories /\ b.output = a.output /\ b.outIx = a.outIx
      /\ b.reason = r.reason \union {ix} /\ b.frames = r.frames /\ b.panicked = r.panicked
  BY <1>2, <1>4, <1>5 DEF Memories
<1>7. Indexed(b)
  BY <1>2, <1>6 DEF Indexed
<1>8. PICK c : c = Announce(b, ix)
  OBVIOUS
<1>9. OnlySent(b, c)
  BY <1>6, <1>7, <1>8, AnnounceSends
<1>10. PICK q : q = Send(c, <<Frame("reasoning_summary_part.added", ItemAt(a, ix), <<>>)>>)
  OBVIOUS
<1>11. OnlySent(c, q)
  <2>1. /\ ItemAt(a, ix) \in Nat /\ c \in Memories /\ <<>> \in Texts
        /\ "reasoning_summary_part.added" \in SilentNames
    BY <1>2, <1>9, ItemAtFacts DEF OnlySent, Texts, SilentNames
  <2> QED BY <1>10, <2>1, SendOne, Zenon
<1>12. q = StartReasoning(r, ix)
  BY <1>1, <1>3, <1>5, <1>8, <1>10, Zenon DEF StartReasoning
<1>13. /\ q \in Memories /\ q.output # <<>> /\ q.outIx = b.outIx /\ q.output = b.output
       /\ ~q.panicked /\ q.reason = r.reason \union {ix} /\ Hushed(r, q)
  BY <1>0, <1>2, <1>6, <1>9, <1>11 DEF OnlySent, Hushed
<1>14. Indexed(q)
  BY <1>7, <1>13 DEF Indexed
<1>15. Sound(q) /\ ListedStay(r, q)
  BY <1>13, <1>14, SomeItem
<1> QED BY <1>12, <1>13, <1>15 DEF Became

\* A block's memory is put in its map: nothing else changes.
LEMMA PutText ==
    ASSUME NEW r, Sound(r), NEW ix \in Nat, NEW d \in Texts
    PROVE  /\ Became(r, [r EXCEPT !.contentText = Put(@, ix, d)], r.reason)
           /\ Became(r, [r EXCEPT !.toolArgs = Put(@, ix, d)], r.reason)
<1>1. r \in Memories
  BY DEF Sound
<1>2. PICK c, a : c = r.contentText /\ a = r.toolArgs
  OBVIOUS
<1>3. c \in Maps(Texts) /\ a \in Maps(Texts)
  BY <1>1, <1>2 DEF Memories
<1>4. PICK m, n : m = Put(c, ix, d) /\ n = Put(a, ix, d)
  OBVIOUS
<1>5. m \in Maps(Texts) /\ n \in Maps(Texts)
  BY <1>3, <1>4, PutFacts DEF IsPut
<1>6. PICK p : p = [r EXCEPT !.contentText = m]
  OBVIOUS
<1>7. PICK q : q = [r EXCEPT !.toolArgs = n]
  OBVIOUS
<1>8. /\ p \in Memories /\ p.output = r.output /\ p.outIx = r.outIx /\ p.nested = r.nested
      /\ p.panicked = r.panicked /\ p.reason = r.reason /\ p.frames = r.frames
      /\ q \in Memories /\ q.output = r.output /\ q.outIx = r.outIx /\ q.nested = r.nested
      /\ q.panicked = r.panicked /\ q.reason = r.reason /\ q.frames = r.frames
  BY <1>1, <1>5, <1>6, <1>7 DEF Memories
<1>9. Sound(p) /\ ListedStay(r, p) /\ Sound(q) /\ ListedStay(r, q)
  BY <1>8, SameItems
<1>10. Became(r, p, r.reason) /\ Became(r, q, r.reason)
  BY <1>8, <1>9 DEF Became, Hushed
<1>11. p = [r EXCEPT !.contentText = Put(@, ix, d)] /\ q = [r EXCEPT !.toolArgs = Put(@, ix, d)]
  BY <1>2, <1>4, <1>6, <1>7
<1> QED BY <1>10, <1>11

LEMMA BecameThen ==
    ASSUME NEW r, NEW p, NEW q, NEW reason, NEW next, Became(r, p, reason), Became(p, q, next)
    PROVE  Became(r, q, next)
BY DEF Became, ListedStay, Hushed

LEMMA OnlySentBecame ==
    ASSUME NEW r, Sound(r), NEW q, OnlySent(r, q)
    PROVE  Became(r, q, r.reason)
<1>1. q \in Memories /\ q.output = r.output /\ q.outIx = r.outIx /\ q.nested = r.nested
      /\ q.panicked = r.panicked
  BY DEF OnlySent
<1>2. Sound(q) /\ ListedStay(r, q)
  BY <1>1, SameItems
<1> QED BY <1>2 DEF Became, OnlySent

\* A new item for the index, of any kind.
LEMMA AddItemKeeps ==
    ASSUME NEW r, r \in Memories, Indexed(r), ~r.panicked, NEW ix \in Nat,
           NEW type \in {"message", "reasoning", "function_call"}
    PROVE  LET q == AddItem(r, ix, Item(type, <<>>))
           IN  Became(r, q, r.reason) /\ q.output # <<>> /\ ix \in DOMAIN q.outIx
<1>1. PICK q : q = AddItem(r, ix, Item(type, <<>>))
  OBVIOUS
<1>2. /\ q \in Memories /\ Indexed(q) /\ q.output # <<>> /\ ix \in DOMAIN q.outIx
      /\ q.reason = r.reason /\ q.frames = r.frames /\ q.panicked = r.panicked
  <2>1. Item(type, <<>>) \in Items
    BY DEF Item, Items, Texts
  <2> QED BY <1>1, <2>1, AddItemFacts
<1>3. Sound(q) /\ ListedStay(r, q)
  BY <1>2, SomeItem
<1> QED BY <1>1, <1>2, <1>3 DEF Became, Hushed

LEMMA OpenMessageKeeps ==
    ASSUME NEW r, Sound(r), NEW ix \in Nat
    PROVE  Became(r, OpenMessage(r, ix), r.reason)
<1>0. r \in Memories /\ Indexed(r) /\ ~r.panicked
  BY DEF Sound
<1>1. CASE Has(r.outIx, ix)
  <2>1. OpenMessage(r, ix) = r
    BY <1>1 DEF OpenMessage
  <2> QED BY <2>1 DEF Became, ListedStay, Hushed
<1>2. CASE ~Has(r.outIx, ix)
  <2>1. PICK a : a = AddItem(r, ix, Item("message", <<>>))
    OBVIOUS
  <2>2. Became(r, a, r.reason)
    BY <1>0, <2>1, AddItemKeeps
  <2>3. a \in Memories /\ Indexed(a) /\ Sound(a)
    BY <2>2 DEF Became, Sound
  <2>4. PICK b : b = Announce(a, ix)
    OBVIOUS
  <2>5. OnlySent(a, b)
    BY <2>3, <2>4, AnnounceSends
  <2>6. Became(a, b, a.reason)
    BY <2>3, <2>5, OnlySentBecame
  <2>7. b \in Memories /\ Sound(b)
    BY <2>6 DEF Became, Sound
  <2>8. PICK q : q = Send(b, <<Frame("content_part.added", ItemAt(a, ix), <<>>)>>)
    OBVIOUS
  <2>9. OnlySent(b, q)
    <3>1. ItemAt(a, ix) \in Nat /\ <<>> \in Texts /\ "content_part.added" \in SilentNames
      BY <2>3, ItemAtFacts DEF Texts, SilentNames
    <3> QED BY <2>7, <2>8, <3>1, SendOne
  <2>10. Became(b, q, b.reason)
    BY <2>7, <2>9, OnlySentBecame
  <2>11. a.reason = r.reason /\ b.reason = r.reason
    BY <2>2, <2>6 DEF Became
  <2>12. Became(r, q, r.reason)
    BY <2>2, <2>6, <2>10, <2>11, BecameThen
  <2>13. q = OpenMessage(r, ix)
    BY <1>2, <2>1, <2>4, <2>8, Zenon DEF OpenMessage
  <2> QED BY <2>12, <2>13
<1> QED BY <1>1, <1>2

\* What was shown of text and of thought went on by these two.
Spoke(r, q, text, thought) ==
    /\ Shown(q.frames, TextFrames) = Shown(r.frames, TextFrames) \o text
    /\ Shown(q.frames, ThoughtFrames) = Shown(r.frames, ThoughtFrames) \o thought

LEMMA SendSpoken ==
    ASSUME NEW r \in Memories, NEW f \in TextFrames \union ThoughtFrames, NEW oi \in Nat,
           NEW d \in Texts
    PROVE  LET q == Send(r, <<Frame(f, oi, d)>>)
           IN  /\ q \in Memories
               /\ q.output = r.output /\ q.outIx = r.outIx /\ q.nested = r.nested
               /\ q.panicked = r.panicked /\ q.reason = r.reason
               /\ Spoke(r, q, IF f \in TextFrames THEN d ELSE <<>>,
                              IF f \in ThoughtFrames THEN d ELSE <<>>)
<1>1. PICK fr : fr = Frame(f, oi, d)
  OBVIOUS
<1>2. fr \in Frames /\ fr.f = f /\ fr.d = d
  BY <1>1 DEF Frame, Frames, Spoken
<1>3. PICK fs, q : fs = <<fr>> /\ q = Send(r, fs)
  <2>1. PICK fs : fs = <<fr>>
    OBVIOUS
  <2> QED BY <2>1
<1>4. fs \in Seq(Frames)
  BY <1>2, <1>3
<1>5. ASSUME NEW F \in {TextFrames, ThoughtFrames}
      PROVE  Shown(q.frames, F) = Shown(r.frames, F) \o (IF f \in F THEN d ELSE <<>>)
  <2>1. PICK a : a = r.frames
    OBVIOUS
  <2>2. a \in Seq(Frames)
    BY <2>1 DEF Memories
  <2>3. Shown(a \o fs, F) = Shown(a, F) \o Shown(fs, F)
    BY <1>4, <2>2, ShownConcat
  <2>4. Shown(fs, F) = Part(fr, F)
    BY <1>2, <1>3, ShownOne
  <2>5. Part(fr, F) = IF f \in F THEN d ELSE <<>>
    BY <1>2 DEF Part
  <2>6. q.frames = a \o fs
    BY <1>3, <1>4, <2>1, SendFacts
  <2> QED BY <2>1, <2>3, <2>4, <2>5, <2>6
<1>6. /\ q \in Memories
      /\ q.output = r.output /\ q.outIx = r.outIx /\ q.nested = r.nested
      /\ q.panicked = r.panicked /\ q.reason = r.reason
  BY <1>3, <1>4, SendFacts
<1>7. Spoke(r, q, IF f \in TextFrames THEN d ELSE <<>>, IF f \in ThoughtFrames THEN d ELSE <<>>)
  BY <1>5 DEF Spoke
<1> QED BY <1>1, <1>3, <1>6, <1>7, Zenon

LEMMA TextDeltaKeeps ==
    ASSUME NEW r, Sound(r), NEW ev \in Events
    PROVE  LET q == TextDeltaIn(r, ev)
           IN  /\ Sound(q) /\ ListedStay(r, q) /\ q.reason = r.reason
               /\ ev.ix \in r.reason => Spoke(r, q, <<>>, ev.d)
               /\ ev.ix \notin r.reason => Spoke(r, q, ev.d, <<>>)
<1>0. ev.ix \in Nat /\ ev.d \in Texts
  BY DEF Events
<1>1. PICK d : d = Lookup(r.contentText, ev.ix, <<>>) \o ev.d
  OBVIOUS
<1>2. d \in Texts
  <2>1. r.contentText \in Maps(Texts) /\ <<>> \in Texts
    BY DEF Sound, Memories, Texts
  <2>2. Lookup(r.contentText, ev.ix, <<>>) \in Texts
    BY <2>1, LookupTyped
  <2> QED BY <1>0, <1>1, <2>2, ConcatProperties DEF Texts
<1>3. PICK p : p = [r EXCEPT !.contentText = Put(@, ev.ix, d)]
  OBVIOUS
<1>4. Became(r, p, r.reason)
  BY <1>0, <1>2, <1>3, PutText
<1>5. PICK o : o = IF ev.ix \in r.reason THEN p ELSE OpenMessage(p, ev.ix)
  OBVIOUS
<1>6. Became(r, o, r.reason)
  <2>1. Sound(p) /\ p.reason = r.reason
    BY <1>4 DEF Became
  <2>2. Became(p, OpenMessage(p, ev.ix), r.reason)
    BY <1>0, <2>1, OpenMessageKeeps
  <2>3. Became(r, OpenMessage(p, ev.ix), r.reason)
    BY <1>4, <2>2, BecameThen
  <2> QED BY <1>4, <1>5, <2>3
<1>7. PICK f : f = IF ev.ix \in r.reason THEN "reasoning_summary_text.delta" ELSE "output_text.delta"
  OBVIOUS
<1>8. PICK q : q = Send(o, <<Frame(f, ItemAt(o, ev.ix), ev.d)>>)
  OBVIOUS
<1>9. q = TextDeltaIn(r, ev)
  <2>1. p = [r EXCEPT !.contentText = Put(@, ev.ix, Lookup(@, ev.ix, <<>>) \o ev.d)]
    BY <1>1, <1>3
  <2> QED BY <1>5, <1>7, <1>8, <2>1, Zenon DEF TextDeltaIn
<1>10. Sound(o) /\ o \in Memories /\ Indexed(o) /\ o.reason = r.reason
  BY <1>6 DEF Became, Sound
<1>11. /\ q \in Memories
       /\ q.output = o.output /\ q.outIx = o.outIx /\ q.nested = o.nested
       /\ q.panicked = o.panicked /\ q.reason = o.reason
       /\ Spoke(o, q, IF f \in TextFrames THEN ev.d ELSE <<>>,
                      IF f \in ThoughtFrames THEN ev.d ELSE <<>>)
  <2>1. PICK i : i = ItemAt(o, ev.ix)
    OBVIOUS
  <2>2. i \in Nat
    BY <1>10, <2>1, ItemAtFacts
  <2>3. f \in TextFrames \union ThoughtFrames
    BY <1>7 DEF TextFrames, ThoughtFrames
  <2>4. q = Send(o, <<Frame(f, i, ev.d)>>)
    BY <1>8, <2>1
  <2> HIDE <1>7, <1>8
  <2> QED BY <1>0, <1>10, <2>2, <2>3, <2>4, SendSpoken
<1>12. Sound(q) /\ ListedStay(o, q)
  BY <1>10, <1>11, SameItems
<1>13. ListedStay(r, q) /\ q.reason = r.reason
  BY <1>6, <1>10, <1>11, <1>12 DEF Became, ListedStay
<1>14. /\ ev.ix \in r.reason => f \notin TextFrames /\ f \in ThoughtFrames
       /\ ev.ix \notin r.reason => f \in TextFrames /\ f \notin ThoughtFrames
  BY <1>7 DEF TextFrames, ThoughtFrames
<1>15. /\ ev.ix \in r.reason => Spoke(o, q, <<>>, ev.d)
       /\ ev.ix \notin r.reason => Spoke(o, q, ev.d, <<>>)
  BY <1>11, <1>14
<1>16. ASSUME NEW text, NEW thought, Spoke(o, q, text, thought)
       PROVE  Spoke(r, q, text, thought)
  BY <1>6, <1>16 DEF Spoke, Became, Hushed
<1>17. /\ ev.ix \in r.reason => Spoke(r, q, <<>>, ev.d)
       /\ ev.ix \notin r.reason => Spoke(r, q, ev.d, <<>>)
  BY <1>15, <1>16
<1> QED BY <1>9, <1>12, <1>13, <1>17, Zenon

\* What is known of a nested call is put in its map.
LEMMA PutNested ==
    ASSUME NEW r, Sound(r), NEW ix \in Nat, NEW n \in NestedCalls,
           n.emitted => r.output # <<>>
    PROVE  LET q == [r EXCEPT !.nested = Put(@, ix, n)]
           IN  /\ Sound(q) /\ q.reason = r.reason /\ Hushed(r, q) /\ q.output = r.output
               /\ (r.output # <<>> \/ ~n.emitted) => ListedStay(r, q) /\ Listed(q, ix)
<1>0. r \in Memories /\ Indexed(r) /\ ~r.panicked /\ Announced(r)
  BY DEF Sound
<1>1. PICK m : m = Put(r.nested, ix, n)
  OBVIOUS
<1>2. IsPut(m, NestedCalls, r.nested, ix, n)
  <2>1. PICK f : f = r.nested
    OBVIOUS
  <2>2. f \in Maps(NestedCalls)
    BY <1>0, <2>1 DEF Memories
  <2> QED BY <2>1, <2>2, <1>1, PutFacts
<1>3. PICK q : q = [r EXCEPT !.nested = m]
  OBVIOUS
<1>4. /\ q \in Memories /\ q.output = r.output /\ q.outIx = r.outIx /\ q.nested = m
      /\ q.panicked = r.panicked /\ q.reason = r.reason /\ q.frames = r.frames
  BY <1>0, <1>2, <1>3 DEF Memories, IsPut
<1>5. Announced(q)
  BY <1>0, <1>2, <1>4 DEF Announced, IsPut
<1>6. Sound(q)
  BY <1>0, <1>4, <1>5 DEF Sound, Indexed
<1>7. (r.output # <<>> \/ ~n.emitted) => ListedStay(r, q) /\ Listed(q, ix)
  BY <1>2, <1>4 DEF ListedStay, Listed, IsPut
<1>8. q = [r EXCEPT !.nested = Put(@, ix, n)]
  BY <1>1, <1>3
<1> QED BY <1>4, <1>6, <1>7, <1>8 DEF Hushed

LEMMA StartToolKeeps ==
    ASSUME NEW r, Sound(r), NEW ix \in Nat, NEW kind
    PROVE  LET q == StartTool(r, ix, kind)
           IN  Became(r, q, r.reason) /\ Listed(q, ix)
<1>1. CASE kind = "nested"
  <2>1. PICK n : n = [emitted |-> FALSE, buf |-> <<>>]
    OBVIOUS
  <2>2. n \in NestedCalls /\ ~n.emitted
    BY <2>1 DEF NestedCalls, Texts
  <2>3. PICK q : q = [r EXCEPT !.nested = Put(@, ix, n)]
    OBVIOUS
  <2>4. Became(r, q, r.reason) /\ Listed(q, ix)
    BY <2>2, <2>3, PutNested DEF Became
  <2> QED BY <1>1, <2>1, <2>3, <2>4 DEF StartTool
<1>2. CASE kind # "nested"
  <2>1. PICK a : a = AddItem(r, ix, Item("function_call", <<>>))
    OBVIOUS
  <2>2. Became(r, a, r.reason) /\ a.output # <<>>
    BY <2>1, AddItemKeeps DEF Sound
  <2>3. a \in Memories /\ Indexed(a) /\ Sound(a) /\ a.reason = r.reason
    BY <2>2 DEF Became, Sound
  <2>4. PICK q : q = Announce(a, ix)
    OBVIOUS
  <2>5. OnlySent(a, q)
    BY <2>3, <2>4, AnnounceSends
  <2>6. Became(a, q, a.reason) /\ q.output = a.output
    BY <2>3, <2>5, OnlySentBecame DEF OnlySent
  <2>7. Became(r, q, r.reason) /\ Listed(q, ix)
    BY <2>2, <2>3, <2>6, BecameThen DEF Listed
  <2> QED BY <1>2, <2>1, <2>4, <2>7 DEF StartTool
<1> QED BY <1>1, <1>2

LEMMA StripTyped == \A d \in Texts : StripAction(d) \in Texts
<1> SUFFICES ASSUME NEW d \in Texts PROVE StripAction(d) \in Texts
  OBVIOUS
<1>1. CASE Len(d) = 1 /\ d[1][2] = "whole"
  <2>1. d[1] \in Pieces
    BY <1>1, ElementOfSeq DEF Texts
  <2>2. PICK x : x = <<d[1][1], "params">>
    OBVIOUS
  <2>3. x \in Pieces
    BY <2>1, <2>2 DEF Pieces
  <2>4. <<x>> \in Texts
    BY <2>3 DEF Texts
  <2> QED BY <1>1, <2>2, <2>4 DEF StripAction
<1>2. CASE ~(Len(d) = 1 /\ d[1][2] = "whole")
  BY <1>2 DEF StripAction
<1> QED BY <1>1, <1>2

\* Arguments are shown under the index, and nothing else changes.
LEMMA ArgsShown ==
    ASSUME NEW r, Sound(r), NEW ix, NEW d \in Texts
    PROVE  Became(r, Send(r, <<Frame("function_call_arguments.delta", ItemAt(r, ix), d)>>), r.reason)
<1>1. PICK i, f : i = ItemAt(r, ix) /\ f = "function_call_arguments.delta"
  OBVIOUS
<1>2. i \in Nat /\ f \in SilentNames /\ r \in Memories
  BY <1>1, ItemAtFacts DEF Sound, SilentNames
<1>3. OnlySent(r, Send(r, <<Frame(f, i, d)>>))
  <2> HIDE <1>1
  <2> QED BY <1>2, SendOne
<1> QED BY <1>1, <1>3, OnlySentBecame

LEMMA NestedDeltaKeeps ==
    ASSUME NEW r, Sound(r), NEW ev \in Events, Has(r.nested, ev.ix)
    PROVE  Became(r, NestedDelta(r, ev), r.reason)
<1>0. ev.ix \in Nat /\ ev.d \in Texts /\ r \in Memories /\ Indexed(r) /\ ~r.panicked /\ Announced(r)
  BY DEF Events, Sound
<1>1. PICK ix : ix = ev.ix
  OBVIOUS
<1>2. PICK n : n = r.nested[ix]
  OBVIOUS
<1>3. n \in NestedCalls /\ ix \in DOMAIN r.nested /\ (n.emitted => r.output # <<>>)
  <2>1. r.nested \in Maps(NestedCalls) /\ ix \in DOMAIN r.nested
    BY <1>0, <1>1 DEF Memories, Has
  <2>2. r.nested[ix] \in NestedCalls
    BY <2>1, MapTyped
  <2> QED BY <2>1, <2>2, <1>0, <1>2 DEF Announced
<1>4. PICK buf : buf = n.buf \o ev.d
  OBVIOUS
<1>5. buf \in Texts
  BY <1>0, <1>3, <1>4, ConcatProperties DEF NestedCalls, Texts
<1>6. PICK k : k = [n EXCEPT !.buf = buf]
  OBVIOUS
<1>7. k \in NestedCalls /\ k.emitted = n.emitted
  BY <1>3, <1>5, <1>6 DEF NestedCalls
<1>8. PICK q : q = [r EXCEPT !.nested = Put(@, ix, k)]
  OBVIOUS
<1>9. Sound(q) /\ q.reason = r.reason /\ Hushed(r, q) /\ q.output = r.output /\ ListedStay(r, q)
  <2>1. ix \in Nat /\ (k.emitted => r.output # <<>>)
    BY <1>0, <1>1, <1>3, <1>7
  <2> QED BY <2>1, <1>3, <1>7, <1>8, PutNested
<1>10. Became(r, q, r.reason)
  BY <1>9 DEF Became
<1>11. CASE n.emitted
  <2>1. Became(q, Send(q, <<Frame("function_call_arguments.delta", ItemAt(q, ix), StripAction(ev.d))>>), r.reason)
    BY <1>0, <1>9, StripTyped, ArgsShown
  <2>2. NestedDelta(r, ev) = Send(q, <<Frame("function_call_arguments.delta", ItemAt(q, ix), StripAction(ev.d))>>)
    BY <1>1, <1>2, <1>4, <1>6, <1>8, <1>11 DEF NestedDelta
  <2> QED BY <1>10, <2>1, <2>2, BecameThen
<1>12. CASE ~n.emitted /\ HasAction(buf)
  <2>1. PICK z : z = [q EXCEPT !.nested[ix].emitted = TRUE]
    OBVIOUS
  <2>2. q \in Memories /\ Indexed(q) /\ ~q.panicked
    BY <1>9 DEF Sound
  <2>3. ix \in DOMAIN q.nested
    <3>1. q.nested = Put(r.nested, ix, k)
      BY <1>8, <1>0 DEF Memories
    <3> QED BY <3>1 DEF Put
  <2>4. PICK m : m = [q.nested EXCEPT ![ix].emitted = TRUE]
    OBVIOUS
  <2>5. m \in Maps(NestedCalls)
    <3>1. PICK f : f = q.nested
      OBVIOUS
    <3>2. f \in [DOMAIN f -> NestedCalls] /\ DOMAIN f \in SUBSET Nat /\ ix \in DOMAIN f
      BY <2>2, <2>3, <3>1, MapTyped DEF Memories
    <3>3. [f[ix] EXCEPT !.emitted = TRUE] \in NestedCalls
      BY <3>2 DEF NestedCalls
    <3>4. m = [f EXCEPT ![ix] = [f[ix] EXCEPT !.emitted = TRUE]]
      BY <2>4, <3>1
    <3>5. m \in [DOMAIN f -> NestedCalls]
      BY <3>2, <3>3, <3>4
    <3> QED BY <3>2, <3>5 DEF Maps
  <2>6. z = [q EXCEPT !.nested = m]
    BY <2>1, <2>4
  <2>7. /\ z \in Memories /\ z.output = q.output /\ z.outIx = q.outIx /\ z.reason = q.reason
        /\ z.frames = q.frames /\ z.panicked = q.panicked
    BY <2>2, <2>5, <2>6 DEF Memories
  <2>8. PICK a : a = AddItem(z, ix, Item("function_call", <<>>))
    OBVIOUS
  <2>9. Became(z, a, z.reason) /\ a.output # <<>>
    <3>1. Indexed(z) /\ ~z.panicked /\ ix \in Nat
      BY <1>0, <1>1, <2>2, <2>7 DEF Indexed
    <3> QED BY <2>7, <2>8, <3>1, AddItemKeeps
  <2>10. Sound(a) /\ Hushed(r, a) /\ a.reason = r.reason
    BY <1>9, <2>7, <2>9 DEF Became, Hushed
  <2>11. ListedStay(r, a)
    BY <2>9, <2>10, SomeItem DEF Sound
  <2>12. Became(r, a, r.reason)
    BY <2>10, <2>11 DEF Became
  <2>13. PICK b : b = Announce(a, ix)
    OBVIOUS
  <2>14. Became(a, b, r.reason)
    <3>1. OnlySent(a, b)
      BY <2>10, <2>13, AnnounceSends DEF Sound
    <3> QED BY <2>10, <3>1, OnlySentBecame
  <2>15. Sound(b) /\ b.reason = r.reason
    BY <2>14 DEF Became
  <2>16. Became(b, Send(b, <<Frame("function_call_arguments.delta", ItemAt(b, ix), StripAction(buf))>>), r.reason)
    BY <1>5, <2>15, StripTyped, ArgsShown
  <2>17. NestedDelta(r, ev) = Send(b, <<Frame("function_call_arguments.delta", ItemAt(b, ix), StripAction(buf))>>)
    BY <1>1, <1>2, <1>4, <1>6, <1>8, <1>12, <2>1, <2>8, <2>13 DEF NestedDelta
  <2> QED BY <2>12, <2>14, <2>16, <2>17, BecameThen
<1>13. CASE ~n.emitted /\ ~HasAction(buf)
  <2>1. NestedDelta(r, ev) = q
    BY <1>1, <1>2, <1>4, <1>6, <1>8, <1>13 DEF NestedDelta
  <2> QED BY <1>10, <2>1
<1> QED BY <1>11, <1>12, <1>13

LEMMA ArgsDeltaKeeps ==
    ASSUME NEW r, Sound(r), NEW ev \in Events
    PROVE  Became(r, ArgsDeltaIn(r, ev), r.reason)
<1>0. ev.ix \in Nat /\ ev.d \in Texts /\ r \in Memories
  BY DEF Events, Sound
<1>1. PICK d : d = Lookup(r.toolArgs, ev.ix, <<>>) \o ev.d
  OBVIOUS
<1>2. d \in Texts
  <2>1. r.toolArgs \in Maps(Texts) /\ <<>> \in Texts
    BY <1>0 DEF Memories, Texts
  <2>2. Lookup(r.toolArgs, ev.ix, <<>>) \in Texts
    BY <2>1, LookupTyped
  <2> QED BY <1>0, <1>1, <2>2, ConcatProperties DEF Texts
<1>3. PICK p : p = [r EXCEPT !.toolArgs = Put(@, ev.ix, d)]
  OBVIOUS
<1>4. Became(r, p, r.reason)
  BY <1>0, <1>2, <1>3, PutText
<1>5. Sound(p) /\ p.reason = r.reason /\ p.nested = r.nested
  BY <1>0, <1>3, <1>4 DEF Became, Memories
<1>6. p = [r EXCEPT !.toolArgs = Put(@, ev.ix, Lookup(@, ev.ix, <<>>) \o ev.d)]
  BY <1>1, <1>3
<1>7. CASE Has(r.nested, ev.ix)
  <2>1. Became(p, NestedDelta(p, ev), r.reason)
    BY <1>5, <1>7, NestedDeltaKeeps
  <2>2. ArgsDeltaIn(r, ev) = NestedDelta(p, ev)
    BY <1>6, <1>7 DEF ArgsDeltaIn
  <2> QED BY <1>4, <2>1, <2>2, BecameThen
<1>8. CASE ~Has(r.nested, ev.ix)
  <2>1. Became(p, Send(p, <<Frame("function_call_arguments.delta", ItemAt(p, ev.ix), ev.d)>>), r.reason)
    BY <1>0, <1>5, ArgsShown
  <2>2. ArgsDeltaIn(r, ev) = Send(p, <<Frame("function_call_arguments.delta", ItemAt(p, ev.ix), ev.d)>>)
    BY <1>6, <1>8 DEF ArgsDeltaIn
  <2> QED BY <1>4, <2>1, <2>2, BecameThen
<1> QED BY <1>7, <1>8

\* The converter has an item for whatever ends now.
WithItem(r) == r \in Memories /\ Indexed(r) /\ r.output # <<>> /\ ~r.panicked

LEMMA ItemDoneSends ==
    ASSUME NEW r, WithItem(r), NEW ix
    PROVE  OnlySent(r, ItemDone(r, ix))
<1>1. PICK i, f, d : i = ItemAt(r, ix) /\ f = "output_item.done" /\ d = <<>>
  OBVIOUS
<1>2. i \in Nat /\ f \in SilentNames /\ r \in Memories /\ IsItem(r, ix) /\ d \in Texts
  BY <1>1, ItemAtFacts DEF WithItem, SilentNames, Texts
<1>3. OnlySent(r, Send(r, <<Frame(f, i, d)>>))
  <2> HIDE <1>1
  <2> QED BY <1>2, SendOne
<1> QED BY <1>1, <1>2, <1>3 DEF ItemDone

LEMMA OnlySentThen ==
    ASSUME NEW r, NEW p, NEW q, OnlySent(r, p), OnlySent(p, q)
    PROVE  OnlySent(r, q)
BY DEF OnlySent, Hushed

LEMMA WithItemStays ==
    ASSUME NEW r, WithItem(r), NEW q, OnlySent(r, q)
    PROVE  WithItem(q)
BY DEF WithItem, OnlySent, Indexed

LEMMA CallDoneSends ==
    ASSUME NEW r, WithItem(r), NEW ix, NEW d \in Texts
    PROVE  OnlySent(r, CallDone(r, ix, d))
<1>1. PICK i, f : i = ItemAt(r, ix) /\ f = "function_call_arguments.done"
  OBVIOUS
<1>2. i \in Nat /\ f \in SilentNames /\ r \in Memories
  BY <1>1, ItemAtFacts DEF WithItem, SilentNames
<1>3. PICK p : p = Send(r, <<Frame(f, i, d)>>)
  OBVIOUS
<1>4. OnlySent(r, p)
  <2> HIDE <1>1
  <2> QED BY <1>2, <1>3, SendOne
<1>5. OnlySent(p, ItemDone(p, ix))
  BY <1>4, WithItemStays, ItemDoneSends
<1>6. CallDone(r, ix, d) = ItemDone(p, ix)
  BY <1>1, <1>3 DEF CallDone
<1> QED BY <1>4, <1>5, <1>6, OnlySentThen

\* An end that found its item.
LEMMA EndedWell ==
    ASSUME NEW r, NEW q, WithItem(q), q.reason = r.reason, Hushed(r, q)
    PROVE  Became(r, q, r.reason)
<1>1. Sound(q) /\ ListedStay(r, q)
  BY SomeItem DEF WithItem
<1> QED BY <1>1 DEF Became

\* A call that ended is forgotten in either map and counted as final.
LEMMA ForgetCall ==
    ASSUME NEW r, WithItem(r), NEW ix
    PROVE  /\ LET q == [r EXCEPT !.nested = Drop(@, ix)]
              IN  WithItem(q) /\ q.reason = r.reason /\ q.frames = r.frames
           /\ LET q == [r EXCEPT !.toolArgs = Drop(@, ix)]
              IN  WithItem(q) /\ q.reason = r.reason /\ q.frames = r.frames
           /\ ix \in Nat =>
                LET q == [r EXCEPT !.final = @ \union {ix}]
                IN  WithItem(q) /\ q.reason = r.reason /\ q.frames = r.frames
<1>0. r \in Memories /\ Indexed(r) /\ r.output # <<>> /\ ~r.panicked
  BY DEF WithItem
<1>1. PICK m, a : m = Drop(r.nested, ix) /\ a = Drop(r.toolArgs, ix)
  OBVIOUS
<1>2. m \in Maps(NestedCalls) /\ a \in Maps(Texts)
  <2>1. PICK f, g : f = r.nested /\ g = r.toolArgs
    OBVIOUS
  <2>2. f \in Maps(NestedCalls) /\ g \in Maps(Texts)
    BY <1>0, <2>1 DEF Memories
  <2>3. Drop(f, ix) \in Maps(NestedCalls) /\ Drop(g, ix) \in Maps(Texts)
    BY <2>2, DropFacts DEF IsDrop
  <2> QED BY <2>1, <2>3, <1>1
<1>3. PICK p : p = [r EXCEPT !.nested = m]
  OBVIOUS
<1>4. PICK q : q = [r EXCEPT !.toolArgs = a]
  OBVIOUS
<1>5. p \in Memories /\ p.output = r.output /\ p.outIx = r.outIx /\ p.reason = r.reason
      /\ p.frames = r.frames /\ p.panicked = r.panicked
  BY <1>0, <1>2, <1>3 DEF Memories
<1>6. q \in Memories /\ q.output = r.output /\ q.outIx = r.outIx /\ q.reason = r.reason
      /\ q.frames = r.frames /\ q.panicked = r.panicked
  BY <1>0, <1>2, <1>4 DEF Memories
<1>7. WithItem(p) /\ WithItem(q)
  BY <1>0, <1>5, <1>6 DEF WithItem, Indexed
<1>8. ASSUME ix \in Nat
      PROVE  LET z == [r EXCEPT !.final = @ \union {ix}]
             IN  WithItem(z) /\ z.reason = r.reason /\ z.frames = r.frames
  <2>1. PICK z : z = [r EXCEPT !.final = @ \union {ix}]
    OBVIOUS
  <2>2. z \in Memories /\ z.output = r.output /\ z.outIx = r.outIx /\ z.reason = r.reason
        /\ z.frames = r.frames /\ z.panicked = r.panicked
    BY <1>0, <1>8, <2>1 DEF Memories
  <2>3. WithItem(z)
    BY <1>0, <2>2 DEF WithItem, Indexed
  <2> QED BY <2>1, <2>2, <2>3
<1>9. p = [r EXCEPT !.nested = Drop(@, ix)] /\ q = [r EXCEPT !.toolArgs = Drop(@, ix)]
  BY <1>1, <1>3, <1>4
<1> QED BY <1>5, <1>6, <1>7, <1>8, <1>9

LEMMA FlushNestedKeeps ==
    ASSUME NEW r, Sound(r), NEW ev \in Events, Has(r.nested, ev.ix)
    PROVE  Became(r, FlushNested(r, ev), r.reason)
<1>0. ev.ix \in Nat /\ ev.d \in Texts /\ r \in Memories /\ Indexed(r) /\ ~r.panicked
  BY DEF Events, Sound
<1>1. PICK ix : ix = ev.ix
  OBVIOUS
<1>2. PICK n : n = r.nested[ix]
  OBVIOUS
<1>3. n \in NestedCalls
  <2>1. r.nested \in Maps(NestedCalls) /\ ix \in DOMAIN r.nested
    BY <1>0, <1>1 DEF Memories, Has
  <2> QED BY <2>1, <1>2, MapTyped
<1>4. PICK d : d = IF n.buf = <<>> THEN ev.d ELSE n.buf
  OBVIOUS
<1>5. d \in Texts
  BY <1>0, <1>3, <1>4 DEF NestedCalls
<1>6. PICK a : a = AddItem(r, ix, Item("function_call", <<>>))
  OBVIOUS
<1>7. Became(r, a, r.reason) /\ a.output # <<>>
  BY <1>0, <1>1, <1>6, AddItemKeeps
<1>8. a \in Memories /\ Indexed(a) /\ ~a.panicked /\ a.reason = r.reason /\ Hushed(r, a)
  BY <1>7 DEF Became, Sound
<1>9. PICK b : b = SetItem(a, ix, d)
  OBVIOUS
<1>10. /\ b \in Memories /\ Indexed(b) /\ (b.output = <<>> <=> a.output = <<>>)
       /\ b.reason = a.reason /\ b.frames = a.frames /\ b.panicked = a.panicked
  BY <1>5, <1>8, <1>9, SetItemFacts
<1>11. WithItem(b) /\ b.reason = r.reason /\ Hushed(r, b)
  BY <1>7, <1>8, <1>10 DEF WithItem, Hushed
<1>12. PICK c : c = Announce(b, ix)
  OBVIOUS
<1>13. OnlySent(b, c)
  BY <1>11, <1>12, AnnounceSends DEF WithItem
<1>14. WithItem(c)
  BY <1>11, <1>13, WithItemStays
<1>15. PICK e : e = CallDone(c, ix, d)
  OBVIOUS
<1>16. OnlySent(c, e)
  BY <1>5, <1>14, <1>15, CallDoneSends
<1>17. WithItem(e)
  BY <1>14, <1>16, WithItemStays
<1>18. PICK q : q = [e EXCEPT !.nested = Drop(@, ix)]
  OBVIOUS
<1>19. WithItem(q) /\ q.reason = e.reason /\ q.frames = e.frames
  BY <1>17, <1>18, ForgetCall
<1>20. q.reason = r.reason /\ Hushed(r, q)
  BY <1>11, <1>13, <1>16, <1>19 DEF OnlySent, Hushed
<1>21. q = FlushNested(r, ev)
  BY <1>1, <1>2, <1>4, <1>6, <1>9, <1>12, <1>15, <1>18, Zenon DEF FlushNested
<1> QED BY <1>19, <1>20, <1>21, EndedWell

LEMMA ArgsDoneKeeps ==
    ASSUME NEW r, Sound(r), NEW ev \in Events, Listed(r, ev.ix)
    PROVE  Became(r, ArgsDoneIn(r, ev), r.reason)
<1>0. ev.ix \in Nat /\ ev.d \in Texts /\ r \in Memories /\ Indexed(r) /\ ~r.panicked
  BY DEF Events, Sound
<1>1. CASE ev.ix \in r.final
  <2>1. ArgsDoneIn(r, ev) = r
    BY <1>1 DEF ArgsDoneIn
  <2> QED BY <2>1 DEF Became, ListedStay, Hushed
<1>2. CASE ev.ix \notin r.final /\ Has(r.nested, ev.ix) /\ ~r.nested[ev.ix].emitted
  <2>1. ArgsDoneIn(r, ev) = FlushNested(r, ev)
    BY <1>2 DEF ArgsDoneIn
  <2> QED BY <1>2, <2>1, FlushNestedKeeps
<1>3. CASE ev.ix \notin r.final /\ ~(Has(r.nested, ev.ix) /\ ~r.nested[ev.ix].emitted)
  <2>1. WithItem(r)
    BY <1>0, <1>3 DEF WithItem, Listed, Has
  <2>2. PICK d : d = IF ev.d = <<>> THEN Lookup(r.toolArgs, ev.ix, <<>>) ELSE ev.d
    OBVIOUS
  <2>3. d \in Texts
    <3>1. r.toolArgs \in Maps(Texts) /\ <<>> \in Texts
      BY <1>0 DEF Memories, Texts
    <3>2. Lookup(r.toolArgs, ev.ix, <<>>) \in Texts
      BY <3>1, LookupTyped
    <3> QED BY <1>0, <2>2, <3>2
  <2>4. PICK a : a = SetItem(r, ev.ix, d)
    OBVIOUS
  <2>5. WithItem(a) /\ a.reason = r.reason /\ a.frames = r.frames
    BY <1>0, <2>1, <2>3, <2>4, SetItemFacts DEF WithItem
  <2>6. PICK b : b = [a EXCEPT !.final = @ \union {ev.ix}]
    OBVIOUS
  <2>7. WithItem(b) /\ b.reason = r.reason /\ b.frames = r.frames
    BY <1>0, <2>5, <2>6, ForgetCall
  <2>8. PICK c : c = [b EXCEPT !.nested = Drop(@, ev.ix)]
    OBVIOUS
  <2>9. WithItem(c) /\ c.reason = r.reason /\ c.frames = r.frames
    BY <2>7, <2>8, ForgetCall
  <2>10. c = [a EXCEPT !.final = @ \union {ev.ix}, !.nested = Drop(@, ev.ix)]
    BY <2>6, <2>8, <2>5 DEF WithItem, Memories
  <2>11. PICK q : q = CallDone(c, ev.ix, d)
    OBVIOUS
  <2>12. OnlySent(c, q)
    BY <2>3, <2>9, <2>11, CallDoneSends
  <2>13. WithItem(q) /\ q.reason = r.reason /\ Hushed(r, q)
    <3>1. WithItem(q)
      BY <2>9, <2>12, WithItemStays
    <3> QED BY <3>1, <2>9, <2>12 DEF OnlySent, Hushed
  <2>14. q = ArgsDoneIn(r, ev)
    <3>1. ArgsDoneIn(r, ev) = CallDone([SetItem(r, ev.ix, d) EXCEPT !.final = @ \union {ev.ix},
                                                               !.nested = Drop(@, ev.ix)], ev.ix, d)
      BY <1>3, <2>2 DEF ArgsDoneIn
    <3> QED BY <3>1, <2>4, <2>10, <2>11
  <2> QED BY <2>13, <2>14, EndedWell
<1> QED BY <1>1, <1>2, <1>3

LEMMA ReasoningDoneKeeps ==
    ASSUME NEW local, NEW r, Sound(r), NEW ix \in Nat
    PROVE  Became(r, ReasoningDone(local, r, ix), r.reason \ {ix})
<1>0. r \in Memories /\ Indexed(r) /\ ~r.panicked
  BY DEF Sound
<1>1. PICK oi : oi = ItemAt(r, ix)
  OBVIOUS
<1>2. PICK d : d = Lookup(r.contentText, ix, <<>>)
  OBVIOUS
<1>3. oi \in Nat /\ d \in Texts
  <2>1. r.contentText \in Maps(Texts) /\ <<>> \in Texts
    BY <1>0 DEF Memories, Texts
  <2> QED BY <1>0, <1>1, <1>2, <2>1, ItemAtFacts, LookupTyped
<1>4. PICK a : a = When(local, <<Frame("reasoning_summary_text.done", oi, d)>>)
  OBVIOUS
<1>5. PICK b : b = <<Frame("reasoning_summary_part.done", oi, <<>>)>>
  OBVIOUS
<1>6. PICK c : c = When(local /\ oi < Len(r.output), <<Frame("output_item.done", oi, <<>>)>>)
  OBVIOUS
<1>7. a \in Seq(Silent) /\ b \in Seq(Silent) /\ c \in Seq(Silent)
  <2>0. /\ "reasoning_summary_text.done" \in SilentNames /\ <<>> \in Texts
        /\ "reasoning_summary_part.done" \in SilentNames /\ "output_item.done" \in SilentNames
    BY DEF SilentNames, Texts
  <2>1. PICK x : x = Frame("reasoning_summary_text.done", oi, d)
    OBVIOUS
  <2>2. PICK y : y = Frame("reasoning_summary_part.done", oi, <<>>)
    OBVIOUS
  <2>3. PICK z : z = Frame("output_item.done", oi, <<>>)
    OBVIOUS
  <2>4. x \in Silent
    BY <1>3, <2>0, <2>1, FrameTyped
  <2>5. y \in Silent
    BY <1>3, <2>0, <2>2, FrameTyped
  <2>6. z \in Silent
    BY <1>3, <2>0, <2>3, FrameTyped
  <2>7. <<x>> \in Seq(Silent) /\ <<y>> \in Seq(Silent) /\ <<z>> \in Seq(Silent) /\ <<>> \in Seq(Silent)
    BY <2>4, <2>5, <2>6
  <2>8. a \in Seq(Silent)
    BY <1>4, <2>1, <2>7 DEF When
  <2>9. c \in Seq(Silent)
    BY <1>6, <2>3, <2>7 DEF When
  <2> QED BY <1>5, <2>2, <2>7, <2>8, <2>9
<1>8. PICK fs : fs = a \o b \o c
  OBVIOUS
<1>9. fs \in Seq(Silent)
  <2>1. a \o b \in Seq(Silent)
    BY <1>7, ConcatProperties
  <2> QED BY <2>1, <1>7, <1>8, ConcatProperties
<1>10. PICK s : s = SetItem(r, ix, d)
  OBVIOUS
<1>11. /\ s \in Memories /\ Indexed(s) /\ (s.output = <<>> <=> r.output = <<>>)
       /\ s.nested = r.nested /\ s.reason = r.reason /\ s.frames = r.frames /\ s.panicked = r.panicked
  BY <1>0, <1>3, <1>10, SetItemFacts
<1>12. PICK p : p = Send(s, fs)
  OBVIOUS
<1>13. OnlySent(s, p)
  BY <1>9, <1>11, <1>12, SendSilent
<1>14. p \in Memories /\ Indexed(p)
  BY <1>11, <1>13 DEF OnlySent, Indexed
<1>15. PICK m, o : m = Drop(p.contentText, ix) /\ o = Drop(p.outIx, ix)
  OBVIOUS
<1>16. m \in Maps(Texts) /\ IsDrop(o, Nat, p.outIx, ix)
  <2>1. PICK f, g : f = p.contentText /\ g = p.outIx
    OBVIOUS
  <2>2. f \in Maps(Texts) /\ g \in Maps(Nat)
    BY <1>14, <2>1 DEF Memories
  <2>3. Drop(f, ix) \in Maps(Texts) /\ IsDrop(Drop(g, ix), Nat, g, ix)
    BY <2>2, DropFacts DEF IsDrop
  <2> QED BY <1>15, <2>1, <2>3
<1>17. PICK q : q = [p EXCEPT !.contentText = m, !.outIx = o, !.reason = @ \ {ix}]
  OBVIOUS
<1>18. /\ q \in Memories /\ q.output = p.output /\ q.outIx = o /\ q.nested = p.nested
       /\ q.reason = p.reason \ {ix} /\ q.frames = p.frames /\ q.panicked = p.panicked
  BY <1>14, <1>16, <1>17 DEF Memories, IsDrop
<1>19. Indexed(q)
  BY <1>14, <1>16, <1>18 DEF Indexed, IsDrop
<1>20. /\ q.output = s.output /\ q.nested = r.nested /\ q.reason = r.reason \ {ix}
       /\ ~q.panicked /\ Hushed(r, q)
  BY <1>0, <1>11, <1>13, <1>18 DEF OnlySent, Hushed
<1>21. Sound(q) /\ ListedStay(r, q)
  <2>1. Announced(r)
    BY DEF Sound
  <2> QED BY <2>1, <1>11, <1>18, <1>19, <1>20 DEF Sound, Announced, ListedStay, Listed
<1>22. q = ReasoningDone(local, r, ix)
  BY <1>1, <1>2, <1>4, <1>5, <1>6, <1>8, <1>10, <1>12, <1>15, <1>17 DEF ReasoningDone
<1> QED BY <1>20, <1>21, <1>22 DEF Became

LEMMA StoreTextKeeps ==
    ASSUME NEW r, WithItem(r), NEW ix, NEW d \in Texts
    PROVE  LET q == StoreText(r, ix, d)
           IN  WithItem(q) /\ q.contentText = r.contentText /\ q.reason = r.reason /\ q.frames = r.frames
<1>0. r \in Memories /\ Indexed(r) /\ r.output # <<>> /\ ~r.panicked
  BY DEF WithItem
<1>1. PICK o, k : o = r.output /\ k = ItemAt(r, ix) + 1
  OBVIOUS
<1>2. o \in Seq(Items) /\ k \in 1..Len(o)
  BY <1>0, <1>1, ItemAtFacts DEF Memories
<1>3. o[k] \in Items
  BY <1>2, ElementOfSeq
<1>4. PICK t : t = IF o[k].type = "message" THEN d ELSE o[k].d
  OBVIOUS
<1>5. t \in Texts
  BY <1>3, <1>4 DEF Items
<1>6. PICK item : item = [o[k] EXCEPT !.d = t, !.status = "completed"]
  OBVIOUS
<1>7. item \in Items
  BY <1>3, <1>5, <1>6 DEF Items
<1>8. PICK p : p = [o EXCEPT ![k] = item]
  OBVIOUS
<1>9. p \in Seq(Items) /\ Len(p) = Len(o)
  BY <1>2, <1>7, <1>8, ExceptSeq
<1>10. PICK q : q = StoreText(r, ix, d)
  OBVIOUS
<1>11. q = [r EXCEPT !.output = p]
  <2>1. q = [r EXCEPT !.output[k].d = t, !.output[k].status = "completed"]
    BY <1>1, <1>4, <1>10 DEF StoreText
  <2>2. [o EXCEPT ![k].d = t, ![k].status = "completed"] = p
    BY <1>2, <1>3, <1>6, <1>8 DEF Items
  <2> QED BY <1>0, <1>1, <2>1, <2>2 DEF Memories
<1>12. /\ q \in Memories /\ q.output = p /\ q.outIx = r.outIx /\ q.contentText = r.contentText
       /\ q.reason = r.reason /\ q.frames = r.frames /\ q.panicked = r.panicked
  BY <1>0, <1>9, <1>11 DEF Memories
<1>13. q.output # <<>> /\ Indexed(q)
  <2>1. Len(o) > 0 /\ (p = <<>> => Len(p) = 0)
    BY <1>0, <1>1, <1>2, EmptySeq
  <2> QED BY <2>1, <1>0, <1>1, <1>9, <1>12 DEF Indexed
<1> QED BY <1>0, <1>10, <1>12, <1>13 DEF WithItem

LEMMA TextBlockDoneKeeps ==
    ASSUME NEW r, Sound(r), NEW ix \in Nat, Has(r.contentText, ix)
    PROVE  Became(r, TextBlockDone(r, ix), r.reason)
<1>0. r \in Memories /\ Indexed(r) /\ ~r.panicked
  BY DEF Sound
<1>1. PICK d : d = r.contentText[ix]
  OBVIOUS
<1>2. d \in Texts
  <2>1. r.contentText \in Maps(Texts) /\ ix \in DOMAIN r.contentText
    BY <1>0 DEF Memories, Has
  <2> QED BY <1>1, <2>1, MapTyped
<1>3. PICK e : e = EnsureMessage(r, ix)
  OBVIOUS
<1>4. WithItem(e) /\ e.reason = r.reason /\ Hushed(r, e)
  <2>1. CASE Has(r.outIx, ix)
    <3>1. e = r
      BY <1>3, <2>1 DEF EnsureMessage
    <3>2. r.output # <<>>
      BY <1>0, <2>1, ItemAtFacts DEF Has
    <3> QED BY <1>0, <3>1, <3>2 DEF WithItem, Hushed
  <2>2. CASE ~Has(r.outIx, ix)
    <3>1. e = AddItem(r, ix, Item("message", <<>>))
      BY <1>3, <2>2 DEF EnsureMessage
    <3>2. Became(r, e, r.reason) /\ e.output # <<>>
      BY <1>0, <3>1, AddItemKeeps
    <3> QED BY <3>2 DEF Became, Sound, WithItem
  <2> QED BY <2>1, <2>2
<1>5. PICK s : s = StoreText(e, ix, d)
  OBVIOUS
<1>6. WithItem(s) /\ s.reason = r.reason /\ s.frames = e.frames
  BY <1>2, <1>4, <1>5, StoreTextKeeps
<1>7. PICK m : m = Drop(s.contentText, ix)
  OBVIOUS
<1>8. m \in Maps(Texts)
  <2>1. PICK f : f = s.contentText
    OBVIOUS
  <2>2. f \in Maps(Texts)
    BY <1>6, <2>1 DEF WithItem, Memories
  <2> QED BY <1>7, <2>1, <2>2, DropFacts DEF IsDrop
<1>9. PICK p : p = [s EXCEPT !.contentText = m]
  OBVIOUS
<1>10. WithItem(p) /\ p.reason = r.reason /\ p.frames = e.frames
  <2>1. /\ p \in Memories /\ p.output = s.output /\ p.outIx = s.outIx /\ p.reason = s.reason
        /\ p.frames = s.frames /\ p.panicked = s.panicked
    BY <1>6, <1>8, <1>9 DEF WithItem, Memories
  <2> QED BY <2>1, <1>6 DEF WithItem, Indexed
<1>11. PICK oi : oi = ItemAt(s, ix)
  OBVIOUS
<1>12. PICK x, y : x = Frame("output_text.done", oi, d) /\ y = Frame("content_part.done", oi, <<>>)
  <2>1. PICK x : x = Frame("output_text.done", oi, d)
    OBVIOUS
  <2> QED BY <2>1
<1>13. x \in Silent /\ y \in Silent
  <2>1. oi \in Nat
    BY <1>6, <1>11, ItemAtFacts DEF WithItem
  <2>2. "output_text.done" \in SilentNames /\ "content_part.done" \in SilentNames /\ <<>> \in Texts
    BY DEF SilentNames, Texts
  <2>3. Frame("output_text.done", oi, d) \in Silent
    BY <1>2, <2>1, <2>2, FrameTyped
  <2>4. Frame("content_part.done", oi, <<>>) \in Silent
    BY <2>1, <2>2, FrameTyped
  <2> QED BY <1>12, <2>3, <2>4
<1>14. PICK fs : fs = <<x, y>>
  OBVIOUS
<1>15. fs \in Seq(Silent)
  BY <1>13, <1>14
<1>16. PICK t : t = Send(p, fs)
  OBVIOUS
<1>17. OnlySent(p, t)
  BY <1>10, <1>15, <1>16, SendSilent DEF WithItem
<1>18. PICK q : q = ItemDone(t, ix)
  OBVIOUS
<1>19. WithItem(t)
  BY <1>10, <1>17, WithItemStays
<1>20. OnlySent(t, q)
  BY <1>18, <1>19, ItemDoneSends
<1>21. WithItem(q) /\ q.reason = r.reason /\ Hushed(r, q)
  <2>1. WithItem(q)
    BY <1>19, <1>20, WithItemStays
  <2> QED BY <2>1, <1>4, <1>10, <1>17, <1>20 DEF OnlySent, Hushed
<1>22. q = TextBlockDone(r, ix)
  BY <1>1, <1>3, <1>5, <1>7, <1>9, <1>11, <1>12, <1>14, <1>16, <1>18 DEF TextBlockDone
<1> QED BY <1>21, <1>22, EndedWell

LEMMA ToolBlockDoneKeeps ==
    ASSUME NEW r, Sound(r), NEW ix \in Nat, Has(r.outIx, ix)
    PROVE  Became(r, ToolBlockDone(r, ix), r.reason)
<1>0. r \in Memories /\ Indexed(r) /\ ~r.panicked
  BY DEF Sound
<1>1. r.output # <<>> /\ WithItem(r)
  BY <1>0, ItemAtFacts DEF WithItem, Has
<1>2. PICK d : d = Lookup(r.toolArgs, ix, <<>>)
  OBVIOUS
<1>3. d \in Texts
  <2>1. r.toolArgs \in Maps(Texts) /\ <<>> \in Texts
    BY <1>0 DEF Memories, Texts
  <2> QED BY <1>2, <2>1, LookupTyped
<1>4. PICK t : t = IF d = <<>> THEN r.output[ItemAt(r, ix) + 1].d ELSE d
  OBVIOUS
<1>5. t \in Texts
  <2>1. r.output \in Seq(Items) /\ ItemAt(r, ix) + 1 \in 1..Len(r.output)
    BY <1>0, <1>1, ItemAtFacts DEF Memories
  <2>2. r.output[ItemAt(r, ix) + 1] \in Items
    BY <2>1, ElementOfSeq
  <2>3. r.output[ItemAt(r, ix) + 1].d \in Texts
    BY <2>2 DEF Items
  <2> QED BY <1>3, <1>4, <2>3
<1>6. PICK s : s = SetItem(r, ix, t)
  OBVIOUS
<1>7. WithItem(s) /\ s.reason = r.reason /\ s.frames = r.frames
  BY <1>0, <1>1, <1>5, <1>6, SetItemFacts DEF WithItem
<1>8. PICK c : c = CallDone(s, ix, d)
  OBVIOUS
<1>9. OnlySent(s, c)
  BY <1>3, <1>7, <1>8, CallDoneSends
<1>10. WithItem(c) /\ c.reason = r.reason /\ Hushed(r, c)
  <2>1. WithItem(c)
    BY <1>7, <1>9, WithItemStays
  <2> QED BY <2>1, <1>7, <1>9 DEF OnlySent, Hushed
<1>11. PICK f : f = [c EXCEPT !.final = @ \union {ix}]
  OBVIOUS
<1>12. WithItem(f) /\ f.reason = c.reason /\ f.frames = c.frames
  BY <1>10, <1>11, ForgetCall
<1>13. PICK q : q = [f EXCEPT !.toolArgs = Drop(@, ix)]
  OBVIOUS
<1>14. WithItem(q) /\ q.reason = f.reason /\ q.frames = f.frames
  BY <1>12, <1>13, ForgetCall
<1>15. q.reason = r.reason /\ Hushed(r, q)
  BY <1>10, <1>12, <1>14 DEF Hushed
<1>16. q = [c EXCEPT !.final = @ \union {ix}, !.toolArgs = Drop(@, ix)]
  BY <1>10, <1>11, <1>13 DEF WithItem, Memories
<1>17. q = ToolBlockDone(r, ix)
  BY <1>2, <1>4, <1>6, <1>8, <1>16 DEF ToolBlockDone
<1> QED BY <1>14, <1>15, <1>17, EndedWell

\* The end of a block ends the thought at its index and nothing else.
LEMMA BlockDoneKeeps ==
    ASSUME NEW local, NEW r, Sound(r), NEW ix \in Nat
    PROVE  LET q == BlockDoneIn(local, r, ix)
           IN  Became(r, q, IF ix \in r.reason THEN r.reason \ {ix} ELSE r.reason)
<1>1. CASE ix \in r.reason
  <2>1. BlockDoneIn(local, r, ix) = ReasoningDone(local, r, ix)
    BY <1>1 DEF BlockDoneIn
  <2> QED BY <1>1, <2>1, ReasoningDoneKeeps
<1>2. CASE ix \notin r.reason /\ Has(r.contentText, ix)
  <2>1. BlockDoneIn(local, r, ix) = TextBlockDone(r, ix)
    BY <1>2 DEF BlockDoneIn
  <2> QED BY <1>2, <2>1, TextBlockDoneKeeps
<1>3. CASE ix \notin r.reason /\ ~Has(r.contentText, ix) /\ Has(r.outIx, ix) /\ ix \notin r.final
  <2>1. BlockDoneIn(local, r, ix) = ToolBlockDone(r, ix)
    BY <1>3 DEF BlockDoneIn
  <2> QED BY <1>3, <2>1, ToolBlockDoneKeeps
<1>4. CASE ix \notin r.reason /\ ~Has(r.contentText, ix) /\ ~(Has(r.outIx, ix) /\ ix \notin r.final)
  <2>1. BlockDoneIn(local, r, ix) = r
    BY <1>4 DEF BlockDoneIn
  <2> QED BY <1>4, <2>1 DEF Became, ListedStay, Hushed
<1> QED BY <1>1, <1>2, <1>3, <1>4

LEMMA EmptyText == <<>> \in Texts
BY DEF Texts

LEMMA BlockStartedKeeps ==
    ASSUME NEW r, Sound(r), NEW ev \in Events, ev.kind # ""
    PROVE  LET q == BlockStarted(r, ev)
           IN  /\ Became(r, q, IF ev.kind = "reasoning" THEN r.reason \union {ev.ix} ELSE r.reason)
               /\ IsTool(ev.kind) => Listed(q, ev.ix)
<1>0. ev.ix \in Nat /\ ev.kind \in {"text", "reasoning", "tool", "nested"}
  BY DEF Events
<1>1. CASE ev.kind = "text"
  <2>1. BlockStarted(r, ev) = [r EXCEPT !.contentText = Put(@, ev.ix, <<>>)]
    BY <1>1 DEF BlockStarted, StartText
  <2>2. <<>> \in Texts
    BY EmptyText
  <2>3. Became(r, [r EXCEPT !.contentText = Put(@, ev.ix, <<>>)], r.reason)
    BY <1>0, <2>2, PutText
  <2> QED BY <1>1, <2>1, <2>3 DEF IsTool
<1>2. CASE ev.kind = "reasoning"
  <2>1. BlockStarted(r, ev) = StartReasoning(r, ev.ix)
    BY <1>2 DEF BlockStarted
  <2> QED BY <1>0, <1>2, <2>1, StartReasoningKeeps DEF IsTool
<1>3. CASE ev.kind \in {"tool", "nested"}
  <2>1. BlockStarted(r, ev) = StartTool(r, ev.ix, ev.kind)
    BY <1>3 DEF BlockStarted
  <2> QED BY <1>0, <1>3, <2>1, StartToolKeeps
<1> QED BY <1>0, <1>1, <1>2, <1>3

LEMMA LifecycleKeeps ==
    ASSUME NEW r, Sound(r), NEW ev
    PROVE  Became(r, LifecycleIn(r, ev), r.reason)
<1>0. r \in Memories
  BY DEF Sound
<1>1. PICK status : status = CASE ev.t = "completed" -> "completed"
                               [] ev.t = "incomplete" -> "incomplete"
                               [] ev.t = "failed" -> "failed"
                               [] OTHER -> "in_progress"
  OBVIOUS
<1>2. status \in {"in_progress", "completed", "incomplete", "failed"}
  BY <1>1
<1>3. PICK p : p = [r EXCEPT !.status = status]
  OBVIOUS
<1>4. /\ p \in Memories /\ p.output = r.output /\ p.outIx = r.outIx /\ p.nested = r.nested
      /\ p.panicked = r.panicked /\ p.reason = r.reason /\ p.frames = r.frames
  BY <1>0, <1>2, <1>3 DEF Memories
<1>5. PICK fr : fr = Frame(LifecycleFrame(ev.t), 0, r.output)
  OBVIOUS
<1>6. fr \in Silent
  <2>1. LifecycleFrame(ev.t) \in SilentNames
    BY DEF LifecycleFrame, SilentNames
  <2>2. r.output \in Texts \union Seq(Items)
    BY <1>0 DEF Memories
  <2> QED BY <1>5, <2>1, <2>2, FrameTyped
<1>7. <<fr>> \in Seq(Silent)
  BY <1>6
<1>8. OnlySent(p, Send(p, <<fr>>))
  BY <1>4, <1>7, SendSilent
<1>9. Sound(p) /\ ListedStay(r, p)
  BY <1>4, SameItems
<1>10. Became(r, p, r.reason)
  BY <1>4, <1>9 DEF Became, Hushed
<1>11. Became(p, Send(p, <<fr>>), r.reason)
  BY <1>4, <1>8, <1>9, OnlySentBecame
<1>12. LifecycleIn(r, ev) = Send(p, <<fr>>)
  BY <1>1, <1>3, <1>5 DEF LifecycleIn
<1> QED BY <1>10, <1>11, <1>12, BecameThen

---------------------------------------------------------------------------
(* The Chat Completions converter *)

Known == [kind : {"tool_use", "", "text", "reasoning"}, tool : Nat]
ChatMemories ==
    [roleSent : BOOLEAN, blocks : Maps(Known), nextTool : Nat, finish : Stopped,
     frames : Seq(Frames)]

ChatThinking(r, ix) == Has(r.blocks, ix) /\ r.blocks[ix].kind = "reasoning"

\* q is r with some silent frames sent to a Chat client.
ChatSent(r, q) ==
    q \in ChatMemories /\ q.blocks = r.blocks /\ q.nextTool = r.nextTool /\ Hushed(r, q)

\* What frames add to what was shown before them.
LEMMA Joined ==
    ASSUME NEW frames \in Seq(Frames), NEW fs \in Seq(Silent)
    PROVE  /\ frames \o fs \in Seq(Frames)
           /\ \A F \in {TextFrames, ThoughtFrames} : Shown(frames \o fs, F) = Shown(frames, F)
<1>1. fs \in Seq(Frames)
  BY SeqMonotonic DEF Frames
<1>2. ASSUME NEW F \in {TextFrames, ThoughtFrames}
      PROVE  Shown(frames \o fs, F) = Shown(frames, F)
  <2>1. Shown(frames \o fs, F) = Shown(frames, F) \o Shown(fs, F) /\ Shown(frames, F) \in Texts
    BY <1>1, ShownConcat
  <2>2. Shown(fs, F) = <<>>
    BY SilentShown
  <2> QED BY <2>1, <2>2, ConcatEmptySeq DEF Texts
<1> QED BY <1>1, <1>2, ConcatProperties

LEMMA ChatSends ==
    ASSUME NEW r \in ChatMemories, NEW fs \in Seq(Silent)
    PROVE  ChatSent(r, Send(r, fs))
<1>1. PICK a : a = r.frames
  OBVIOUS
<1>2. a \in Seq(Frames)
  BY <1>1 DEF ChatMemories
<1>3. PICK b : b = a \o fs
  OBVIOUS
<1>4. b \in Seq(Frames) /\ \A F \in {TextFrames, ThoughtFrames} : Shown(b, F) = Shown(a, F)
  BY <1>2, <1>3, Joined
<1>5. PICK q : q = [r EXCEPT !.frames = b]
  OBVIOUS
<1>6. q \in ChatMemories /\ q.frames = b /\ q.blocks = r.blocks /\ q.nextTool = r.nextTool
  BY <1>4, <1>5 DEF ChatMemories
<1>7. q = Send(r, fs)
  BY <1>1, <1>3, <1>5 DEF Send
<1> QED BY <1>1, <1>4, <1>6, <1>7 DEF ChatSent, Hushed

LEMMA ChatSendsOne ==
    ASSUME NEW r \in ChatMemories, NEW f \in SilentNames, NEW oi \in Nat, NEW d \in Texts
    PROVE  ChatSent(r, Send(r, <<Frame(f, oi, d)>>))
<1>1. PICK fr : fr = Frame(f, oi, d)
  OBVIOUS
<1>2. fr \in Silent
  BY <1>1, FrameTyped
<1>3. <<fr>> \in Seq(Silent)
  BY <1>2
<1> QED BY <1>1, <1>3, ChatSends, Zenon

LEMMA OpenRoleSends ==
    ASSUME NEW r \in ChatMemories
    PROVE  ChatSent(r, OpenRole(r))
<1>1. CASE r.roleSent
  BY <1>1 DEF OpenRole, ChatSent, Hushed
<1>2. CASE ~r.roleSent
  <2>1. PICK p : p = [r EXCEPT !.roleSent = TRUE]
    OBVIOUS
  <2>2. p \in ChatMemories /\ p.blocks = r.blocks /\ p.nextTool = r.nextTool /\ p.frames = r.frames
    BY <2>1 DEF ChatMemories
  <2>3. "role" \in SilentNames /\ <<>> \in Texts
    BY DEF SilentNames, Texts
  <2>4. ChatSent(p, Send(p, <<Frame("role", 0, <<>>)>>))
    BY <2>2, <2>3, ChatSendsOne
  <2>5. OpenRole(r) = Send(p, <<Frame("role", 0, <<>>)>>)
    BY <1>2, <2>1 DEF OpenRole
  <2> QED BY <2>2, <2>4, <2>5 DEF ChatSent, Hushed
<1> QED BY <1>1, <1>2

\* The client was told something of a block that is no thought.
LEMMA ChatPut ==
    ASSUME NEW r \in ChatMemories, NEW ix \in Nat, NEW told \in Known
    PROVE  LET q == [r EXCEPT !.blocks = Put(@, ix, told)]
           IN  /\ q \in ChatMemories /\ q.frames = r.frames /\ q.nextTool = r.nextTool
               /\ Has(q.blocks, ix) /\ q.blocks[ix] = told
               /\ ChatThinking(q, ix) <=> told.kind = "reasoning"
               /\ \A j \in Nat \ {ix} : ChatThinking(q, j) <=> ChatThinking(r, j)
<1>1. PICK f : f = r.blocks
  OBVIOUS
<1>2. f \in Maps(Known)
  BY <1>1 DEF ChatMemories
<1>3. PICK g : g = Put(f, ix, told)
  OBVIOUS
<1>4. IsPut(g, Known, f, ix, told)
  BY <1>2, <1>3, PutFacts
<1>5. PICK q : q = [r EXCEPT !.blocks = g]
  OBVIOUS
<1>6. q \in ChatMemories /\ q.frames = r.frames /\ q.blocks = g /\ q.nextTool = r.nextTool
  BY <1>4, <1>5 DEF ChatMemories, IsPut
<1>7. q = [r EXCEPT !.blocks = Put(@, ix, told)]
  BY <1>1, <1>3, <1>5
<1>8. /\ Has(g, ix) /\ g[ix] = told
      /\ \A j \in Nat \ {ix} : (j \in DOMAIN g <=> j \in DOMAIN f)
                               /\ (j \in DOMAIN f => g[j] = f[j])
  BY <1>4 DEF IsPut, Has
<1>9. /\ ChatThinking(q, ix) <=> told.kind = "reasoning"
      /\ \A j \in Nat \ {ix} : ChatThinking(q, j) <=> ChatThinking(r, j)
  BY <1>1, <1>6, <1>8 DEF ChatThinking, Has
<1> QED BY <1>6, <1>7, <1>8, <1>9

LEMMA KnowToolFacts ==
    ASSUME NEW r \in ChatMemories, NEW ix \in Nat
    PROVE  LET q == KnowTool(r, ix)
           IN  /\ q \in ChatMemories /\ q.frames = r.frames
               /\ Has(q.blocks, ix) /\ q.blocks[ix].tool \in Nat
               /\ ~ChatThinking(q, ix)
               /\ \A j \in Nat \ {ix} : ChatThinking(q, j) <=> ChatThinking(r, j)
<1>1. PICK told : told = [kind |-> "tool_use", tool |-> r.nextTool]
  OBVIOUS
<1>2. told \in Known /\ told.kind # "reasoning" /\ told.tool \in Nat
  BY <1>1 DEF Known, ChatMemories
<1>3. PICK p : p = [r EXCEPT !.blocks = Put(@, ix, told)]
  OBVIOUS
<1>4. /\ p \in ChatMemories /\ p.frames = r.frames
      /\ Has(p.blocks, ix) /\ p.blocks[ix] = told /\ ~ChatThinking(p, ix)
      /\ \A j \in Nat \ {ix} : ChatThinking(p, j) <=> ChatThinking(r, j)
  BY <1>2, <1>3, ChatPut
<1>5. PICK q : q = [p EXCEPT !.nextTool = @ + 1]
  OBVIOUS
<1>6. q \in ChatMemories /\ q.frames = p.frames /\ q.blocks = p.blocks
  BY <1>4, <1>5 DEF ChatMemories
<1>7. q = KnowTool(r, ix)
  BY <1>1, <1>3, <1>4, <1>5 DEF KnowTool, ChatMemories
<1> QED BY <1>2, <1>4, <1>6, <1>7 DEF ChatThinking

---------------------------------------------------------------------------
(* What both converters do with an event *)

Good(c) == IF Responses THEN Sound(c) ELSE c \in ChatMemories
\* The end of a call at this index is no read past the items.
Knows(c, ix) == Responses => Listed(c, ix)
\* What is said at this index is a thought.
Thinks(c, ix) == IF Responses THEN ix \in c.reason ELSE ChatThinking(c, ix)

\* An event a converter can be sent.
Fit(c, ev) ==
    /\ ev \in Events
    /\ ev.t = "started" => ev.kind # ""
    /\ ev.t = "argsDone" => Knows(c, ev.ix)

\* q is what the memory c became with the event.
Said(c, ev) == IF ev.t = "textDelta" /\ ~Thinks(c, ev.ix) THEN ev.d ELSE <<>>
Thought(c, ev) == IF ev.t = "textDelta" /\ Thinks(c, ev.ix) THEN ev.d ELSE <<>>
Opens(ev, ix) == ev.t = "started" /\ ev.kind = "reasoning" /\ ix = ev.ix
Disturbs(ev, ix) == ev.t \in {"started", "blockDone"} /\ ix = ev.ix
Follows(c, q, ev) ==
    /\ Good(q)
    /\ \A ix \in Nat : Knows(c, ix) => Knows(q, ix)
    /\ ev.t = "started" /\ IsTool(ev.kind) => Knows(q, ev.ix)
    /\ \A ix \in Nat : Thinks(q, ix) => Thinks(c, ix) \/ Opens(ev, ix)
    /\ \A ix \in Nat : Thinks(c, ix) => Thinks(q, ix) \/ Disturbs(ev, ix)
    /\ \A ix \in Nat : Opens(ev, ix) => Thinks(q, ix)
    /\ ~Responses /\ ev.t = "started" /\ ev.kind # "reasoning" => ~Thinks(q, ev.ix)
    /\ Spoke(c, q, Said(c, ev), Thought(c, ev))

LEMMA ShownTyped ==
    ASSUME NEW frames \in Seq(Frames), NEW F \in {TextFrames, ThoughtFrames}
    PROVE  Shown(frames, F) \in Texts /\ Shown(frames, F) \o <<>> = Shown(frames, F)
<1>1. <<>> \in Seq(Frames)
  OBVIOUS
<1>2. Shown(frames, F) \in Texts
  BY <1>1, ShownConcat
<1> QED BY <1>2, ConcatEmptySeq DEF Texts

LEMMA HushedSpoke ==
    ASSUME NEW r, NEW q, r.frames \in Seq(Frames), Hushed(r, q)
    PROVE  Spoke(r, q, <<>>, <<>>)
<1>1. PICK a : a = r.frames
  OBVIOUS
<1>2. \A F \in {TextFrames, ThoughtFrames} : Shown(a, F) \o <<>> = Shown(a, F)
  BY <1>1, ShownTyped
<1> QED BY <1>1, <1>2 DEF Hushed, Spoke

LEMMA ResponsesFollows ==
    ASSUME NEW local, NEW c, Good(c), NEW ev, Fit(c, ev), Responses
    PROVE  Follows(c, ResponsesStep(local, c, ev), ev)
<1>0. Sound(c) /\ ev \in Events /\ ev.ix \in Nat /\ ~c.panicked /\ c.frames \in Seq(Frames)
  BY DEF Good, Fit, Events, Sound, Memories
<1>1. PICK q : q = ResponsesStep(local, c, ev)
  OBVIOUS
<1>2. ASSUME NEW reason, Became(c, q, reason), ev.t # "textDelta",
             ev.t = "started" => ev.kind # "" /\ (IsTool(ev.kind) => Listed(q, ev.ix)),
             reason = IF ev.t = "started" /\ ev.kind = "reasoning" THEN c.reason \union {ev.ix}
                      ELSE IF ev.t = "blockDone" THEN c.reason \ {ev.ix} ELSE c.reason
      PROVE  Follows(c, q, ev)
  <2>1. Sound(q) /\ ListedStay(c, q) /\ q.reason = reason /\ Hushed(c, q)
    BY <1>2 DEF Became
  <2>2. Spoke(c, q, <<>>, <<>>)
    BY <1>0, <2>1, HushedSpoke
  <2>3. Spoke(c, q, Said(c, ev), Thought(c, ev))
    BY <1>2, <2>2 DEF Said, Thought
  <2>4. /\ Good(q)
        /\ \A ix \in Nat : Knows(c, ix) => Knows(q, ix)
        /\ ev.t = "started" /\ IsTool(ev.kind) => Knows(q, ev.ix)
    BY <1>2, <2>1 DEF Good, Knows, ListedStay
  <2>5. /\ \A ix \in Nat : Thinks(q, ix) => Thinks(c, ix) \/ Opens(ev, ix)
        /\ \A ix \in Nat : Thinks(c, ix) => Thinks(q, ix) \/ Disturbs(ev, ix)
        /\ \A ix \in Nat : Opens(ev, ix) => Thinks(q, ix)
    BY <1>2, <2>1 DEF Thinks, Opens, Disturbs
  <2> QED BY <2>3, <2>4, <2>5 DEF Follows
<1>3. CASE ev.t = "started"
  <2>1. q = BlockStarted(c, ev) /\ ev.kind # ""
    BY <1>0, <1>1, <1>3 DEF ResponsesStep, Fit
  <2>2. /\ Became(c, q, IF ev.kind = "reasoning" THEN c.reason \union {ev.ix} ELSE c.reason)
        /\ IsTool(ev.kind) => Listed(q, ev.ix)
    BY <1>0, <2>1, BlockStartedKeeps
  <2> QED BY <1>1, <1>2, <1>3, <2>1, <2>2
<1>4. CASE ev.t = "textDelta"
  <2>1. q = TextDeltaIn(c, ev)
    BY <1>0, <1>1, <1>4 DEF ResponsesStep
  <2>2. /\ Sound(q) /\ ListedStay(c, q) /\ q.reason = c.reason
        /\ ev.ix \in c.reason => Spoke(c, q, <<>>, ev.d)
        /\ ev.ix \notin c.reason => Spoke(c, q, ev.d, <<>>)
    BY <1>0, <2>1, TextDeltaKeeps
  <2>3. Spoke(c, q, Said(c, ev), Thought(c, ev))
    BY <1>4, <2>2 DEF Said, Thought, Thinks
  <2> QED BY <1>1, <1>4, <2>2, <2>3 DEF Follows, Good, Knows, ListedStay, Thinks, Opens
<1>5. CASE ev.t = "argsDelta"
  <2>1. q = ArgsDeltaIn(c, ev)
    BY <1>0, <1>1, <1>5 DEF ResponsesStep
  <2>2. Became(c, q, c.reason)
    BY <1>0, <2>1, ArgsDeltaKeeps
  <2> QED BY <1>1, <1>2, <1>5, <2>2
<1>6. CASE ev.t = "argsDone"
  <2>1. q = ArgsDoneIn(c, ev) /\ Listed(c, ev.ix)
    BY <1>0, <1>1, <1>6 DEF ResponsesStep, Fit, Knows
  <2>2. Became(c, q, c.reason)
    BY <1>0, <2>1, ArgsDoneKeeps
  <2> QED BY <1>1, <1>2, <1>6, <2>2
<1>7. CASE ev.t = "blockDone"
  <2>1. q = BlockDoneIn(local, c, ev.ix)
    BY <1>0, <1>1, <1>7 DEF ResponsesStep
  <2>2. Became(c, q, IF ev.ix \in c.reason THEN c.reason \ {ev.ix} ELSE c.reason)
    BY <1>0, <2>1, BlockDoneKeeps
  <2>3. (IF ev.ix \in c.reason THEN c.reason \ {ev.ix} ELSE c.reason) = c.reason \ {ev.ix}
    OBVIOUS
  <2> QED BY <1>1, <1>2, <1>7, <2>2, <2>3
<1>8. CASE ev.t \in {"itemAdded", "itemDone", "ping"}
  <2>1. q = c
    BY <1>0, <1>1, <1>8 DEF ResponsesStep
  <2>2. Became(c, q, c.reason)
    BY <1>0, <2>1 DEF Became, ListedStay, Hushed
  <2> QED BY <1>1, <1>2, <1>8, <2>2
<1>9. CASE ev.t \in {"created", "inProgress", "completed", "incomplete", "failed"}
  <2>1. q = LifecycleIn(c, ev)
    BY <1>0, <1>1, <1>9 DEF ResponsesStep
  <2>2. Became(c, q, c.reason)
    BY <1>0, <2>1, LifecycleKeeps
  <2> QED BY <1>1, <1>2, <1>9, <2>2
<1> QED BY <1>0, <1>3, <1>4, <1>5, <1>6, <1>7, <1>8, <1>9 DEF Events

LEMMA ChatBlockStartedKeeps ==
    ASSUME NEW r \in ChatMemories, NEW ev \in Events
    PROVE  LET q == ChatBlockStarted(r, ev)
           IN  /\ q \in ChatMemories /\ Hushed(r, q)
               /\ ChatThinking(q, ev.ix) <=> ev.kind = "reasoning"
               /\ \A j \in Nat \ {ev.ix} : ChatThinking(q, j) <=> ChatThinking(r, j)
<1>0. ev.ix \in Nat /\ ev.kind \in {"", "text", "reasoning", "tool", "nested"} /\ r.nextTool \in Nat
  BY DEF Events, ChatMemories
<1>1. CASE IsTool(ev.kind)
  <2>1. PICK p : p = KnowTool(r, ev.ix)
    OBVIOUS
  <2>2. /\ p \in ChatMemories /\ p.frames = r.frames /\ ~ChatThinking(p, ev.ix)
        /\ \A j \in Nat \ {ev.ix} : ChatThinking(p, j) <=> ChatThinking(r, j)
    BY <1>0, <2>1, KnowToolFacts
  <2>3. PICK q : q = Send(p, <<Frame("tool_call", r.nextTool, <<>>)>>)
    OBVIOUS
  <2>4. ChatSent(p, q)
    <3>1. "tool_call" \in SilentNames /\ <<>> \in Texts
      BY DEF SilentNames, Texts
    <3> QED BY <1>0, <2>2, <2>3, <3>1, ChatSendsOne
  <2>5. q = ChatBlockStarted(r, ev) /\ ev.kind # "reasoning"
    BY <1>1, <2>1, <2>3 DEF ChatBlockStarted, IsTool
  <2> QED BY <2>2, <2>4, <2>5 DEF ChatSent, Hushed, ChatThinking
<1>2. CASE ~IsTool(ev.kind)
  <2>1. PICK told : told = [kind |-> ev.kind, tool |-> 0]
    OBVIOUS
  <2>2. told \in Known /\ (told.kind = "reasoning" <=> ev.kind = "reasoning")
    BY <1>0, <1>2, <2>1 DEF Known, IsTool
  <2>3. PICK ix : ix = ev.ix
    OBVIOUS
  <2>4. PICK q : q = [r EXCEPT !.blocks = Put(@, ix, told)]
    OBVIOUS
  <2>5. /\ q \in ChatMemories /\ q.frames = r.frames
        /\ ChatThinking(q, ix) <=> told.kind = "reasoning"
        /\ \A j \in Nat \ {ix} : ChatThinking(q, j) <=> ChatThinking(r, j)
    <3>1. ix \in Nat
      BY <1>0, <2>3
    <3> QED BY <3>1, <2>2, <2>4, ChatPut
  <2>6. q = ChatBlockStarted(r, ev)
    BY <1>2, <2>1, <2>3, <2>4 DEF ChatBlockStarted
  <2> QED BY <2>2, <2>3, <2>5, <2>6 DEF Hushed
<1> QED BY <1>1, <1>2

LEMMA ChatTextDeltaKeeps ==
    ASSUME NEW r \in ChatMemories, NEW ev \in Events
    PROVE  LET q == ChatTextDelta(r, ev)
           IN  /\ q \in ChatMemories /\ q.blocks = r.blocks
               /\ ChatThinking(r, ev.ix) => Spoke(r, q, <<>>, ev.d)
               /\ ~ChatThinking(r, ev.ix) => Spoke(r, q, ev.d, <<>>)
<1>0. ev.d \in Texts
  BY DEF Events
<1>1. PICK f : f = IF ChatThinking(r, ev.ix) THEN "reasoning_content" ELSE "content"
  OBVIOUS
<1>2. f \in TextFrames \union ThoughtFrames
      /\ (f \in ThoughtFrames <=> ChatThinking(r, ev.ix))
      /\ (f \in TextFrames <=> ~ChatThinking(r, ev.ix))
  BY <1>1 DEF TextFrames, ThoughtFrames
<1>3. PICK fr : fr = Frame(f, 0, ev.d)
  OBVIOUS
<1>4. fr \in Frames /\ fr.f = f /\ fr.d = ev.d
  BY <1>0, <1>2, <1>3 DEF Frame, Frames, Spoken
<1>5. PICK fs : fs = <<fr>>
  OBVIOUS
<1>6. fs \in Seq(Frames)
  BY <1>4, <1>5
<1>7. PICK a : a = r.frames
  OBVIOUS
<1>8. a \in Seq(Frames)
  BY <1>7 DEF ChatMemories
<1>9. PICK b : b = a \o fs
  OBVIOUS
<1>10. b \in Seq(Frames)
  BY <1>6, <1>8, <1>9, ConcatProperties
<1>11. ASSUME NEW F \in {TextFrames, ThoughtFrames}
       PROVE  Shown(b, F) = Shown(a, F) \o (IF f \in F THEN ev.d ELSE <<>>)
  <2>1. Shown(b, F) = Shown(a, F) \o Shown(fs, F)
    BY <1>6, <1>8, <1>9, ShownConcat
  <2>2. Shown(fs, F) = Part(fr, F)
    BY <1>4, <1>5, ShownOne
  <2>3. Part(fr, F) = IF f \in F THEN ev.d ELSE <<>>
    BY <1>4 DEF Part
  <2> QED BY <2>1, <2>2, <2>3
<1>12. PICK q : q = [r EXCEPT !.frames = b]
  OBVIOUS
<1>13. q \in ChatMemories /\ q.blocks = r.blocks /\ q.frames = b
  BY <1>10, <1>12 DEF ChatMemories
<1>14. q = ChatTextDelta(r, ev)
  BY <1>1, <1>3, <1>5, <1>7, <1>9, <1>12 DEF ChatTextDelta, ChatThinking, Send
<1> QED BY <1>2, <1>7, <1>11, <1>13, <1>14 DEF Spoke

LEMMA ChatArgsDeltaKeeps ==
    ASSUME NEW r \in ChatMemories, NEW ev \in Events
    PROVE  LET q == ChatArgsDelta(r, ev)
           IN  /\ q \in ChatMemories /\ Hushed(r, q)
               /\ \A j \in Nat : ChatThinking(q, j) <=> ChatThinking(r, j)
<1>0. ev.ix \in Nat /\ ev.d \in Texts
  BY DEF Events
<1>1. PICK p : p = IF Has(r.blocks, ev.ix) THEN r ELSE KnowTool(r, ev.ix)
  OBVIOUS
<1>2. /\ p \in ChatMemories /\ p.frames = r.frames /\ p.blocks[ev.ix].tool \in Nat
      /\ \A j \in Nat : ChatThinking(p, j) <=> ChatThinking(r, j)
  <2>1. CASE Has(r.blocks, ev.ix)
    <3>1. r.blocks \in Maps(Known) /\ ev.ix \in DOMAIN r.blocks
      BY <2>1 DEF Has, ChatMemories
    <3>2. r.blocks[ev.ix] \in Known
      BY <3>1, MapTyped
    <3> QED BY <1>1, <2>1, <3>2 DEF Known
  <2>2. CASE ~Has(r.blocks, ev.ix)
    <3>1. ~ChatThinking(r, ev.ix)
      BY <2>2 DEF ChatThinking
    <3>2. /\ p \in ChatMemories /\ p.frames = r.frames /\ p.blocks[ev.ix].tool \in Nat
          /\ ~ChatThinking(p, ev.ix)
          /\ \A j \in Nat \ {ev.ix} : ChatThinking(p, j) <=> ChatThinking(r, j)
      BY <1>0, <1>1, <2>2, KnowToolFacts
    <3> QED BY <3>1, <3>2
  <2> QED BY <2>1, <2>2
<1>3. PICK t : t = p.blocks[ev.ix].tool
  OBVIOUS
<1>4. "tool_args" \in SilentNames /\ t \in Nat
  BY <1>2, <1>3 DEF SilentNames
<1>5. ChatSent(p, Send(p, <<Frame("tool_args", t, ev.d)>>))
  BY <1>0, <1>2, <1>4, ChatSendsOne
<1>6. ChatArgsDelta(r, ev) = Send(p, <<Frame("tool_args", t, ev.d)>>)
  BY <1>1, <1>3 DEF ChatArgsDelta
<1> QED BY <1>2, <1>5, <1>6 DEF ChatSent, Hushed, ChatThinking

LEMMA FinishReasonTyped ==
    ASSUME NEW stop \in Stopped, NEW hasTools
    PROVE  FinishReason(stop, hasTools) \in Stopped
BY DEF FinishReason, Stopped

LEMMA ChatTerminalKeeps ==
    ASSUME NEW r \in ChatMemories, NEW ev \in Events
    PROVE  LET q == ChatTerminal(r, ev)
           IN  q \in ChatMemories /\ q.blocks = r.blocks /\ Hushed(r, q)
<1>0. ev.stop \in Stopped
  BY DEF Events
<1>1. ASSUME NEW finish \in Stopped
      PROVE  LET p == [r EXCEPT !.finish = finish]
             IN  p \in ChatMemories /\ p.blocks = r.blocks /\ p.frames = r.frames
  BY DEF ChatMemories
<1>2. CASE ev.t = "failed"
  <2>1. PICK p : p = [r EXCEPT !.finish = "stop"]
    OBVIOUS
  <2>2. p \in ChatMemories /\ p.blocks = r.blocks /\ p.frames = r.frames
    BY <1>1, <2>1 DEF Stopped
  <2>3. "error" \in SilentNames /\ <<>> \in Texts
    BY DEF SilentNames, Texts
  <2>4. ChatSent(p, Send(p, <<Frame("error", 0, <<>>)>>))
    BY <2>2, <2>3, ChatSendsOne
  <2>5. ChatTerminal(r, ev) = Send(p, <<Frame("error", 0, <<>>)>>)
    BY <1>2, <2>1 DEF ChatTerminal
  <2> QED BY <2>2, <2>4, <2>5 DEF ChatSent, Hushed
<1>3. CASE ev.t = "incomplete" /\ ev.stop = ""
  <2>1. ChatTerminal(r, ev) = [r EXCEPT !.finish = "length"] /\ "length" \in Stopped
    BY <1>3 DEF ChatTerminal, Stopped
  <2> QED BY <1>1, <2>1 DEF Hushed
<1>4. CASE ev.t # "failed" /\ ~(ev.t = "incomplete" /\ ev.stop = "")
  <2>1. PICK f : f = FinishReason(ev.stop, r.nextTool > 0)
    OBVIOUS
  <2>2. f \in Stopped
    BY <1>0, <2>1, FinishReasonTyped
  <2>3. ChatTerminal(r, ev) = [r EXCEPT !.finish = f]
    BY <1>4, <2>1 DEF ChatTerminal
  <2> QED BY <1>1, <2>2, <2>3 DEF Hushed
<1> QED BY <1>2, <1>3, <1>4

LEMMA ChatFollows ==
    ASSUME NEW c, Good(c), NEW ev, Fit(c, ev), ~Responses
    PROVE  Follows(c, ChatClientStep(c, ev), ev)
<1>0. c \in ChatMemories /\ ev \in Events /\ ev.ix \in Nat /\ c.frames \in Seq(Frames)
  BY DEF Good, Fit, Events, ChatMemories
<1>1. PICK q : q = ChatClientStep(c, ev)
  OBVIOUS
<1>2. PICK o : o = OpenRole(c)
  OBVIOUS
<1>3. o \in ChatMemories /\ o.blocks = c.blocks /\ Hushed(c, o)
  BY <1>0, <1>2, OpenRoleSends DEF ChatSent
<1>4. \A j : ChatThinking(o, j) <=> ChatThinking(c, j)
  BY <1>3 DEF ChatThinking
<1>5. ASSUME q \in ChatMemories, Hushed(c, q), ev.t # "textDelta",
             \A j \in Nat : (ev.t = "started" /\ j = ev.ix) \/ (ChatThinking(q, j) <=> ChatThinking(c, j)),
             ev.t = "started" => (ChatThinking(q, ev.ix) <=> ev.kind = "reasoning")
      PROVE  Follows(c, q, ev)
  <2>1. Spoke(c, q, <<>>, <<>>)
    BY <1>0, <1>5, HushedSpoke
  <2>2. Spoke(c, q, Said(c, ev), Thought(c, ev))
    BY <1>5, <2>1 DEF Said, Thought
  <2>3. Good(q)
    BY <1>5 DEF Good
  <2>4. /\ \A ix \in Nat : Knows(c, ix) => Knows(q, ix)
        /\ ev.t = "started" /\ IsTool(ev.kind) => Knows(q, ev.ix)
    BY DEF Knows
  <2>5. /\ \A ix \in Nat : Thinks(q, ix) => Thinks(c, ix) \/ Opens(ev, ix)
        /\ \A ix \in Nat : Thinks(c, ix) => Thinks(q, ix) \/ Disturbs(ev, ix)
        /\ \A ix \in Nat : Opens(ev, ix) => Thinks(q, ix)
        /\ ev.t = "started" /\ ev.kind # "reasoning" => ~Thinks(q, ev.ix)
    BY <1>0, <1>5 DEF Thinks, Opens, Disturbs
  <2> QED BY <2>2, <2>3, <2>4, <2>5 DEF Follows
<1>6. CASE ev.t = "started"
  <2>1. q = ChatBlockStarted(o, ev)
    BY <1>1, <1>2, <1>6 DEF ChatClientStep
  <2>2. /\ q \in ChatMemories /\ Hushed(o, q)
        /\ ChatThinking(q, ev.ix) <=> ev.kind = "reasoning"
        /\ \A j \in Nat \ {ev.ix} : ChatThinking(q, j) <=> ChatThinking(o, j)
    BY <1>0, <1>3, <2>1, ChatBlockStartedKeeps
  <2>3. Hushed(c, q)
    BY <1>3, <2>2 DEF Hushed
  <2> QED BY <1>1, <1>4, <1>5, <1>6, <2>2, <2>3
<1>7. CASE ev.t = "textDelta"
  <2>1. q = ChatTextDelta(o, ev)
    BY <1>1, <1>2, <1>7 DEF ChatClientStep
  <2>2. /\ q \in ChatMemories /\ q.blocks = o.blocks
        /\ ChatThinking(o, ev.ix) => Spoke(o, q, <<>>, ev.d)
        /\ ~ChatThinking(o, ev.ix) => Spoke(o, q, ev.d, <<>>)
    BY <1>0, <1>3, <2>1, ChatTextDeltaKeeps
  <2>3. Spoke(c, q, Said(c, ev), Thought(c, ev))
    BY <1>3, <1>4, <1>7, <2>2 DEF Said, Thought, Thinks, Spoke, Hushed
  <2>4. \A j : ChatThinking(q, j) <=> ChatThinking(c, j)
    BY <1>3, <2>2 DEF ChatThinking
  <2> QED BY <1>1, <1>7, <2>2, <2>3, <2>4 DEF Follows, Good, Knows, Thinks, Opens
<1>8. CASE ev.t = "argsDelta"
  <2>1. q = ChatArgsDelta(o, ev)
    BY <1>1, <1>2, <1>8 DEF ChatClientStep
  <2>2. /\ q \in ChatMemories /\ Hushed(o, q)
        /\ \A j \in Nat : ChatThinking(q, j) <=> ChatThinking(o, j)
    BY <1>0, <1>3, <2>1, ChatArgsDeltaKeeps
  <2>3. Hushed(c, q)
    BY <1>3, <2>2 DEF Hushed
  <2> QED BY <1>1, <1>4, <1>5, <1>8, <2>2, <2>3
<1>9. CASE ev.t \in {"completed", "incomplete", "failed"}
  <2>1. q = ChatTerminal(o, ev)
    BY <1>1, <1>2, <1>9 DEF ChatClientStep
  <2>2. q \in ChatMemories /\ q.blocks = o.blocks /\ Hushed(o, q)
    BY <1>0, <1>3, <2>1, ChatTerminalKeeps
  <2>3. Hushed(c, q) /\ \A j : ChatThinking(q, j) <=> ChatThinking(c, j)
    BY <1>3, <2>2 DEF Hushed, ChatThinking
  <2> QED BY <1>1, <1>5, <1>9, <2>2, <2>3
<1>10. CASE ev.t = "created"
  <2>1. q = o
    BY <1>1, <1>2, <1>10 DEF ChatClientStep
  <2> QED BY <1>1, <1>3, <1>4, <1>5, <1>10, <2>1
<1>11. CASE ev.t \in {"argsDone", "blockDone", "itemAdded", "itemDone", "ping", "inProgress"}
  <2>1. q = c
    BY <1>1, <1>11 DEF ChatClientStep
  <2>2. Hushed(c, q)
    BY <2>1 DEF Hushed
  <2> QED BY <1>0, <1>1, <1>5, <1>11, <2>1, <2>2
<1> QED BY <1>0, <1>6, <1>7, <1>8, <1>9, <1>10, <1>11 DEF Events

LEMMA ClientFollows ==
    ASSUME NEW c, Good(c), NEW ev, Fit(c, ev)
    PROVE  Follows(c, ClientStep(c, ev), ev)
<1>1. CASE Responses
  <2>1. ClientStep(c, ev) = ResponsesStep(Local, c, ev)
    BY <1>1 DEF ClientStep, Responses
  <2> QED BY <1>1, <2>1, ResponsesFollows
<1>2. CASE ~Responses
  <2>1. ClientStep(c, ev) = ChatClientStep(c, ev)
    BY <1>2 DEF ClientStep, Responses
  <2> QED BY <1>2, <2>1, ChatFollows
<1> QED BY <1>1, <1>2

---------------------------------------------------------------------------
(* Events one after the other *)

\* The memory after the n-th event, from what was before it.
After(before, c, events, n) == IF n = 0 THEN c ELSE ClientStep(before[n - 1], events[n])

IsHearing(g, c, events, L) == g = [n \in 0..L |-> After(g, c, events, n)]

LEMMA HearingExists ==
    ASSUME NEW c, NEW events, NEW L \in Nat
    PROVE  \E g : IsHearing(g, c, events, L)
<1> DEFINE T == {l \in Nat : \E g : IsHearing(g, c, events, l)}
<1>1. 0 \in T
  <2> DEFINE g == [n \in 0..0 |-> c]
  <2>1. IsHearing(g, c, events, 0)
    BY DEF IsHearing, After
  <2> HIDE DEF g
  <2> QED BY <2>1
<1>2. ASSUME NEW l \in Nat, l \in T PROVE l + 1 \in T
  <2>1. PICK g : IsHearing(g, c, events, l)
    BY <1>2
  <2> DEFINE k == [n \in 0..(l + 1) |-> IF n = l + 1 THEN After(g, c, events, n) ELSE g[n]]
  <2>2. ASSUME NEW n \in 0..(l + 1) PROVE k[n] = After(k, c, events, n)
    <3>1. n # 0 => k[n - 1] = g[n - 1]
      OBVIOUS
    <3>2. After(k, c, events, n) = After(g, c, events, n)
      BY <3>1 DEF After
    <3>3. n # l + 1 => g[n] = After(g, c, events, n)
      BY <2>1 DEF IsHearing
    <3> QED BY <3>2, <3>3
  <2>3. IsHearing(k, c, events, l + 1)
    BY <2>2 DEF IsHearing
  <2> HIDE DEF k
  <2>4. l + 1 \in Nat
    OBVIOUS
  <2> QED BY <2>3, <2>4
<1> HIDE DEF T
<1>3. Nat \subseteq T
  BY <1>1, <1>2, NatSetInduction
<1> QED BY <1>3 DEF T

LEMMA HeardSteps ==
    ASSUME NEW c, NEW events, Len(events) \in Nat
    PROVE  /\ HeardUpTo(c, events)[0] = c
           /\ \A n \in 1..Len(events) :
                 HeardUpTo(c, events)[n] = ClientStep(HeardUpTo(c, events)[n - 1], events[n])
<1>1. HeardUpTo(c, events) = CHOOSE g : IsHearing(g, c, events, Len(events))
  BY Zenon DEF HeardUpTo, IsHearing, After
<1>2. \E g : IsHearing(g, c, events, Len(events))
  BY HearingExists
<1>3. IsHearing(HeardUpTo(c, events), c, events, Len(events))
  BY <1>1, <1>2, Zenon
<1> QED BY <1>3 DEF IsHearing, After

LEMMA HeardNone == \A c : Heard(c, <<>>) = c
<1> SUFFICES ASSUME NEW c PROVE Heard(c, <<>>) = c
  OBVIOUS
<1>1. Len(<<>>) = 0
  OBVIOUS
<1> QED BY <1>1, HeardSteps DEF Heard

LEMMA HeardNothing == \A c : Heard(c, <<>>) = c /\ <<>> \in Seq(Events)
<1>1. <<>> \in Seq(Events)
  OBVIOUS
<1> QED BY <1>1, HeardNone

LEMMA HeardAppend ==
    ASSUME NEW c, NEW S, NEW events \in Seq(S), NEW ev \in S
    PROVE  Heard(c, Append(events, ev)) = ClientStep(Heard(c, events), ev)
<1> DEFINE n == Len(events)
           u == Append(events, ev)
           f == HeardUpTo(c, events)
           g == HeardUpTo(c, u)
           T == {m \in 0..n : f[m] = g[m]}
<1>1. n \in Nat /\ Len(u) = n + 1 /\ u[n + 1] = ev /\ \A m \in 1..n : u[m] = events[m]
  BY LenProperties, AppendProperties
<1>2. f[0] = c /\ \A m \in 1..n : f[m] = ClientStep(f[m - 1], events[m])
  BY <1>1, HeardSteps
<1>3. g[0] = c /\ \A m \in 1..(n + 1) : g[m] = ClientStep(g[m - 1], u[m])
  <2>1. Len(u) \in Nat
    BY <1>1
  <2>2. g[0] = c /\ \A m \in 1..Len(u) : g[m] = ClientStep(g[m - 1], u[m])
    <3> HIDE DEF u
    <3> QED BY <2>1, HeardSteps
  <2> QED BY <2>2, <1>1
<1> HIDE DEF f, g
<1>4. 0 \in T
  BY <1>1, <1>2, <1>3
<1>5. ASSUME NEW m \in 0..(n - 1), m \in T PROVE m + 1 \in T
  <2>1. m + 1 \in 1..n /\ m + 1 \in 1..(n + 1) /\ (m + 1) - 1 = m /\ m + 1 \in 0..n
    BY <1>1
  <2>2. f[m + 1] = ClientStep(f[m], events[m + 1]) /\ g[m + 1] = ClientStep(g[m], u[m + 1])
    BY <2>1, <1>2, <1>3
  <2>3. u[m + 1] = events[m + 1] /\ f[m] = g[m]
    BY <2>1, <1>1, <1>5
  <2> QED BY <2>1, <2>2, <2>3
<1>6. n \in T
  <2> HIDE DEF T
  <2>1. 0..n \subseteq T
    BY <1>1, <1>4, <1>5, UpToInduction
  <2> QED BY <2>1, <1>1
<1>7. g[n + 1] = ClientStep(f[n], ev)
  <2>1. n + 1 \in 1..(n + 1) /\ (n + 1) - 1 = n
    BY <1>1
  <2> QED BY <2>1, <1>1, <1>3, <1>6
<1> QED BY <1>1, <1>7 DEF Heard, f, g

LEMMA HeardOne ==
    ASSUME NEW c, NEW ev
    PROVE  Heard(c, <<ev>>) = ClientStep(c, ev)
<1>1. <<>> \in Seq({ev}) /\ Append(<<>>, ev) = <<ev>> /\ ev \in {ev}
  OBVIOUS
<1>2. Heard(c, Append(<<>>, ev)) = ClientStep(Heard(c, <<>>), ev)
  BY <1>1, HeardAppend
<1> QED BY <1>1, <1>2, HeardNone

LEMMA Two ==
    ASSUME NEW S, NEW a \in S, NEW b \in S
    PROVE  <<a>> \in Seq(S) /\ <<a, b>> \in Seq(S) /\ Append(<<a>>, b) = <<a, b>>
<1>1. PICK s : s = <<a>>
  OBVIOUS
<1>2. PICK t : t = <<a, b>>
  OBVIOUS
<1>3. s \in Seq(S) /\ Len(s) = 1 /\ s[1] = a
  BY <1>1
<1>4. t \in Seq(S) /\ Len(t) = 2 /\ t[1] = a /\ t[2] = b
  BY <1>2
<1>5. PICK u : u = Append(s, b)
  OBVIOUS
<1>6. u \in Seq(S)
  BY <1>3, <1>5, AppendProperties
<1>7. Len(u) = Len(s) + 1
  BY <1>3, <1>5, AppendProperties
<1>8. u[Len(s) + 1] = b
  BY <1>3, <1>5, AppendProperties
<1>9. \A i \in 1..Len(s) : u[i] = s[i]
  BY <1>3, <1>5, AppendProperties
<1>10. Len(u) = 2 /\ \A i \in 1..2 : u[i] = t[i]
  BY <1>3, <1>4, <1>7, <1>8, <1>9
<1>11. u = t
  BY <1>4, <1>6, <1>10, SeqEqual
<1> QED BY <1>1, <1>2, <1>3, <1>4, <1>5, <1>11

LEMMA HeardTwo ==
    ASSUME NEW c, NEW a \in Events, NEW b \in Events
    PROVE  <<a, b>> \in Seq(Events) /\ Heard(c, <<a, b>>) = ClientStep(ClientStep(c, a), b)
<1>1. PICK s : s = <<a>>
  OBVIOUS
<1>2. s \in Seq(Events) /\ Append(s, b) = <<a, b>> /\ <<a, b>> \in Seq(Events)
  BY <1>1, Two
<1>3. Heard(c, Append(s, b)) = ClientStep(Heard(c, s), b)
  BY <1>2, HeardAppend
<1>4. Heard(c, s) = ClientStep(c, a)
  BY <1>1, HeardOne
<1> QED BY <1>2, <1>3, <1>4

LEMMA HeardConcat ==
    ASSUME NEW c, NEW S, NEW s \in Seq(S), NEW t \in Seq(S)
    PROVE  Heard(c, s \o t) = Heard(Heard(c, s), t)
<1> DEFINE upto(n) == SubSeq(t, 1, n)
           T == {n \in 0..Len(t) : Heard(c, s \o upto(n)) = Heard(Heard(c, s), upto(n))}
<1>1. Len(t) \in Nat
  BY LenProperties
<1>2. 0 \in T
  <2>1. upto(0) = <<>>
    BY NoneYet
  <2>2. s \o <<>> = s
    BY ConcatEmptySeq
  <2>3. Heard(Heard(c, s), <<>>) = Heard(c, s)
    BY HeardNone
  <2>4. Heard(c, s \o upto(0)) = Heard(Heard(c, s), upto(0))
    BY <2>1, <2>2, <2>3, Zenon
  <2> QED BY <2>4, <1>1
<1>3. ASSUME NEW n \in 0..(Len(t) - 1), n \in T PROVE n + 1 \in T
  <2>1. PICK a, x : a = upto(n) /\ x = t[n + 1]
    OBVIOUS
  <2>2. a \in Seq(S) /\ x \in S /\ upto(n + 1) = Append(a, x) /\ n + 1 \in 0..Len(t)
    BY <2>1, <1>1, OneMore
  <2>3. Heard(c, s \o a) = Heard(Heard(c, s), a)
    BY <1>3, <2>1
  <2>4. s \o Append(a, x) = Append(s \o a, x) /\ s \o a \in Seq(S)
    BY <2>2, ConcatAppend, ConcatProperties
  <2>5. Heard(c, Append(s \o a, x)) = ClientStep(Heard(c, s \o a), x)
    <3>1. PICK z : z = s \o a
      OBVIOUS
    <3>2. z \in Seq(S) /\ x \in S
      BY <2>2, <2>4, <3>1
    <3>3. Heard(c, Append(z, x)) = ClientStep(Heard(c, z), x)
      BY <3>2, HeardAppend
    <3> QED BY <3>1, <3>3
  <2>6. PICK d : d = Heard(c, s)
    OBVIOUS
  <2>7. Heard(d, Append(a, x)) = ClientStep(Heard(d, a), x)
    BY <2>2, HeardAppend
  <2>8. Heard(c, s \o upto(n + 1)) = Heard(Heard(c, s), upto(n + 1))
    BY <2>2, <2>3, <2>4, <2>5, <2>6, <2>7
  <2> QED BY <2>2, <2>8
<1>4. Len(t) \in T
  <2> HIDE DEF T
  <2>1. 0..Len(t) \subseteq T
    BY <1>1, <1>2, <1>3, UpToInduction
  <2> QED BY <2>1, <1>1
<1> QED BY <1>4, NoneYet

---------------------------------------------------------------------------
(* What each event says, and which thoughts it opens and ends *)

Shows(c, text, thought) ==
    Shown(c.frames, TextFrames) = text /\ Shown(c.frames, ThoughtFrames) = thought
KnownStay(c, q) == \A ix \in Nat : Knows(c, ix) => Knows(q, ix)
NoNewThought(c, q) == \A ix \in Nat : Thinks(q, ix) => Thinks(c, ix)
SameThought(c, q) == \A ix \in Nat : Thinks(q, ix) <=> Thinks(c, ix)
SameThoughtBut(c, q, ix) == \A j \in Nat \ {ix} : Thinks(q, j) <=> Thinks(c, j)

\* q is good and remembers what c knew.
Heeds(c, q, text, thought) == Good(q) /\ KnownStay(c, q) /\ Shows(q, text, thought)

LEMMA ShowsTyped ==
    ASSUME NEW c, Good(c), NEW x, NEW y, Shows(c, x, y)
    PROVE  x \in Texts /\ y \in Texts /\ x \o <<>> = x /\ y \o <<>> = y
<1>1. PICK a : a = c.frames
  OBVIOUS
<1>2. a \in Seq(Frames)
  BY <1>1 DEF Good, Sound, Memories, ChatMemories
<1>3. ASSUME NEW F \in {TextFrames, ThoughtFrames}
      PROVE  Shown(a, F) \in Texts /\ Shown(a, F) \o <<>> = Shown(a, F)
  BY <1>2, ShownTyped
<1> QED BY <1>1, <1>3 DEF Shows

LEMMA HeedsThen ==
    ASSUME NEW c, NEW p, NEW q, NEW x, NEW y, NEW z, NEW w, Heeds(c, p, x, y), Heeds(p, q, z, w)
    PROVE  Heeds(c, q, z, w)
BY DEF Heeds, KnownStay

LEMMA Hears ==
    ASSUME NEW c, Good(c), NEW x, NEW y, Shows(c, x, y), NEW ev, Fit(c, ev)
    PROVE  LET q == ClientStep(c, ev)
           IN  /\ Follows(c, q, ev) /\ Heeds(c, q, x \o Said(c, ev), y \o Thought(c, ev))
               /\ ev.t # "textDelta" => Heeds(c, q, x, y)
<1>1. PICK q : q = ClientStep(c, ev)
  OBVIOUS
<1>2. Follows(c, q, ev)
  BY <1>1, ClientFollows
<1>3. x \o <<>> = x /\ y \o <<>> = y
  BY ShowsTyped
<1>4. Good(q) /\ KnownStay(c, q) /\ Spoke(c, q, Said(c, ev), Thought(c, ev))
  BY <1>2 DEF Follows, KnownStay
<1>5. Shows(q, x \o Said(c, ev), y \o Thought(c, ev))
  BY <1>4 DEF Shows, Spoke
<1>6. ev.t # "textDelta" => Shows(q, x, y)
  BY <1>3, <1>5 DEF Said, Thought
<1> QED BY <1>1, <1>2, <1>4, <1>5, <1>6 DEF Heeds

LEMMA HearsStartedText ==
    ASSUME NEW c, Good(c), NEW x, NEW y, Shows(c, x, y), NEW ix \in Nat
    PROVE  LET q == ClientStep(c, Started(ix, "text"))
           IN  /\ Started(ix, "text") \in Events
               /\ Heeds(c, q, x, y) /\ NoNewThought(c, q) /\ SameThoughtBut(c, q, ix)
<1>1. PICK ev : ev = Started(ix, "text")
  OBVIOUS
<1>2. ev.t = "started" /\ ev.ix = ix /\ ev.kind = "text" /\ Fit(c, ev) /\ ev \in Events
  BY <1>1, EmptyText DEF Started, CoreEvent, Fit, Events, Stopped
<1>3. PICK q : q = ClientStep(c, ev)
  OBVIOUS
<1>4. Follows(c, q, ev) /\ Heeds(c, q, x, y)
  BY <1>2, <1>3, Hears
<1>5. NoNewThought(c, q) /\ SameThoughtBut(c, q, ix)
  BY <1>2, <1>4 DEF Follows, Opens, Disturbs, NoNewThought, SameThoughtBut
<1> QED BY <1>1, <1>2, <1>3, <1>4, <1>5

LEMMA HearsStartedReasoning ==
    ASSUME NEW c, Good(c), NEW x, NEW y, Shows(c, x, y), NEW ix \in Nat
    PROVE  LET q == ClientStep(c, Started(ix, "reasoning"))
           IN  /\ Started(ix, "reasoning") \in Events
               /\ Heeds(c, q, x, y) /\ Thinks(q, ix) /\ SameThoughtBut(c, q, ix)
<1>1. PICK ev : ev = Started(ix, "reasoning")
  OBVIOUS
<1>2. ev.t = "started" /\ ev.ix = ix /\ ev.kind = "reasoning" /\ Fit(c, ev) /\ ev \in Events
  BY <1>1, EmptyText DEF Started, CoreEvent, Fit, Events, Stopped
<1>3. PICK q : q = ClientStep(c, ev)
  OBVIOUS
<1>4. Follows(c, q, ev) /\ Heeds(c, q, x, y)
  BY <1>2, <1>3, Hears
<1>5. Thinks(q, ix) /\ SameThoughtBut(c, q, ix)
  BY <1>2, <1>4 DEF Follows, Opens, Disturbs, SameThoughtBut
<1> QED BY <1>1, <1>2, <1>3, <1>4, <1>5

LEMMA HearsStartedTool ==
    ASSUME NEW c, Good(c), NEW x, NEW y, Shows(c, x, y), NEW ix \in Nat,
           NEW kind \in {"tool", "nested"}
    PROVE  LET q == ClientStep(c, Started(ix, kind))
           IN  /\ Started(ix, kind) \in Events
               /\ Heeds(c, q, x, y) /\ Knows(q, ix) /\ NoNewThought(c, q) /\ SameThoughtBut(c, q, ix)
<1>1. PICK ev : ev = Started(ix, kind)
  OBVIOUS
<1>2. ev.t = "started" /\ ev.ix = ix /\ ev.kind = kind /\ Fit(c, ev) /\ ev \in Events /\ IsTool(kind)
  BY <1>1, EmptyText DEF Started, CoreEvent, Fit, Events, Stopped, IsTool
<1>3. PICK q : q = ClientStep(c, ev)
  OBVIOUS
<1>4. Follows(c, q, ev) /\ Heeds(c, q, x, y)
  BY <1>2, <1>3, Hears
<1>5. NoNewThought(c, q) /\ SameThoughtBut(c, q, ix) /\ Knows(q, ix)
  BY <1>2, <1>4 DEF Follows, Opens, Disturbs, NoNewThought, SameThoughtBut
<1> QED BY <1>1, <1>2, <1>3, <1>4, <1>5

LEMMA HearsText ==
    ASSUME NEW c, Good(c), NEW x, NEW y, Shows(c, x, y), NEW ix \in Nat, NEW d \in Texts
    PROVE  LET q == ClientStep(c, TextDelta(ix, d))
           IN  /\ TextDelta(ix, d) \in Events /\ SameThought(c, q)
               /\ Thinks(c, ix) => Heeds(c, q, x, y \o d)
               /\ ~Thinks(c, ix) => Heeds(c, q, x \o d, y)
<1>1. PICK ev : ev = TextDelta(ix, d)
  OBVIOUS
<1>2. ev.t = "textDelta" /\ ev.ix = ix /\ ev.d = d /\ Fit(c, ev) /\ ev \in Events
  BY <1>1 DEF TextDelta, CoreEvent, Fit, Events, Stopped
<1>3. PICK q : q = ClientStep(c, ev)
  OBVIOUS
<1>4. Follows(c, q, ev) /\ Heeds(c, q, x \o Said(c, ev), y \o Thought(c, ev))
  BY <1>2, <1>3, Hears
<1>5. SameThought(c, q)
  BY <1>2, <1>4 DEF Follows, Opens, Disturbs, SameThought
<1>6. x \o <<>> = x /\ y \o <<>> = y
  BY ShowsTyped
<1>7. Thinks(c, ix) => Heeds(c, q, x, y \o d)
  BY <1>2, <1>4, <1>6 DEF Said, Thought
<1>8. ~Thinks(c, ix) => Heeds(c, q, x \o d, y)
  BY <1>2, <1>4, <1>6 DEF Said, Thought
<1> QED BY <1>1, <1>2, <1>3, <1>5, <1>7, <1>8

LEMMA HearsDone ==
    ASSUME NEW c, Good(c), NEW x, NEW y, Shows(c, x, y), NEW ix \in Nat, NEW stop \in Stopped
    PROVE  LET q == ClientStep(c, DoneWith(ix, stop))
           IN  /\ DoneWith(ix, stop) \in Events
               /\ Heeds(c, q, x, y) /\ NoNewThought(c, q) /\ SameThoughtBut(c, q, ix)
<1>1. PICK ev : ev = DoneWith(ix, stop)
  OBVIOUS
<1>2. ev.t = "blockDone" /\ ev.ix = ix /\ Fit(c, ev) /\ ev \in Events
  BY <1>1, EmptyText DEF DoneWith, CoreEvent, Fit, Events
<1>3. PICK q : q = ClientStep(c, ev)
  OBVIOUS
<1>4. Follows(c, q, ev) /\ Heeds(c, q, x, y)
  BY <1>2, <1>3, Hears
<1>5. NoNewThought(c, q) /\ SameThoughtBut(c, q, ix)
  BY <1>2, <1>4 DEF Follows, Opens, Disturbs, NoNewThought, SameThoughtBut
<1> QED BY <1>1, <1>2, <1>3, <1>4, <1>5

LEMMA HearsArgs ==
    ASSUME NEW c, Good(c), NEW x, NEW y, Shows(c, x, y), NEW ix \in Nat, NEW d \in Texts
    PROVE  /\ LET q == ClientStep(c, ArgsDelta(ix, d))
              IN  /\ ArgsDelta(ix, d) \in Events
                  /\ Heeds(c, q, x, y) /\ SameThought(c, q)
           /\ ArgsDone(ix, d) \in Events
           /\ Knows(c, ix) => LET q == ClientStep(c, ArgsDone(ix, d))
                              IN  Heeds(c, q, x, y) /\ SameThought(c, q)
<1>1. PICK ev : ev = ArgsDelta(ix, d)
  OBVIOUS
<1>2. ev.t = "argsDelta" /\ ev.ix = ix /\ Fit(c, ev) /\ ev \in Events
  BY <1>1 DEF ArgsDelta, CoreEvent, Fit, Events, Stopped
<1>3. PICK q : q = ClientStep(c, ev)
  OBVIOUS
<1>4. Follows(c, q, ev) /\ Heeds(c, q, x, y)
  BY <1>2, <1>3, Hears
<1>5. SameThought(c, q)
  BY <1>2, <1>4 DEF Follows, Opens, Disturbs, SameThought
<1>6. PICK fv : fv = ArgsDone(ix, d)
  OBVIOUS
<1>7. fv.t = "argsDone" /\ fv.ix = ix /\ fv \in Events /\ (Knows(c, ix) => Fit(c, fv))
  BY <1>6 DEF ArgsDone, CoreEvent, Fit, Events, Stopped
<1>8. PICK p : p = ClientStep(c, fv)
  OBVIOUS
<1>9. Knows(c, ix) => Follows(c, p, fv) /\ Heeds(c, p, x, y)
  BY <1>7, <1>8, Hears
<1>10. Knows(c, ix) => SameThought(c, p)
  BY <1>7, <1>9 DEF Follows, Opens, Disturbs, SameThought
<1> QED BY <1>1, <1>2, <1>3, <1>4, <1>5, <1>6, <1>7, <1>8, <1>9, <1>10

LEMMA HearsLifecycle ==
    ASSUME NEW c, Good(c), NEW x, NEW y, Shows(c, x, y), NEW stop \in Stopped,
           NEW t \in {"created", "inProgress", "completed", "incomplete", "failed",
                      "itemAdded", "itemDone", "ping"}
    PROVE  LET q == ClientStep(c, Lifecycle(t, stop))
           IN  /\ Lifecycle(t, stop) \in Events
               /\ Heeds(c, q, x, y) /\ SameThought(c, q)
<1>1. PICK ev : ev = Lifecycle(t, stop)
  OBVIOUS
<1>2. ev.t = t /\ t \notin {"started", "textDelta", "argsDone", "blockDone"} /\ ev \in Events
  BY <1>1, EmptyText DEF Lifecycle, CoreEvent, Events
<1>3. Fit(c, ev)
  BY <1>2 DEF Fit
<1>4. PICK q : q = ClientStep(c, ev)
  OBVIOUS
<1>5. Follows(c, q, ev) /\ Heeds(c, q, x, y)
  BY <1>2, <1>3, <1>4, Hears
<1>6. SameThought(c, q)
  BY <1>2, <1>5 DEF Follows, Opens, Disturbs, SameThought
<1> QED BY <1>1, <1>2, <1>4, <1>5, <1>6

LEMMA HeardWhen ==
    ASSUME NEW c, NEW ev \in Events, NEW b
    PROVE  /\ When(b, <<ev>>) \in Seq(Events)
           /\ b => Heard(c, When(b, <<ev>>)) = ClientStep(c, ev)
           /\ ~b => Heard(c, When(b, <<ev>>)) = c
<1>1. <<ev>> \in Seq(Events) /\ <<>> \in Seq(Events)
  OBVIOUS
<1> QED BY <1>1, HeardOne, HeardNone DEF When

---------------------------------------------------------------------------
(* The Chat Completions provider *)

ChatConvs ==
    [open : BOOLEAN, started : BOOLEAN, block : Nat, reasoning : BOOLEAN, reasonIx : Nat,
     next : Nat, slots : Maps(Nat), callsStarted : SUBSET Nat]

\* The client knows every call that was started.
CallsKnown(s, q) == \A ix \in s.callsStarted : Knows(q, ix)

\* The client is in the block the converter is in, and thinks as it does.
Tuned(s, q) ==
    /\ s.reasoning => s.reasonIx = s.block
    /\ Thinks(q, s.block) <=> s.reasoning
    /\ \A ix \in Nat : ix > s.block => ~Thinks(q, ix)

\* So far into a chunk the client c has been shown these.
Loose(m, c, x, y) ==
    /\ m.st \in ChatConvs /\ m.out \in Seq(Events)
    /\ Heeds(c, Heard(c, m.out), x, y)
    /\ CallsKnown(m.st, Heard(c, m.out))
TunedTo(m, c) == Tuned(m.st, Heard(c, m.out))

\* A part of a chunk that emits these.
LEMMA Emits ==
    ASSUME NEW m, NEW c, NEW x, NEW y, Loose(m, c, x, y), NEW st \in ChatConvs,
           NEW events \in Seq(Events), NEW p, p = Heard(c, m.out), NEW q, q = Heard(p, events),
           NEW z, NEW w, Heeds(p, q, z, w), CallsKnown(st, q)
    PROVE  LET e == Emit(m, st, events)
           IN  Loose(e, c, z, w) /\ e.st = st /\ Heard(c, e.out) = q
<1>1. PICK e : e = Emit(m, st, events)
  OBVIOUS
<1>2. e.st = st /\ e.out = m.out \o events
  BY <1>1 DEF Emit
<1>3. PICK a : a = m.out
  OBVIOUS
<1>4. a \in Seq(Events)
  BY <1>3 DEF Loose
<1>5. a \o events \in Seq(Events)
  BY <1>4, ConcatProperties
<1>6. Heard(c, a \o events) = Heard(Heard(c, a), events)
  BY <1>4, HeardConcat
<1>7. Heeds(c, p, x, y)
  BY <1>3 DEF Loose
<1>8. Heeds(c, q, z, w)
  BY <1>7, HeedsThen
<1>9. Heard(c, e.out) = q
  BY <1>2, <1>3, <1>6
<1>10. Loose(e, c, z, w)
  BY <1>2, <1>3, <1>5, <1>8, <1>9 DEF Loose
<1> QED BY <1>1, <1>2, <1>9, <1>10

LEMMA KnownAfter ==
    ASSUME NEW s \in ChatConvs, NEW p, NEW q, CallsKnown(s, p), NEW x, NEW y, Heeds(p, q, x, y)
    PROVE  CallsKnown(s, q)
BY DEF CallsKnown, Heeds, KnownStay, ChatConvs

LEMMA ChatLifecycleKeeps ==
    ASSUME NEW local, NEW m, NEW c, NEW x, NEW y, Loose(m, c, x, y), NEW ch
    PROVE  LET e == ChatLifecycle(local, m, ch)
           IN  /\ Loose(e, c, x, y) /\ (TunedTo(m, c) => TunedTo(e, c))
               /\ e.st.reasoning = m.st.reasoning
<1>1. CASE local /\ ~m.st.open
  <2>1. PICK st : st = [m.st EXCEPT !.open = TRUE]
    OBVIOUS
  <2>2. st \in ChatConvs /\ st.callsStarted = m.st.callsStarted /\ st.reasoning = m.st.reasoning
        /\ st.block = m.st.block /\ st.reasonIx = m.st.reasonIx /\ m.st \in ChatConvs
    BY <2>1 DEF Loose, ChatConvs
  <2>3. PICK a, b : a = Lifecycle("created", "") /\ b = Lifecycle("inProgress", "")
    <3>1. PICK a : a = Lifecycle("created", "")
      OBVIOUS
    <3> QED BY <3>1
  <2>4. PICK p : p = Heard(c, m.out)
    OBVIOUS
  <2>5. Heeds(c, p, x, y) /\ CallsKnown(m.st, p) /\ "" \in Stopped
    BY <2>4 DEF Loose, Stopped
  <2>6. PICK p1 : p1 = ClientStep(p, a)
    OBVIOUS
  <2>7. a \in Events /\ Heeds(p, p1, x, y) /\ SameThought(p, p1)
    BY <2>3, <2>5, <2>6, HearsLifecycle DEF Heeds
  <2>8. PICK q : q = ClientStep(p1, b)
    OBVIOUS
  <2>9. b \in Events /\ Heeds(p1, q, x, y) /\ SameThought(p1, q)
    BY <2>3, <2>5, <2>7, <2>8, HearsLifecycle DEF Heeds
  <2>10. <<a, b>> \in Seq(Events) /\ Heard(p, <<a, b>>) = q
    BY <2>6, <2>7, <2>8, <2>9, HeardTwo
  <2>11. Heeds(p, q, x, y)
    BY <2>7, <2>9, HeedsThen
  <2>12. CallsKnown(st, q)
    BY <2>2, <2>5, <2>11, KnownAfter DEF CallsKnown
  <2>13. PICK e : e = ChatLifecycle(local, m, ch)
    OBVIOUS
  <2>14. e = Emit(m, st, <<a, b>>)
    BY <1>1, <2>1, <2>3, <2>13 DEF ChatLifecycle
  <2>15. Loose(e, c, x, y) /\ e.st = st /\ Heard(c, e.out) = q
    <3>1. PICK events : events = <<a, b>>
      OBVIOUS
    <3>2. events \in Seq(Events) /\ q = Heard(p, events) /\ e = Emit(m, st, events)
      BY <2>10, <2>14, <3>1
    <3> QED BY <2>2, <2>4, <2>11, <2>12, <3>2, Emits
  <2>16. TunedTo(m, c) => TunedTo(e, c)
    <3>1. \A ix \in Nat : Thinks(q, ix) <=> Thinks(p, ix)
      BY <2>7, <2>9 DEF SameThought
    <3>2. m.st.block \in Nat
      BY <2>2 DEF ChatConvs
    <3> QED BY <3>1, <3>2, <2>2, <2>4, <2>15 DEF TunedTo, Tuned
  <2> QED BY <2>2, <2>13, <2>15, <2>16
<1>2. CASE ~(local /\ ~m.st.open)
  BY <1>2 DEF ChatLifecycle
<1> QED BY <1>1, <1>2

LEMMA ChatRoleKeeps ==
    ASSUME NEW local, NEW m, NEW c, NEW x, NEW y, Loose(m, c, x, y), NEW ch
    PROVE  LET e == ChatRole(local, m, ch)
           IN  /\ Loose(e, c, x, y)
               /\ TunedTo(m, c) /\ (ch.role => ~m.st.reasoning) => TunedTo(e, c)
<1>1. CASE ~local /\ ~m.st.started /\ ch.role
  <2>1. PICK thinks : thinks = (ch.reason # <<>>)
    OBVIOUS
  <2>2. PICK s : s = m.st
    OBVIOUS
  <2>3. s \in ChatConvs /\ thinks \in BOOLEAN
    BY <2>1, <2>2 DEF Loose
  <2>4. PICK st : st = [s EXCEPT !.started = TRUE, !.reasoning = thinks \/ @,
                                 !.reasonIx = IF thinks THEN s.block ELSE @]
    OBVIOUS
  <2>5. /\ st \in ChatConvs /\ st.callsStarted = s.callsStarted /\ st.block = s.block
        /\ st.reasoning = (thinks \/ s.reasoning)
        /\ st.reasonIx = IF thinks THEN s.block ELSE s.reasonIx
    BY <2>3, <2>4 DEF ChatConvs
  <2>6. PICK ev : ev = Started(s.block, IF thinks THEN "reasoning" ELSE "text")
    OBVIOUS
  <2>7. PICK p : p = Heard(c, m.out)
    OBVIOUS
  <2>8. Heeds(c, p, x, y) /\ CallsKnown(s, p) /\ s.block \in Nat
    BY <2>2, <2>3, <2>7 DEF Loose, ChatConvs
  <2>9. PICK q : q = ClientStep(p, ev)
    OBVIOUS
  <2>10. /\ ev \in Events /\ Heeds(p, q, x, y) /\ SameThoughtBut(p, q, s.block)
         /\ thinks => Thinks(q, s.block)
         /\ ~thinks => NoNewThought(p, q)
    <3>1. Good(p) /\ Shows(p, x, y)
      BY <2>8 DEF Heeds
    <3>2. CASE thinks
      BY <2>6, <2>8, <2>9, <3>1, <3>2, HearsStartedReasoning
    <3>3. CASE ~thinks
      BY <2>6, <2>8, <2>9, <3>1, <3>3, HearsStartedText
    <3> QED BY <2>3, <3>2, <3>3
  <2>11. <<ev>> \in Seq(Events) /\ Heard(p, <<ev>>) = q
    BY <2>9, <2>10, HeardOne
  <2>12. CallsKnown(st, q)
    BY <2>3, <2>5, <2>8, <2>10, KnownAfter DEF CallsKnown
  <2>13. PICK e : e = ChatRole(local, m, ch)
    OBVIOUS
  <2>14. e = Emit(m, st, <<ev>>)
    BY <1>1, <2>1, <2>2, <2>4, <2>6, <2>13 DEF ChatRole
  <2>15. Loose(e, c, x, y) /\ e.st = st /\ Heard(c, e.out) = q
    <3>1. PICK events : events = <<ev>>
      OBVIOUS
    <3>2. events \in Seq(Events) /\ q = Heard(p, events) /\ e = Emit(m, st, events)
      BY <2>11, <2>14, <3>1
    <3> QED BY <2>5, <2>7, <2>10, <2>12, <3>2, Emits
  <2>16. ASSUME TunedTo(m, c), ~s.reasoning PROVE TunedTo(e, c)
    <3>1. ~Thinks(p, s.block) /\ \A ix \in Nat : ix > s.block => ~Thinks(p, ix)
      BY <2>2, <2>7, <2>16 DEF TunedTo, Tuned
    <3>2. \A ix \in Nat : ix > s.block => ~Thinks(q, ix)
      BY <2>8, <2>10, <3>1 DEF SameThoughtBut
    <3>3. Thinks(q, s.block) <=> thinks
      BY <2>3, <2>8, <2>10, <3>1 DEF NoNewThought
    <3>4. (st.reasoning => thinks) /\ (thinks => st.reasoning) /\ (thinks => st.reasonIx = st.block)
      BY <2>3, <2>5, <2>16
    <3> QED BY <2>5, <2>15, <3>2, <3>3, <3>4 DEF TunedTo, Tuned
  <2> QED BY <1>1, <2>2, <2>13, <2>15, <2>16
<1>2. CASE ~(~local /\ ~m.st.started /\ ch.role)
  BY <1>2 DEF ChatRole
<1> QED BY <1>1, <1>2

LEMMA HearsBlockDone ==
    ASSUME NEW c, Good(c), NEW x, NEW y, Shows(c, x, y), NEW ix \in Nat
    PROVE  LET q == ClientStep(c, BlockDone(ix))
           IN  /\ BlockDone(ix) \in Events
               /\ Heeds(c, q, x, y) /\ NoNewThought(c, q) /\ SameThoughtBut(c, q, ix)
<1>1. BlockDone(ix) = DoneWith(ix, "") /\ "" \in Stopped
  BY DEF BlockDone, DoneWith, Stopped
<1> QED BY <1>1, HearsDone

\* A block that is closed under a condition, and one that is opened.
LEMMA Closes ==
    ASSUME NEW c, Good(c), NEW x, NEW y, Shows(c, x, y), NEW ix \in Nat, NEW b,
           NEW q, q = Heard(c, When(b, <<BlockDone(ix)>>))
    PROVE  /\ When(b, <<BlockDone(ix)>>) \in Seq(Events)
           /\ Heeds(c, q, x, y) /\ NoNewThought(c, q)
<1>1. PICK ev : ev = BlockDone(ix)
  OBVIOUS
<1>2. ev \in Events /\ Heeds(c, ClientStep(c, ev), x, y) /\ NoNewThought(c, ClientStep(c, ev))
  BY <1>1, HearsBlockDone
<1>3. /\ When(b, <<ev>>) \in Seq(Events)
      /\ b => Heard(c, When(b, <<ev>>)) = ClientStep(c, ev)
      /\ ~b => Heard(c, When(b, <<ev>>)) = c
  BY <1>2, HeardWhen
<1>4. Heeds(c, c, x, y) /\ NoNewThought(c, c)
  BY DEF Heeds, KnownStay, NoNewThought
<1> QED BY <1>1, <1>2, <1>3, <1>4

LEMMA OpensText ==
    ASSUME NEW c, Good(c), NEW x, NEW y, Shows(c, x, y), NEW ix \in Nat, NEW b,
           NEW q, q = Heard(c, When(b, <<Started(ix, "text")>>))
    PROVE  /\ When(b, <<Started(ix, "text")>>) \in Seq(Events)
           /\ Heeds(c, q, x, y) /\ NoNewThought(c, q)
<1>1. PICK ev : ev = Started(ix, "text")
  OBVIOUS
<1>2. ev \in Events /\ Heeds(c, ClientStep(c, ev), x, y) /\ NoNewThought(c, ClientStep(c, ev))
  BY <1>1, HearsStartedText
<1>3. /\ When(b, <<ev>>) \in Seq(Events)
      /\ b => Heard(c, When(b, <<ev>>)) = ClientStep(c, ev)
      /\ ~b => Heard(c, When(b, <<ev>>)) = c
  BY <1>2, HeardWhen
<1>4. Heeds(c, c, x, y) /\ NoNewThought(c, c)
  BY DEF Heeds, KnownStay, NoNewThought
<1> QED BY <1>1, <1>2, <1>3, <1>4

LEMMA HeardBoth ==
    ASSUME NEW c, NEW a \in Seq(Events), NEW b \in Seq(Events)
    PROVE  a \o b \in Seq(Events) /\ Heard(c, a \o b) = Heard(Heard(c, a), b)
BY HeardConcat, ConcatProperties

\* Three slices of events, the last of them one event.
LEMMA HeardThree ==
    ASSUME NEW c, NEW a \in Seq(Events), NEW b \in Seq(Events), NEW ev \in Events
    PROVE  /\ (a \o b) \o <<ev>> \in Seq(Events)
           /\ Heard(c, (a \o b) \o <<ev>>) = ClientStep(Heard(Heard(c, a), b), ev)
<1>1. PICK s : s = a \o b
  OBVIOUS
<1>2. s \in Seq(Events) /\ Heard(c, s) = Heard(Heard(c, a), b)
  BY <1>1, HeardConcat, ConcatProperties
<1>3. Append(s, ev) = s \o <<ev>> /\ Append(s, ev) \in Seq(Events)
  BY <1>2, AppendIsConcat, AppendProperties
<1>4. Heard(c, Append(s, ev)) = ClientStep(Heard(c, s), ev)
  BY <1>2, HeardAppend
<1> QED BY <1>1, <1>2, <1>3, <1>4

LEMMA HeardMiddle ==
    ASSUME NEW c, NEW a \in Seq(Events), NEW ev \in Events, NEW b \in Seq(Events)
    PROVE  /\ (a \o <<ev>>) \o b \in Seq(Events)
           /\ Heard(c, (a \o <<ev>>) \o b) = Heard(ClientStep(Heard(c, a), ev), b)
<1>1. PICK g : g = <<ev>>
  OBVIOUS
<1>2. g \in Seq(Events) /\ \A p : Heard(p, g) = ClientStep(p, ev)
  BY <1>1, HeardOne
<1>3. PICK h : h = a \o g
  OBVIOUS
<1>4. h \in Seq(Events) /\ Heard(c, h) = Heard(Heard(c, a), g)
  BY <1>2, <1>3, HeardBoth
<1>5. h \o b \in Seq(Events) /\ Heard(c, h \o b) = Heard(Heard(c, h), b)
  BY <1>4, HeardBoth
<1> QED BY <1>1, <1>2, <1>3, <1>4, <1>5

LEMMA ChatReasoningKeeps ==
    ASSUME NEW local, NEW m, NEW c, NEW x, NEW y, Loose(m, c, x, y), NEW ch, ch.reason \in Texts,
           ch.reason = <<>> \/ TunedTo(m, c)
    PROVE  LET e == ChatReasoning(local, m, ch)
           IN  Loose(e, c, x, y \o ch.reason) /\ (TunedTo(m, c) => TunedTo(e, c))
<1>1. PICK s, p : s = m.st /\ p = Heard(c, m.out)
  <2>1. PICK s : s = m.st
    OBVIOUS
  <2> QED BY <2>1
<1>2. /\ s \in ChatConvs /\ Heeds(c, p, x, y) /\ CallsKnown(s, p) /\ Good(p) /\ Shows(p, x, y)
      /\ s.block \in Nat /\ s.reasoning \in BOOLEAN
  BY <1>1 DEF Loose, ChatConvs, Heeds
<1>3. CASE ch.reason = <<>>
  <2>1. ChatReasoning(local, m, ch) = m
    BY <1>3 DEF ChatReasoning
  <2>2. y \o <<>> = y
    BY <1>2, ShowsTyped
  <2> QED BY <1>3, <2>1, <2>2
<1>4. CASE ch.reason # <<>> /\ s.reasoning
  <2>1. s.reasonIx = s.block /\ Thinks(p, s.block) /\ \A ix \in Nat : ix > s.block => ~Thinks(p, ix)
    BY <1>1, <1>4 DEF TunedTo, Tuned
  <2>2. PICK ev : ev = TextDelta(s.reasonIx, ch.reason)
    OBVIOUS
  <2>3. PICK q : q = ClientStep(p, ev)
    OBVIOUS
  <2>4. ev \in Events /\ Heeds(p, q, x, y \o ch.reason) /\ SameThought(p, q)
    BY <1>2, <2>1, <2>2, <2>3, HearsText
  <2>5. PICK events : events = <<ev>>
    OBVIOUS
  <2>6. events \in Seq(Events) /\ q = Heard(p, events)
    BY <2>3, <2>4, <2>5, HeardOne
  <2>7. CallsKnown(s, q)
    BY <1>2, <2>4, KnownAfter
  <2>8. PICK e : e = ChatReasoning(local, m, ch)
    OBVIOUS
  <2>9. e = Emit(m, s, events)
    <3>1. Append(<<>>, ev) = <<ev>>
      OBVIOUS
    <3> QED BY <1>1, <1>4, <2>2, <2>5, <2>8, <3>1 DEF ChatReasoning, Quiet
  <2>10. Loose(e, c, x, y \o ch.reason) /\ e.st = s /\ Heard(c, e.out) = q
    <3>1. PICK z : z = y \o ch.reason
      OBVIOUS
    <3>2. Heeds(p, q, x, z) /\ p = Heard(c, m.out) /\ s \in ChatConvs
      BY <1>1, <1>2, <2>4, <3>1
    <3>3. Loose(e, c, x, z) /\ e.st = s /\ Heard(c, e.out) = q
      BY <2>6, <2>7, <2>9, <3>2, Emits
    <3> QED BY <3>1, <3>3
  <2>11. TunedTo(e, c)
    BY <1>2, <1>4, <2>1, <2>4, <2>10 DEF TunedTo, Tuned, SameThought
  <2> QED BY <2>8, <2>10, <2>11
<1>5. CASE ch.reason # <<>> /\ ~s.reasoning
  <2>1. \A ix \in Nat : ix > s.block => ~Thinks(p, ix)
    BY <1>1, <1>5 DEF TunedTo, Tuned
  <2>2. PICK at : at = IF local /\ ~s.started THEN s.block ELSE s.block + 1
    OBVIOUS
  <2>3. at \in Nat /\ at >= s.block
    BY <1>2, <2>2
  <2>4. PICK st : st = [s EXCEPT !.block = at, !.reasonIx = at, !.reasoning = TRUE,
                                 !.started = local \/ @]
    OBVIOUS
  <2>5. /\ st \in ChatConvs /\ st.callsStarted = s.callsStarted
        /\ st.block = at /\ st.reasonIx = at /\ st.reasoning
    BY <1>2, <2>3, <2>4 DEF ChatConvs
  <2>6. PICK a : a = When(~local, <<BlockDone(at)>>)
    OBVIOUS
  <2>7. PICK b : b = When(local /\ s.started, <<BlockDone(s.block)>>)
    OBVIOUS
  <2>8. PICK p1 : p1 = Heard(p, a)
    OBVIOUS
  <2>9. a \in Seq(Events) /\ Heeds(p, p1, x, y) /\ NoNewThought(p, p1)
    BY <1>2, <2>3, <2>6, <2>8, Closes
  <2>10. PICK p2 : p2 = Heard(p1, b)
    OBVIOUS
  <2>11. b \in Seq(Events) /\ Heeds(p1, p2, x, y) /\ NoNewThought(p1, p2)
    <3>1. Good(p1) /\ Shows(p1, x, y)
      BY <2>9 DEF Heeds
    <3> QED BY <1>2, <3>1, <2>7, <2>10, Closes
  <2>12. PICK es : es = Started(at, "reasoning")
    OBVIOUS
  <2>13. PICK p3 : p3 = ClientStep(p2, es)
    OBVIOUS
  <2>14. es \in Events /\ Heeds(p2, p3, x, y) /\ Thinks(p3, at) /\ SameThoughtBut(p2, p3, at)
    <3>1. Good(p2) /\ Shows(p2, x, y)
      BY <2>11 DEF Heeds
    <3> QED BY <3>1, <2>3, <2>12, <2>13, HearsStartedReasoning
  <2>15. PICK ev : ev = TextDelta(at, ch.reason)
    OBVIOUS
  <2>16. PICK q : q = ClientStep(p3, ev)
    OBVIOUS
  <2>17. ev \in Events /\ Heeds(p3, q, x, y \o ch.reason) /\ SameThought(p3, q)
    <3>1. Good(p3) /\ Shows(p3, x, y)
      BY <2>14 DEF Heeds
    <3> QED BY <3>1, <2>3, <2>14, <2>15, <2>16, HearsText
  <2>18. PICK h : h = (a \o b) \o <<es>>
    OBVIOUS
  <2>19. h \in Seq(Events) /\ Heard(p, h) = p3
    BY <2>8, <2>9, <2>10, <2>11, <2>13, <2>14, <2>18, HeardThree
  <2>20. PICK events : events = Append(h, ev)
    OBVIOUS
  <2>21. events \in Seq(Events) /\ q = Heard(p, events)
    BY <2>16, <2>17, <2>19, <2>20, HeardAppend, AppendProperties
  <2>22. Heeds(p, q, x, y \o ch.reason)
    <3>1. Heeds(p, p2, x, y)
      BY <2>9, <2>11, HeedsThen
    <3>2. Heeds(p, p3, x, y)
      BY <2>14, <3>1, HeedsThen
    <3> QED BY <2>17, <3>2, HeedsThen
  <2>23. CallsKnown(st, q)
    BY <1>2, <2>5, <2>22, KnownAfter DEF CallsKnown
  <2>24. PICK e : e = ChatReasoning(local, m, ch)
    OBVIOUS
  <2>25. e = Emit(m, st, events)
    <3>1. ChatReasoningOpen(local, s) = [st |-> st, out |-> h]
      BY <2>2, <2>4, <2>6, <2>7, <2>12, <2>18 DEF ChatReasoningOpen
    <3>2. PICK o : o = ChatReasoningOpen(local, s)
      OBVIOUS
    <3>3. e = Emit(m, o.st, Append(o.out, TextDelta(o.st.reasonIx, ch.reason)))
      BY <1>1, <1>5, <2>24, <3>2 DEF ChatReasoning
    <3>4. o.st = st /\ o.out = h
      BY <3>1, <3>2
    <3> QED BY <2>5, <2>15, <2>20, <3>3, <3>4
  <2>26. Loose(e, c, x, y \o ch.reason) /\ e.st = st /\ Heard(c, e.out) = q
    BY <1>1, <2>5, <2>21, <2>22, <2>23, <2>25, Emits
  <2>27. TunedTo(e, c)
    <3>1. Thinks(q, at)
      BY <2>3, <2>14, <2>17 DEF SameThought
    <3>2. \A ix \in Nat : ix > at => ~Thinks(q, ix)
      <4>1. \A ix \in Nat : ix > at => ~Thinks(p2, ix)
        BY <1>2, <2>1, <2>3, <2>9, <2>11 DEF NoNewThought
      <4>2. \A ix \in Nat : ix > at => ~Thinks(p3, ix)
        BY <2>3, <2>14, <4>1 DEF SameThoughtBut
      <4> QED BY <2>17, <4>2 DEF SameThought
    <3> QED BY <2>5, <2>26, <3>1, <3>2 DEF TunedTo, Tuned
  <2> QED BY <2>24, <2>26, <2>27
<1> QED BY <1>2, <1>3, <1>4, <1>5

LEMMA ChatContentKeeps ==
    ASSUME NEW local, NEW m, NEW c, NEW x, NEW y, Loose(m, c, x, y), NEW ch, ch.content \in Texts,
           ch.content = <<>> \/ TunedTo(m, c)
    PROVE  LET e == ChatContent(local, m, ch)
           IN  Loose(e, c, x \o ch.content, y) /\ (TunedTo(m, c) => TunedTo(e, c))
<1>1. PICK s, p : s = m.st /\ p = Heard(c, m.out)
  <2>1. PICK s : s = m.st
    OBVIOUS
  <2> QED BY <2>1
<1>2. /\ s \in ChatConvs /\ Heeds(c, p, x, y) /\ CallsKnown(s, p) /\ Good(p) /\ Shows(p, x, y)
      /\ s.block \in Nat /\ s.reasonIx \in Nat /\ s.reasoning \in BOOLEAN
  BY <1>1 DEF Loose, ChatConvs, Heeds
<1>3. CASE ch.content = <<>>
  <2>1. ChatContent(local, m, ch) = m
    BY <1>3 DEF ChatContent
  <2>2. x \o <<>> = x
    BY <1>2, ShowsTyped
  <2> QED BY <1>3, <2>1, <2>2
<1>4. CASE ch.content # <<>>
  <2>1. /\ s.reasoning => s.reasonIx = s.block
        /\ Thinks(p, s.block) <=> s.reasoning
        /\ \A ix \in Nat : ix > s.block => ~Thinks(p, ix)
    BY <1>1, <1>4 DEF TunedTo, Tuned
  <2>2. PICK at : at = IF s.reasoning THEN s.reasonIx + 1 ELSE s.block
    OBVIOUS
  <2>3. at \in Nat /\ ~Thinks(p, at) /\ \A ix \in Nat : ix > at => ~Thinks(p, ix)
    <3>1. at \in Nat /\ (s.reasoning => at > s.block) /\ (~s.reasoning => at = s.block)
      BY <1>2, <2>1, <2>2
    <3> QED BY <1>2, <2>1, <3>1
  <2>4. PICK st : st = [s EXCEPT !.block = at, !.reasoning = FALSE, !.started = local \/ @]
    OBVIOUS
  <2>5. /\ st \in ChatConvs /\ st.callsStarted = s.callsStarted
        /\ st.block = at /\ ~st.reasoning
    BY <1>2, <2>3, <2>4 DEF ChatConvs
  <2>6. PICK a : a = When(s.reasoning, <<BlockDone(s.reasonIx)>>)
    OBVIOUS
  <2>7. PICK opens : opens = (s.reasoning \/ (local /\ ~s.started))
    OBVIOUS
  <2>8. PICK b : b = When(opens, <<Started(at, "text")>>)
    OBVIOUS
  <2>9. PICK p1 : p1 = Heard(p, a)
    OBVIOUS
  <2>10. a \in Seq(Events) /\ Heeds(p, p1, x, y) /\ NoNewThought(p, p1)
    BY <1>2, <2>6, <2>9, Closes
  <2>11. PICK p2 : p2 = Heard(p1, b)
    OBVIOUS
  <2>12. b \in Seq(Events) /\ Heeds(p1, p2, x, y) /\ NoNewThought(p1, p2)
    <3>1. Good(p1) /\ Shows(p1, x, y)
      BY <2>10 DEF Heeds
    <3> QED BY <2>3, <3>1, <2>8, <2>11, OpensText
  <2>13. PICK ev : ev = TextDelta(at, ch.content)
    OBVIOUS
  <2>14. PICK q : q = ClientStep(p2, ev)
    OBVIOUS
  <2>15. ~Thinks(p2, at) /\ \A ix \in Nat : ix > at => ~Thinks(p2, ix)
    BY <2>3, <2>10, <2>12 DEF NoNewThought
  <2>16. ev \in Events /\ Heeds(p2, q, x \o ch.content, y) /\ SameThought(p2, q)
    <3>1. Good(p2) /\ Shows(p2, x, y)
      BY <2>12 DEF Heeds
    <3> QED BY <3>1, <2>3, <2>13, <2>14, <2>15, HearsText
  <2>17. PICK events : events = (a \o b) \o <<ev>>
    OBVIOUS
  <2>18. events \in Seq(Events) /\ q = Heard(p, events)
    BY <2>9, <2>10, <2>11, <2>12, <2>14, <2>16, <2>17, HeardThree
  <2>19. Heeds(p, q, x \o ch.content, y)
    <3>1. Heeds(p, p2, x, y)
      BY <2>10, <2>12, HeedsThen
    <3> QED BY <2>16, <3>1, HeedsThen
  <2>20. CallsKnown(st, q)
    BY <1>2, <2>5, <2>19, KnownAfter DEF CallsKnown
  <2>21. PICK e : e = ChatContent(local, m, ch)
    OBVIOUS
  <2>22. e = Emit(m, st, events)
    BY <1>1, <1>4, <2>2, <2>4, <2>6, <2>7, <2>8, <2>13, <2>17, <2>21 DEF ChatContent
  <2>23. Loose(e, c, x \o ch.content, y) /\ e.st = st /\ Heard(c, e.out) = q
    BY <1>1, <2>5, <2>18, <2>19, <2>20, <2>22, Emits
  <2>24. TunedTo(e, c)
    BY <2>3, <2>5, <2>15, <2>16, <2>23 DEF TunedTo, Tuned, SameThought
  <2> QED BY <2>21, <2>23, <2>24
<1> QED BY <1>3, <1>4

CallDeltas == [pos : Nat, name : {"", "tool", "nested"}, args : Texts]

\* ChatCall once its memory s and its slot are known.
CallFrom(m, call, s, slot) ==
    LET names == call.name # "" /\ slot \notin s.callsStarted
        known == names \/ slot \in s.callsStarted IN
    Emit(m, [s EXCEPT !.slots = Put(@, call.pos, slot),
                      !.next = IF ~Has(s.slots, call.pos) THEN @ + 1 ELSE @,
                      !.callsStarted = IF names THEN @ \cup {slot} ELSE @],
         When(names, <<Started(slot, call.name)>>)
         \o When(known /\ call.args # <<>>, <<ArgsDelta(slot, call.args)>>))

LEMMA ChatCallIs ==
    \A m, call :
      LET s == IF m.st.slots = NoMap THEN [m.st EXCEPT !.next = m.st.block + 1] ELSE m.st
      IN  ChatCall(m, call) = CallFrom(m, call, s, Lookup(s.slots, call.pos, s.next))
<1> SUFFICES ASSUME NEW m, NEW call
             PROVE  LET s == IF m.st.slots = NoMap THEN [m.st EXCEPT !.next = m.st.block + 1]
                             ELSE m.st
                    IN  ChatCall(m, call) = CallFrom(m, call, s, Lookup(s.slots, call.pos, s.next))
  OBVIOUS
<1> QED BY DEF ChatCall, CallFrom

LEMMA ChatCallKeeps ==
    ASSUME NEW m, NEW c, NEW x, NEW y, Loose(m, c, x, y), NEW call \in CallDeltas
    PROVE  Loose(ChatCall(m, call), c, x, y)
<1>0. call.pos \in Nat /\ call.name \in {"", "tool", "nested"} /\ call.args \in Texts
  BY DEF CallDeltas
<1>1. PICK s : s = IF m.st.slots = NoMap THEN [m.st EXCEPT !.next = m.st.block + 1] ELSE m.st
  OBVIOUS
<1>2. s \in ChatConvs /\ s.callsStarted = m.st.callsStarted
  <2>1. PICK o : o = m.st
    OBVIOUS
  <2>2. o \in ChatConvs
    BY <2>1 DEF Loose
  <2>3. PICK r : r = [o EXCEPT !.next = o.block + 1]
    OBVIOUS
  <2>4. r \in ChatConvs /\ r.callsStarted = o.callsStarted
    <3>1. o.block + 1 \in Nat
      BY <2>2 DEF ChatConvs
    <3> QED BY <2>2, <2>3, <3>1 DEF ChatConvs
  <2>5. s = o \/ s = r
    BY <1>1, <2>1, <2>3
  <2> QED BY <2>1, <2>2, <2>4, <2>5
<1>3. PICK slot : slot = Lookup(s.slots, call.pos, s.next)
  OBVIOUS
<1>4. s.slots \in Maps(Nat) /\ s.next \in Nat /\ s.callsStarted \subseteq Nat
  BY <1>2 DEF ChatConvs
<1>5. slot \in Nat
  BY <1>3, <1>4, LookupTyped
<1>6. PICK names : names = (call.name # "" /\ slot \notin s.callsStarted)
  OBVIOUS
<1>7. PICK known : known = (names \/ slot \in s.callsStarted)
  OBVIOUS
<1>8. PICK slots : slots = Put(s.slots, call.pos, slot)
  OBVIOUS
<1>9. slots \in Maps(Nat)
  BY <1>0, <1>4, <1>5, <1>8, PutFacts DEF IsPut
<1>10. PICK next : next = IF ~Has(s.slots, call.pos) THEN s.next + 1 ELSE s.next
  OBVIOUS
<1>11. PICK started : started = IF names THEN s.callsStarted \cup {slot} ELSE s.callsStarted
  OBVIOUS
<1>s. PICK st : st = [s EXCEPT !.slots = slots, !.next = next, !.callsStarted = started]
  OBVIOUS
<1>t. st \in ChatConvs /\ st.callsStarted = started
  <2>1. next \in Nat
    BY <1>4, <1>10
  <2>2. started \in SUBSET Nat
    BY <1>4, <1>5, <1>11
  <2> QED BY <1>2, <1>9, <1>s, <2>1, <2>2 DEF ChatConvs
<1>12. PICK p : p = Heard(c, m.out)
  OBVIOUS
<1>13. Heeds(c, p, x, y) /\ CallsKnown(s, p) /\ Good(p) /\ Shows(p, x, y)
  BY <1>2, <1>12 DEF Loose, CallsKnown, Heeds
<1>14. PICK ev : ev = Started(slot, call.name)
  OBVIOUS
<1>15. PICK a : a = When(names, <<ev>>)
  OBVIOUS
<1>16. PICK p1 : p1 = Heard(p, a)
  OBVIOUS
<1>17. a \in Seq(Events) /\ Heeds(p, p1, x, y) /\ (names => Knows(p1, slot))
  <2>1. CASE names
    <3>1. call.name \in {"tool", "nested"}
      BY <1>0, <1>6, <2>1
    <3>2. ev \in Events /\ Heeds(p, ClientStep(p, ev), x, y) /\ Knows(ClientStep(p, ev), slot)
      BY <1>5, <1>13, <1>14, <3>1, HearsStartedTool
    <3>3. a \in Seq(Events) /\ p1 = ClientStep(p, ev)
      BY <1>15, <1>16, <2>1, <3>2, HeardWhen
    <3> QED BY <3>2, <3>3
  <2>2. CASE ~names
    <3>1. ev \in Events
      BY <1>0, <1>5, <1>14, EmptyText DEF Started, CoreEvent, Events, Stopped
    <3>2. a \in Seq(Events) /\ p1 = p
      BY <1>15, <1>16, <2>2, <3>1, HeardWhen
    <3> QED BY <1>13, <2>2, <3>2 DEF Heeds, KnownStay
  <2> QED BY <2>1, <2>2
<1>18. Good(p1) /\ Shows(p1, x, y)
  BY <1>17 DEF Heeds
<1>19. PICK fv : fv = ArgsDelta(slot, call.args)
  OBVIOUS
<1>20. fv \in Events /\ Heeds(p1, ClientStep(p1, fv), x, y)
  BY <1>0, <1>5, <1>18, <1>19, HearsArgs
<1>21. PICK b : b = When(known /\ call.args # <<>>, <<fv>>)
  OBVIOUS
<1>22. PICK q : q = Heard(p1, b)
  OBVIOUS
<1>23. b \in Seq(Events) /\ (q = ClientStep(p1, fv) \/ q = p1)
  BY <1>20, <1>21, <1>22, HeardWhen
<1>24. Heeds(p1, q, x, y)
  BY <1>18, <1>20, <1>23 DEF Heeds, KnownStay
<1>25. Heeds(p, q, x, y)
  BY <1>17, <1>24, HeedsThen
<1>26. CallsKnown(st, q)
  <2>1. CallsKnown(s, q)
    BY <1>2, <1>13, <1>25, KnownAfter
  <2>2. names => Knows(q, slot)
    BY <1>5, <1>17, <1>24 DEF Heeds, KnownStay
  <2> QED BY <1>11, <1>t, <2>1, <2>2 DEF CallsKnown
<1>27. PICK events : events = a \o b
  OBVIOUS
<1>28. events \in Seq(Events) /\ q = Heard(p, events)
  <2>1. a \in Seq(Events) /\ b \in Seq(Events)
    BY <1>17, <1>23
  <2> QED BY <1>16, <1>22, <1>27, <2>1, HeardBoth
<1>29. PICK e : e = ChatCall(m, call)
  OBVIOUS
<1>30. e = Emit(m, st, events)
  <2> DEFINE naming == call.name # "" /\ slot \notin s.callsStarted
  <2>1. e = Emit(m, [s EXCEPT !.slots = Put(@, call.pos, slot),
                              !.next = IF ~Has(s.slots, call.pos) THEN @ + 1 ELSE @,
                              !.callsStarted = IF naming THEN @ \cup {slot} ELSE @],
                    When(naming, <<Started(slot, call.name)>>)
                    \o When((naming \/ slot \in s.callsStarted) /\ call.args # <<>>,
                            <<ArgsDelta(slot, call.args)>>))
    <3>1. e = CallFrom(m, call, s, slot)
      BY <1>1, <1>3, <1>29, ChatCallIs, Zenon
    <3> QED BY <3>1, Zenon DEF CallFrom
  <2>2. [s EXCEPT !.slots = Put(@, call.pos, slot),
                  !.next = IF ~Has(s.slots, call.pos) THEN @ + 1 ELSE @,
                  !.callsStarted = IF naming THEN @ \cup {slot} ELSE @] = st
    BY <1>2, <1>6, <1>8, <1>10, <1>11, <1>s DEF ChatConvs
  <2>3. When(naming, <<Started(slot, call.name)>>)
        \o When((naming \/ slot \in s.callsStarted) /\ call.args # <<>>,
                <<ArgsDelta(slot, call.args)>>) = events
    BY <1>6, <1>7, <1>14, <1>15, <1>19, <1>21, <1>27 DEF When
  <2> QED BY <2>1, <2>2, <2>3, Zenon
<1>31. Loose(e, c, x, y)
  BY <1>t, <1>12, <1>25, <1>26, <1>28, <1>30, Emits
<1> QED BY <1>29, <1>31

\* A chunk of this model carries one call at most.
LEMMA ChatCalledNone == \A m : ChatCalled(m, <<>>) = m
<1> SUFFICES ASSUME NEW m PROVE ChatCalled(m, <<>>) = m
  OBVIOUS
<1>1. Len(<<>>) = 0
  OBVIOUS
<1>2. PICK f : f = [n \in 0..0 |-> m]
  OBVIOUS
<1>3. f = [n \in 0..0 |-> IF n = 0 THEN m ELSE ChatCall(f[n - 1], <<>>[n])]
  BY <1>2
<1> DEFINE Is(g) == g = [n \in 0..0 |-> IF n = 0 THEN m ELSE ChatCall(g[n - 1], <<>>[n])]
<1>4. ChatCalledUpTo(m, <<>>) = CHOOSE g : Is(g)
  BY <1>1, Zenon DEF ChatCalledUpTo
<1>5. Is(CHOOSE g : Is(g))
  BY <1>3, Zenon
<1>6. ChatCalledUpTo(m, <<>>)[0] = m
  BY <1>4, <1>5
<1> QED BY <1>1, <1>6 DEF ChatCalled

LEMMA ChatCalledOne == \A m, call : ChatCalled(m, <<call>>) = ChatCall(m, call)
<1> SUFFICES ASSUME NEW m, NEW call PROVE ChatCalled(m, <<call>>) = ChatCall(m, call)
  OBVIOUS
<1>0. PICK calls : calls = <<call>>
  OBVIOUS
<1>1. Len(calls) = 1 /\ calls[1] = call
  BY <1>0
<1>2. PICK f : f = [n \in 0..1 |-> IF n = 0 THEN m ELSE ChatCall(m, call)]
  OBVIOUS
<1> DEFINE Is(g) == g = [n \in 0..1 |-> IF n = 0 THEN m ELSE ChatCall(g[n - 1], calls[n])]
<1>3. Is(f)
  <2>1. \A n \in 0..1 : n # 0 => n = 1 /\ f[n - 1] = m /\ calls[n] = call
    BY <1>1, <1>2
  <2> QED BY <1>2, <2>1
<1>4. ChatCalledUpTo(m, calls) = CHOOSE g : Is(g)
  BY <1>1, Zenon DEF ChatCalledUpTo
<1>5. Is(CHOOSE g : Is(g))
  BY <1>3, Zenon
<1>6. PICK g : g = ChatCalledUpTo(m, calls)
  OBVIOUS
<1>7. Is(g)
  BY <1>4, <1>5, <1>6
<1>8. g[0] = m /\ g[1] = ChatCall(g[1 - 1], calls[1]) /\ 1 - 1 = 0
  BY <1>7
<1> QED BY <1>0, <1>1, <1>6, <1>8 DEF ChatCalled

\* Slices of events one after the other: what each keeps, all keep together.
Flattened(e, n) == FlattenSeq([k \in 1..n |-> e[k]])

LEMMA FlattenNext ==
    ASSUME NEW S, NEW L \in Nat, NEW e \in [1..L -> Seq(S)], NEW n \in 0..(L - 1)
    PROVE  /\ Flattened(e, n) \in Seq(S)
           /\ Flattened(e, n + 1) = Flattened(e, n) \o e[n + 1]
<1>1. PICK s : s = [k \in 1..n |-> e[k]]
  OBVIOUS
<1>2. PICK t : t = [k \in 1..(n + 1) |-> e[k]]
  OBVIOUS
<1>3. s \in [1..n -> Seq(S)] /\ t \in [1..(n + 1) -> Seq(S)] /\ n \in Nat /\ n + 1 \in Nat
  BY <1>1, <1>2
<1>4. s \in Seq(Seq(S)) /\ Len(s) = n
  BY <1>3, ListTyped
<1>5. t \in Seq(Seq(S)) /\ Len(t) = n + 1
  BY <1>3, ListTyped
<1>6. PICK x : x = e[n + 1]
  OBVIOUS
<1>7. x \in Seq(S)
  BY <1>6
<1>8. PICK u : u = Append(s, x)
  OBVIOUS
<1>9. u \in Seq(Seq(S))
  BY <1>4, <1>7, <1>8, AppendProperties
<1>10. Len(u) = n + 1 /\ u[n + 1] = x
  BY <1>4, <1>7, <1>8, AppendProperties
<1>11. \A k \in 1..n : u[k] = s[k]
  BY <1>4, <1>7, <1>8, AppendProperties
<1>12. \A k \in 1..(n + 1) : u[k] = t[k]
  BY <1>1, <1>2, <1>3, <1>6, <1>10, <1>11
<1>13. u = t
  BY <1>5, <1>9, <1>10, <1>12, SeqEqual
<1>14. FlattenSeq(s) \in Seq(S) /\ FlattenSeq(Append(s, x)) = FlattenSeq(s) \o x
  BY <1>4, <1>7, FlattenAppend
<1> QED BY <1>1, <1>2, <1>6, <1>8, <1>13, <1>14 DEF Flattened

LEMMA FlattenedTexts ==
    ASSUME NEW L \in Nat, NEW e \in [1..L -> Seq(Pieces)]
    PROVE  \A n \in 0..(L - 1) : Flattened(e, n + 1) = Flattened(e, n) \o e[n + 1]
BY FlattenNext

LEMMA FlattenedNone == \A e : Flattened(e, 0) = <<>>
<1>1. ASSUME NEW e PROVE [k \in 1..0 |-> e[k]] = <<>>
  OBVIOUS
<1> QED BY <1>1, FlattenNone DEF Flattened

LEMMA HearsEach ==
    ASSUME NEW c, NEW L \in Nat, NEW e \in [1..L -> Seq(Events)], NEW G, c \in G[0],
           \A k \in 1..L : \A p \in G[k - 1] : Heard(p, e[k]) \in G[k]
    PROVE  Flattened(e, L) \in Seq(Events) /\ Heard(c, Flattened(e, L)) \in G[L]
<1> DEFINE T == {n \in 0..L : /\ Flattened(e, n) \in Seq(Events)
                              /\ Heard(c, Flattened(e, n)) \in G[n]}
<1>1. 0 \in T
  <2>1. PICK none : none = Flattened(e, 0)
    OBVIOUS
  <2>2. none = <<>>
    BY <2>1, FlattenedNone
  <2>3. none \in Seq(Events) /\ Heard(c, none) = c
    BY <2>2, HeardNone
  <2> QED BY <2>1, <2>3
<1>2. ASSUME NEW n \in 0..(L - 1), n \in T PROVE n + 1 \in T
  <2>1. PICK s, x : s = Flattened(e, n) /\ x = e[n + 1]
    OBVIOUS
  <2>2. s \in Seq(Events) /\ Heard(c, s) \in G[n]
    BY <1>2, <2>1
  <2>3. n + 1 \in 1..L /\ (n + 1) - 1 = n /\ n + 1 \in 0..L /\ x \in Seq(Events)
    BY <2>1
  <2>4. Flattened(e, n + 1) = s \o x
    BY <2>1, FlattenNext
  <2>5. s \o x \in Seq(Events) /\ Heard(c, s \o x) = Heard(Heard(c, s), x)
    BY <2>2, <2>3, HeardConcat, ConcatProperties
  <2>6. Heard(Heard(c, s), x) \in G[n + 1]
    BY <2>1, <2>2, <2>3
  <2> QED BY <2>3, <2>4, <2>5, <2>6
<1>3. L \in T
  <2> HIDE DEF T
  <2>1. 0..L \subseteq T
    BY <1>1, <1>2, UpToInduction
  <2> QED BY <2>1
<1> QED BY <1>3

\* The calls that are closed at the end of an answer.
LEMMA CallsClosed ==
    ASSUME NEW c, Good(c), NEW x, NEW y, Shows(c, x, y), NEW calls \in Seq(Nat),
           \A k \in 1..Len(calls) : Knows(c, calls[k])
    PROVE  LET closed == FlattenSeq([k \in DOMAIN calls |->
                                       <<ArgsDone(calls[k], <<>>), BlockDone(calls[k])>>])
           IN  closed \in Seq(Events) /\ Heeds(c, Heard(c, closed), x, y)
<1>1. PICK L : L = Len(calls)
  OBVIOUS
<1>2. L \in Nat /\ DOMAIN calls = 1..L /\ \A k \in 1..L : calls[k] \in Nat
  BY <1>1, LenProperties, ElementOfSeq
<1>3. PICK e : e = [k \in 1..L |-> <<ArgsDone(calls[k], <<>>), BlockDone(calls[k])>>]
  OBVIOUS
<1>4. PICK R : R = {q \in Memories \cup ChatMemories : Heeds(c, q, x, y)}
  OBVIOUS
<1>5. PICK G : G = [n \in 0..L |-> R]
  OBVIOUS
<1>6. \A q : Heeds(c, q, x, y) => q \in R
  BY <1>4 DEF Heeds, Good, Sound
<1>7. c \in G[0]
  <2>1. Heeds(c, c, x, y)
    BY DEF Heeds, KnownStay
  <2> QED BY <1>2, <1>5, <1>6, <2>1
<1>8. ASSUME NEW k \in 1..L, NEW p \in R
      PROVE  e[k] \in Seq(Events) /\ Heard(p, e[k]) \in R
  <2>1. PICK ix : ix = calls[k]
    OBVIOUS
  <2>2. ix \in Nat /\ Heeds(c, p, x, y)
    BY <1>2, <1>4, <1>8, <2>1
  <2>3. Good(p) /\ Shows(p, x, y)
    BY <2>2 DEF Heeds
  <2>4. Knows(p, ix)
    <3>1. Knows(c, ix)
      BY <1>1, <2>1
    <3> QED BY <2>2, <3>1 DEF Heeds, KnownStay
  <2>5. PICK a : a = ArgsDone(ix, <<>>)
    OBVIOUS
  <2>6. PICK p1 : p1 = ClientStep(p, a)
    OBVIOUS
  <2>7. a \in Events /\ Heeds(p, p1, x, y)
    <3>1. <<>> \in Texts
      BY EmptyText
    <3> QED BY <2>2, <2>3, <2>4, <2>5, <2>6, <3>1, HearsArgs
  <2>8. Good(p1) /\ Shows(p1, x, y)
    BY <2>7 DEF Heeds
  <2>9. PICK b : b = BlockDone(ix)
    OBVIOUS
  <2>10. PICK q : q = ClientStep(p1, b)
    OBVIOUS
  <2>11. b \in Events /\ Heeds(p1, q, x, y)
    BY <2>2, <2>8, <2>9, <2>10, HearsBlockDone
  <2>12. Heeds(c, q, x, y)
    <3>1. Heeds(c, p1, x, y)
      BY <2>2, <2>7, HeedsThen
    <3> QED BY <2>11, <3>1, HeedsThen
  <2>13. e[k] = <<a, b>>
    BY <1>3, <2>1, <2>5, <2>9
  <2>14. <<a, b>> \in Seq(Events) /\ Heard(p, <<a, b>>) = q
    BY <2>6, <2>7, <2>10, <2>11, HeardTwo
  <2> QED BY <1>6, <2>12, <2>13, <2>14
<1>9. e \in [1..L -> Seq(Events)]
  <2>1. c \in R
    BY <1>2, <1>5, <1>7
  <2>2. \A k \in 1..L : e[k] \in Seq(Events)
    BY <1>8, <2>1
  <2> QED BY <1>3, <2>2
<1>10. \A k \in 1..L : \A p \in G[k - 1] : Heard(p, e[k]) \in G[k]
  <2> SUFFICES ASSUME NEW k \in 1..L, NEW p \in G[k - 1] PROVE Heard(p, e[k]) \in G[k]
    OBVIOUS
  <2>1. k - 1 \in 0..L /\ k \in 0..L
    BY <1>2
  <2>2. G[k - 1] = R /\ G[k] = R
    BY <1>5, <2>1
  <2> QED BY <1>8, <2>2
<1>11. Flattened(e, L) \in Seq(Events) /\ Heard(c, Flattened(e, L)) \in G[L]
  BY <1>2, <1>7, <1>9, <1>10, HearsEach
<1>12. G[L] = R
  BY <1>2, <1>5
<1>13. Flattened(e, L) = FlattenSeq(e)
  <2>1. [k \in 1..L |-> e[k]] = e
    BY <1>3
  <2> QED BY <2>1 DEF Flattened
<1>14. e = [k \in DOMAIN calls |-> <<ArgsDone(calls[k], <<>>), BlockDone(calls[k])>>]
  BY <1>2, <1>3
<1> QED BY <1>4, <1>11, <1>12, <1>13, <1>14

Chunks == [role : BOOLEAN, reason : Texts, content : Texts, calls : Seq(CallDeltas),
           finish : {"", "stop", "length", "tool_calls"}]

LEMMA ChatFinishKeeps ==
    ASSUME NEW local, NEW m, NEW c, NEW x, NEW y, Loose(m, c, x, y), NEW ch \in Chunks
    PROVE  /\ Loose(ChatFinish(local, m, ch), c, x, y)
           /\ ch.finish = "" => ChatFinish(local, m, ch) = m
<1>1. CASE ch.finish = ""
  BY <1>1 DEF ChatFinish
<1>2. CASE ch.finish # ""
  <2>1. PICK s : s = m.st
    OBVIOUS
  <2>2. s \in ChatConvs /\ s.block \in Nat /\ s.next \in Nat
    BY <2>1 DEF Loose, ChatConvs
  <2>3. PICK ixs : ixs = [k \in 1..s.next |-> s.block + k]
    OBVIOUS
  <2>4. ixs \in Seq(Nat)
    <3>1. ixs \in [1..s.next -> Nat]
      BY <2>2, <2>3
    <3> QED BY <2>2, <3>1, ListTyped
  <2>5. PICK A : A = {ix \in s.callsStarted : ix < s.next}
    OBVIOUS
  <2>6. PICK calls : calls = Selected(ixs, A)
    OBVIOUS
  <2>7. calls \in Seq(Nat) /\ \A k \in 1..Len(calls) : calls[k] \in s.callsStarted
    BY <2>4, <2>5, <2>6, SelectedFacts
  <2>8. PICK p : p = Heard(c, m.out)
    OBVIOUS
  <2>9. Heeds(c, p, x, y) /\ CallsKnown(s, p) /\ Good(p) /\ Shows(p, x, y)
    BY <2>1, <2>8 DEF Loose, Heeds
  <2>10. PICK stop : stop = ChatStop(ch.finish)
    OBVIOUS
  <2>11. stop \in Stopped
    BY <2>10 DEF ChatStop, Stopped, Chunks
  <2>12. PICK ev : ev = DoneWith(s.block, stop)
    OBVIOUS
  <2>13. ev \in Events /\ Heeds(p, ClientStep(p, ev), x, y)
    BY <2>2, <2>9, <2>11, <2>12, HearsDone
  <2>14. PICK a : a = When(~local \/ s.started, <<ev>>)
    OBVIOUS
  <2>15. PICK p1 : p1 = Heard(p, a)
    OBVIOUS
  <2>16. a \in Seq(Events) /\ Heeds(p, p1, x, y)
    <3>1. a \in Seq(Events) /\ (p1 = ClientStep(p, ev) \/ p1 = p)
      BY <2>13, <2>14, <2>15, HeardWhen
    <3>2. Heeds(p, p, x, y)
      BY <2>9 DEF Heeds, KnownStay
    <3> QED BY <2>13, <3>1, <3>2
  <2>17. Good(p1) /\ Shows(p1, x, y) /\ CallsKnown(s, p1)
    BY <2>2, <2>9, <2>16, KnownAfter DEF Heeds
  <2>18. PICK b : b = FlattenSeq([k \in DOMAIN calls |->
                                    <<ArgsDone(calls[k], <<>>), BlockDone(calls[k])>>])
    OBVIOUS
  <2>19. PICK q : q = Heard(p1, b)
    OBVIOUS
  <2>20. b \in Seq(Events) /\ Heeds(p1, q, x, y)
    <3>1. \A k \in 1..Len(calls) : Knows(p1, calls[k])
      BY <2>7, <2>17 DEF CallsKnown
    <3> QED BY <2>7, <2>17, <2>18, <2>19, <3>1, CallsClosed
  <2>21. PICK events : events = a \o b
    OBVIOUS
  <2>22. events \in Seq(Events) /\ q = Heard(p, events)
    BY <2>15, <2>16, <2>19, <2>20, <2>21, HeardBoth
  <2>23. PICK st : st = IF local THEN [s EXCEPT !.started = FALSE, !.reasoning = FALSE] ELSE s
    OBVIOUS
  <2>24. st \in ChatConvs /\ st.callsStarted = s.callsStarted
    BY <2>2, <2>23 DEF ChatConvs
  <2>25. Heeds(p, q, x, y)
    BY <2>16, <2>20, HeedsThen
  <2>26. CallsKnown(st, q)
    BY <2>2, <2>9, <2>24, <2>25, KnownAfter DEF CallsKnown
  <2>27. PICK e : e = ChatFinish(local, m, ch)
    OBVIOUS
  <2>28. e = Emit(m, st, events)
    BY <1>2, <2>1, <2>3, <2>5, <2>6, <2>10, <2>12, <2>14, <2>18, <2>21, <2>23, <2>27, Zenon
       DEF ChatFinish
  <2>29. Loose(e, c, x, y)
    BY <2>8, <2>22, <2>24, <2>25, <2>26, <2>28, Emits
  <2> QED BY <1>2, <2>27, <2>29
<1> QED BY <1>1, <1>2

\* One chunk: what it says is shown, and nothing else.
LEMMA ChatStepKeeps ==
    ASSUME NEW local, NEW s \in ChatConvs, NEW c, Good(c), NEW x, NEW y, Shows(c, x, y),
           CallsKnown(s, c), NEW ch \in Chunks,
           ch.calls = <<>> \/ \E call \in CallDeltas : ch.calls = <<call>>,
           Tuned(s, c) \/ (ch.reason = <<>> /\ ch.content = <<>>),
           ch.role => ~s.reasoning
    PROVE  LET o == ChatStep(local, s, ch)
           IN  /\ Loose(o, c, x \o ch.content, y \o ch.reason)
               /\ (Tuned(s, c) /\ ch.calls = <<>> /\ ch.finish = "") => TunedTo(o, c)
<1>0. ch.reason \in Texts /\ ch.content \in Texts
  BY DEF Chunks
<1>1. PICK m0 : m0 = Quiet(s)
  OBVIOUS
<1>2. Loose(m0, c, x, y) /\ m0.st = s /\ (Tuned(s, c) => TunedTo(m0, c))
  <2>1. m0.st = s /\ m0.out = <<>>
    BY <1>1 DEF Quiet
  <2>2. Heard(c, m0.out) = c
    BY <2>1, HeardNone
  <2>3. m0.out \in Seq(Events)
    BY <2>1
  <2>4. Heeds(c, c, x, y)
    BY DEF Heeds, KnownStay
  <2> QED BY <2>1, <2>2, <2>3, <2>4 DEF Loose, TunedTo
<1>3. PICK m1 : m1 = ChatLifecycle(local, m0, ch)
  OBVIOUS
<1>4. /\ Loose(m1, c, x, y) /\ (Tuned(s, c) => TunedTo(m1, c))
      /\ m1.st.reasoning = s.reasoning
  BY <1>2, <1>3, ChatLifecycleKeeps
<1>5. PICK m2 : m2 = ChatRole(local, m1, ch)
  OBVIOUS
<1>6. Loose(m2, c, x, y) /\ (Tuned(s, c) => TunedTo(m2, c))
  <2>1. ch.role => ~m1.st.reasoning
    BY <1>4
  <2> QED BY <1>4, <1>5, <2>1, ChatRoleKeeps
<1>7. PICK m3 : m3 = ChatReasoning(local, m2, ch)
  OBVIOUS
<1>8. PICK w : w = y \o ch.reason
  OBVIOUS
<1>9. Loose(m3, c, x, w) /\ (Tuned(s, c) => TunedTo(m3, c))
  <2>1. ch.reason = <<>> \/ TunedTo(m2, c)
    BY <1>6
  <2> QED BY <1>0, <1>6, <1>7, <1>8, <2>1, ChatReasoningKeeps
<1>10. PICK m4 : m4 = ChatContent(local, m3, ch)
  OBVIOUS
<1>11. PICK z : z = x \o ch.content
  OBVIOUS
<1>12. Loose(m4, c, z, w) /\ (Tuned(s, c) => TunedTo(m4, c))
  <2>1. ch.content = <<>> \/ TunedTo(m3, c)
    BY <1>9
  <2> QED BY <1>0, <1>9, <1>10, <1>11, <2>1, ChatContentKeeps
<1>13. PICK m5 : m5 = ChatCalled(m4, ch.calls)
  OBVIOUS
<1>14. Loose(m5, c, z, w) /\ (ch.calls = <<>> => m5 = m4)
  <2>1. CASE ch.calls = <<>>
    <3>1. m5 = m4
      BY <1>13, <2>1, ChatCalledNone
    <3> QED BY <1>12, <3>1
  <2>2. CASE \E call \in CallDeltas : ch.calls = <<call>>
    <3>1. PICK call \in CallDeltas : ch.calls = <<call>>
      BY <2>2
    <3>2. m5 = ChatCall(m4, call)
      BY <1>13, <3>1, ChatCalledOne
    <3>3. Loose(m5, c, z, w)
      BY <1>12, <3>2, ChatCallKeeps
    <3>4. <<call>> # <<>>
      OBVIOUS
    <3> QED BY <3>1, <3>3, <3>4
  <2> QED BY <2>1, <2>2
<1>15. PICK o : o = ChatStep(local, s, ch)
  OBVIOUS
<1>16. o = ChatFinish(local, m5, ch)
  BY <1>1, <1>3, <1>5, <1>7, <1>10, <1>13, <1>15, Zenon DEF ChatStep
<1>17. Loose(o, c, z, w) /\ (ch.finish = "" => o = m5)
  BY <1>14, <1>16, ChatFinishKeeps
<1>18. (Tuned(s, c) /\ ch.calls = <<>> /\ ch.finish = "") => TunedTo(o, c)
  BY <1>12, <1>14, <1>17
<1> QED BY <1>8, <1>11, <1>15, <1>17, <1>18

---------------------------------------------------------------------------
(* The Anthropic and Google providers, and an answer replayed *)

BlockKinds == {"text", "thinking", "tool", "nested", "server_tool_use", "web_search_tool_result"}
AnthropicConvs == [types : Maps(BlockKinds), suppress : SUBSET Nat]

\* The converter knows the block that is open at this index, and the client
\* thinks there, and nowhere later, if it is a thinking block.
InBlock(s, c, ix, block) ==
    /\ block \in BlockKinds => Has(s.types, ix) /\ s.types[ix] = block
    /\ Thinks(c, ix) <=> block = "thinking"
    /\ \A j \in Nat : j > ix => ~Thinks(c, j)

\* What a slice of one or of two events says.
LEMMA SaysOne ==
    ASSUME NEW p, NEW ev \in Events, NEW x, NEW y, Heeds(p, ClientStep(p, ev), x, y),
           NEW out, out = <<ev>>
    PROVE  out \in Seq(Events) /\ Heard(p, out) = ClientStep(p, ev) /\ Heeds(p, Heard(p, out), x, y)
<1>1. <<ev>> \in Seq(Events)
  OBVIOUS
<1> QED BY <1>1, HeardOne

\* An event, then one without a frame of its own.
LEMMA SaysThen ==
    ASSUME NEW p, NEW ev \in Events, NEW x, NEW y, Heeds(p, ClientStep(p, ev), x, y),
           NEW t \in {"created", "inProgress", "completed", "incomplete", "failed",
                      "itemAdded", "itemDone", "ping"},
           NEW stop \in Stopped, NEW out, out = <<ev, Lifecycle(t, stop)>>
    PROVE  /\ out \in Seq(Events) /\ Heeds(p, Heard(p, out), x, y)
           /\ SameThought(ClientStep(p, ev), Heard(p, out))
<1>1. PICK q : q = ClientStep(p, ev)
  OBVIOUS
<1>2. Good(q) /\ Shows(q, x, y) /\ Heeds(p, q, x, y)
  BY <1>1 DEF Heeds
<1>3. PICK b : b = Lifecycle(t, stop)
  OBVIOUS
<1>4. b \in Events /\ Heeds(q, ClientStep(q, b), x, y) /\ SameThought(q, ClientStep(q, b))
  BY <1>2, <1>3, HearsLifecycle
<1>5. out \in Seq(Events) /\ Heard(p, out) = ClientStep(q, b)
  BY <1>1, <1>3, <1>4, HeardTwo
<1>6. Heeds(p, ClientStep(q, b), x, y)
  BY <1>2, <1>4, HeedsThen
<1> QED BY <1>1, <1>4, <1>5, <1>6

LEMMA SaysLifecycle ==
    ASSUME NEW c, Good(c), NEW x, NEW y, Shows(c, x, y),
           NEW t \in {"created", "inProgress", "completed", "incomplete", "failed",
                      "itemAdded", "itemDone", "ping"},
           NEW stop \in Stopped, NEW out, out = <<Lifecycle(t, stop)>>
    PROVE  out \in Seq(Events) /\ Heeds(c, Heard(c, out), x, y) /\ SameThought(c, Heard(c, out))
<1>1. PICK ev : ev = Lifecycle(t, stop)
  OBVIOUS
<1>2. ev \in Events /\ Heeds(c, ClientStep(c, ev), x, y) /\ SameThought(c, ClientStep(c, ev))
  BY <1>1, HearsLifecycle
<1>3. out \in Seq(Events) /\ Heard(c, out) = ClientStep(c, ev)
  BY <1>1, <1>2, SaysOne
<1> QED BY <1>2, <1>3

LEMMA BlockOpened ==
    ASSUME NEW s \in AnthropicConvs, NEW c, Good(c), NEW x, NEW y, Shows(c, x, y),
           NEW ix \in Nat, InBlock(s, c, ix, "-"), NEW kind \in BlockKinds,
           NEW ev, ev.ix = ix, ev.kind = kind
    PROVE  LET o == AnthropicBlockStart(s, ev)  q == Heard(c, o.out)
           IN  /\ o.st \in AnthropicConvs /\ o.out \in Seq(Events)
               /\ Heeds(c, q, x, y) /\ InBlock(o.st, q, ix, kind)
<1>1. PICK types : types = Put(s.types, ix, kind)
  OBVIOUS
<1>2. types \in Maps(BlockKinds) /\ ix \in DOMAIN types /\ types[ix] = kind
  <2>1. PICK f : f = s.types
    OBVIOUS
  <2>2. f \in Maps(BlockKinds)
    BY <2>1 DEF AnthropicConvs
  <2>3. IsPut(Put(f, ix, kind), BlockKinds, f, ix, kind)
    BY <2>2, PutFacts
  <2> QED BY <1>1, <2>1, <2>3 DEF IsPut
<1>3. PICK st : st = [s EXCEPT !.types = types]
  OBVIOUS
<1>4. st \in AnthropicConvs /\ Has(st.types, ix) /\ st.types[ix] = kind
  BY <1>2, <1>3 DEF AnthropicConvs, Has
<1>5. PICK o : o = AnthropicBlockStart(s, ev)
  OBVIOUS
<1>6. o.st = st
  BY <1>1, <1>3, <1>5 DEF AnthropicBlockStart
<1>7. PICK out : out = o.out
  OBVIOUS
<1>8. /\ kind = "text" => out = <<Started(ix, "text")>>
      /\ kind = "thinking" => out = <<Started(ix, "reasoning")>>
      /\ kind \in {"tool", "nested"} => out = <<Started(ix, kind), Lifecycle("itemAdded", "")>>
      /\ kind \in {"server_tool_use", "web_search_tool_result"} => out = <<>>
  BY <1>5, <1>7 DEF AnthropicBlockStart, IsTool
<1>9. \A j \in Nat : j >= ix => ~Thinks(c, j)
  BY DEF InBlock
<1>10. PICK q : q = Heard(c, out)
  OBVIOUS
<1>11. CASE kind = "text"
  <2>1. PICK e : e = Started(ix, "text")
    OBVIOUS
  <2>2. e \in Events /\ Heeds(c, ClientStep(c, e), x, y) /\ NoNewThought(c, ClientStep(c, e))
    BY <2>1, HearsStartedText
  <2>3. out \in Seq(Events) /\ q = ClientStep(c, e)
    BY <1>8, <1>10, <1>11, <2>1, <2>2, SaysOne
  <2>4. InBlock(st, q, ix, kind)
    BY <1>4, <1>9, <1>11, <2>2, <2>3 DEF InBlock, NoNewThought
  <2> QED BY <1>4, <1>5, <1>6, <1>7, <1>10, <2>2, <2>3, <2>4
<1>12. CASE kind = "thinking"
  <2>1. PICK e : e = Started(ix, "reasoning")
    OBVIOUS
  <2>2. /\ e \in Events /\ Heeds(c, ClientStep(c, e), x, y)
        /\ Thinks(ClientStep(c, e), ix) /\ SameThoughtBut(c, ClientStep(c, e), ix)
    BY <2>1, HearsStartedReasoning
  <2>3. out \in Seq(Events) /\ q = ClientStep(c, e)
    BY <1>8, <1>10, <1>12, <2>1, <2>2, SaysOne
  <2>4. InBlock(st, q, ix, kind)
    BY <1>4, <1>9, <1>12, <2>2, <2>3 DEF InBlock, SameThoughtBut
  <2> QED BY <1>4, <1>5, <1>6, <1>7, <1>10, <2>2, <2>3, <2>4
<1>13. CASE kind \in {"tool", "nested"}
  <2>1. PICK e : e = Started(ix, kind)
    OBVIOUS
  <2>2. e \in Events /\ Heeds(c, ClientStep(c, e), x, y) /\ NoNewThought(c, ClientStep(c, e))
    BY <1>13, <2>1, HearsStartedTool
  <2>3. /\ out \in Seq(Events) /\ Heeds(c, q, x, y)
        /\ SameThought(ClientStep(c, e), q)
    <3>1. out = <<e, Lifecycle("itemAdded", "")>> /\ "" \in Stopped
      BY <1>8, <1>13, <2>1 DEF Stopped
    <3> QED BY <1>10, <2>2, <3>1, SaysThen
  <2>4. InBlock(st, q, ix, kind)
    BY <1>4, <1>9, <1>13, <2>2, <2>3 DEF InBlock, NoNewThought, SameThought
  <2> QED BY <1>4, <1>5, <1>6, <1>7, <1>10, <2>3, <2>4
<1>14. CASE kind \in {"server_tool_use", "web_search_tool_result"}
  <2>1. out \in Seq(Events) /\ q = c
    BY <1>8, <1>10, <1>14, HeardNothing
  <2>2. Heeds(c, q, x, y)
    BY <2>1 DEF Heeds, KnownStay
  <2>3. InBlock(st, q, ix, kind)
    BY <1>4, <1>9, <1>14, <2>1 DEF InBlock
  <2> QED BY <1>4, <1>5, <1>6, <1>7, <1>10, <2>1, <2>2, <2>3
<1> QED BY <1>11, <1>12, <1>13, <1>14 DEF BlockKinds

LEMMA BlockClosed ==
    ASSUME NEW s \in AnthropicConvs, NEW c, Good(c), NEW x, NEW y, Shows(c, x, y),
           NEW ix \in Nat, NEW block, InBlock(s, c, ix, block), NEW ev, ev.ix = ix
    PROVE  LET o == AnthropicBlockStop(s, ev)  q == Heard(c, o.out)
           IN  /\ o.st \in AnthropicConvs /\ o.out \in Seq(Events)
               /\ Heeds(c, q, x, y) /\ InBlock(o.st, q, ix + 1, "-")
<1>1. PICK o : o = AnthropicBlockStop(s, ev)
  OBVIOUS
<1>2. PICK out : out = o.out
  OBVIOUS
<1>3. PICK q : q = Heard(c, out)
  OBVIOUS
<1>4. \A j \in Nat : j > ix => ~Thinks(c, j)
  BY DEF InBlock
<1>5. "-" \notin BlockKinds /\ "-" # "thinking"
  BY DEF BlockKinds
<1>6. CASE ix \in s.suppress
  <2>1. out = <<>> /\ o.st = [s EXCEPT !.suppress = s.suppress \ {ix}]
    BY <1>1, <1>2, <1>6 DEF AnthropicBlockStop, Quiet
  <2>2. o.st \in AnthropicConvs
    BY <2>1 DEF AnthropicConvs
  <2>3. out \in Seq(Events) /\ q = c
    BY <1>3, <2>1, HeardNone
  <2>4. Heeds(c, q, x, y)
    BY <2>3 DEF Heeds, KnownStay
  <2>5. InBlock(o.st, q, ix + 1, "-")
    BY <1>4, <1>5, <2>3 DEF InBlock
  <2> QED BY <1>1, <1>2, <1>3, <2>2, <2>3, <2>4, <2>5
<1>7. CASE ix \notin s.suppress
  <2>1. PICK e : e = BlockDone(ix)
    OBVIOUS
  <2>2. out = <<e, Lifecycle("itemDone", "")>> /\ o.st = s /\ "" \in Stopped
    BY <1>1, <1>2, <1>7, <2>1 DEF AnthropicBlockStop, Stopped
  <2>3. e \in Events /\ Heeds(c, ClientStep(c, e), x, y) /\ NoNewThought(c, ClientStep(c, e))
    BY <2>1, HearsBlockDone
  <2>4. /\ out \in Seq(Events) /\ Heeds(c, q, x, y)
        /\ SameThought(ClientStep(c, e), q)
    BY <1>3, <2>2, <2>3, SaysThen
  <2>5. InBlock(o.st, q, ix + 1, "-")
    BY <1>4, <1>5, <2>3, <2>4 DEF InBlock, NoNewThought, SameThought
  <2> QED BY <1>1, <1>2, <1>3, <2>2, <2>4, <2>5
<1> QED BY <1>6, <1>7

LEMMA StillInBlock ==
    ASSUME NEW s, NEW c, NEW ix \in Nat, NEW block, InBlock(s, c, ix, block),
           NEW st, st.types = s.types, NEW q, SameThought(c, q)
    PROVE  InBlock(st, q, ix, block)
BY DEF InBlock, SameThought

LEMMA TextSaid ==
    ASSUME NEW s, NEW c, Good(c), NEW x, NEW y, Shows(c, x, y),
           NEW ix \in Nat, InBlock(s, c, ix, "text"),
           NEW ev, ev.ix = ix, ev.delta = "text", ~ev.status, ev.d \in Texts
    PROVE  LET o == AnthropicBlockDelta(s, ev)  q == Heard(c, o.out)
           IN  /\ o.st = s /\ o.out \in Seq(Events)
               /\ Heeds(c, q, x \o ev.d, y) /\ InBlock(s, q, ix, "text")
<1>1. PICK o : o = AnthropicBlockDelta(s, ev)
  OBVIOUS
<1>2. PICK e : e = TextDelta(ix, ev.d)
  OBVIOUS
<1>3. PICK out : out = o.out
  OBVIOUS
<1>4. o.st = s /\ out = <<e>>
  BY <1>1, <1>2, <1>3 DEF AnthropicBlockDelta
<1>5. PICK z : z = x \o ev.d
  OBVIOUS
<1>6. /\ e \in Events /\ Heeds(c, ClientStep(c, e), z, y) /\ SameThought(c, ClientStep(c, e))
  <2>1. ~Thinks(c, ix)
    BY DEF InBlock
  <2> QED BY <1>2, <1>5, <2>1, HearsText
<1>7. out \in Seq(Events) /\ Heard(c, out) = ClientStep(c, e)
  BY <1>4, <1>6, SaysOne
<1>8. InBlock(s, Heard(c, out), ix, "text")
  BY <1>6, <1>7, StillInBlock
<1> QED BY <1>1, <1>3, <1>4, <1>5, <1>6, <1>7, <1>8

LEMMA ThoughtSaid ==
    ASSUME NEW s, NEW c, Good(c), NEW x, NEW y, Shows(c, x, y),
           NEW ix \in Nat, InBlock(s, c, ix, "thinking"),
           NEW ev, ev.ix = ix, ev.delta = "thinking", ev.d \in Texts
    PROVE  LET o == AnthropicBlockDelta(s, ev)  q == Heard(c, o.out)
           IN  /\ o.st = s /\ o.out \in Seq(Events)
               /\ Heeds(c, q, x, y \o ev.d) /\ InBlock(s, q, ix, "thinking")
<1>1. PICK o : o = AnthropicBlockDelta(s, ev)
  OBVIOUS
<1>2. PICK e : e = TextDelta(ix, ev.d)
  OBVIOUS
<1>3. PICK out : out = o.out
  OBVIOUS
<1>4. o.st = s /\ out = <<e>>
  <2>1. Lookup(s.types, ix, "") = "thinking"
    BY DEF InBlock, BlockKinds, Lookup
  <2> QED BY <1>1, <1>2, <1>3, <2>1 DEF AnthropicBlockDelta, IsTool
<1>5. PICK z : z = y \o ev.d
  OBVIOUS
<1>6. /\ e \in Events /\ Heeds(c, ClientStep(c, e), x, z) /\ SameThought(c, ClientStep(c, e))
  <2>1. Thinks(c, ix)
    BY DEF InBlock
  <2> QED BY <1>2, <1>5, <2>1, HearsText
<1>7. out \in Seq(Events) /\ Heard(c, out) = ClientStep(c, e)
  BY <1>4, <1>6, SaysOne
<1>8. InBlock(s, Heard(c, out), ix, "thinking")
  BY <1>6, <1>7, StillInBlock
<1> QED BY <1>1, <1>3, <1>4, <1>5, <1>6, <1>7, <1>8

LEMMA ArgsSaid ==
    ASSUME NEW s, NEW c, Good(c), NEW x, NEW y, Shows(c, x, y),
           NEW ix \in Nat, NEW block \in {"tool", "nested", "server_tool_use"},
           InBlock(s, c, ix, block),
           NEW ev, ev.ix = ix, ev.delta = "json", ev.d \in Texts
    PROVE  LET o == AnthropicBlockDelta(s, ev)  q == Heard(c, o.out)
           IN  /\ o.st = s /\ o.out \in Seq(Events)
               /\ Heeds(c, q, x, y) /\ InBlock(s, q, ix, block)
<1>1. PICK o : o = AnthropicBlockDelta(s, ev)
  OBVIOUS
<1>2. PICK e : e = ArgsDelta(ix, ev.d)
  OBVIOUS
<1>3. PICK out : out = o.out
  OBVIOUS
<1>4. o.st = s /\ out = <<e>>
  <2>1. Lookup(s.types, ix, "") = block
    BY DEF InBlock, BlockKinds, Lookup
  <2> QED BY <1>1, <1>2, <1>3, <2>1 DEF AnthropicBlockDelta
<1>5. /\ e \in Events /\ Heeds(c, ClientStep(c, e), x, y) /\ SameThought(c, ClientStep(c, e))
  BY <1>2, HearsArgs
<1>6. out \in Seq(Events) /\ Heard(c, out) = ClientStep(c, e)
  BY <1>4, <1>5, SaysOne
<1>7. InBlock(s, Heard(c, out), ix, block)
  BY <1>5, <1>6, StillInBlock
<1> QED BY <1>1, <1>3, <1>4, <1>5, <1>6, <1>7

\* A status of a search is dropped.
LEMMA StatusDropped ==
    ASSUME NEW s \in AnthropicConvs, NEW c, Good(c), NEW x, NEW y, Shows(c, x, y),
           NEW ix \in Nat, NEW block, InBlock(s, c, ix, block),
           NEW ev, ev.ix = ix, ev.delta = "text", ev.status
    PROVE  LET o == AnthropicBlockDelta(s, ev)  q == Heard(c, o.out)
           IN  /\ o.st \in AnthropicConvs /\ o.out \in Seq(Events)
               /\ Heeds(c, q, x, y) /\ InBlock(o.st, q, ix, block)
<1>1. PICK o : o = AnthropicBlockDelta(s, ev)
  OBVIOUS
<1>2. PICK st : st = [s EXCEPT !.suppress = s.suppress \cup {ix}]
  OBVIOUS
<1>3. st \in AnthropicConvs /\ st.types = s.types
  BY <1>2 DEF AnthropicConvs
<1>4. o.st = st /\ o.out = <<>>
  BY <1>1, <1>2 DEF AnthropicBlockDelta, Quiet
<1>5. Heard(c, o.out) = c /\ o.out \in Seq(Events)
  BY <1>4, HeardNothing
<1>6. Heeds(c, c, x, y) /\ SameThought(c, c)
  BY DEF Heeds, KnownStay, SameThought
<1>7. InBlock(st, c, ix, block)
  BY <1>3, <1>6, StillInBlock
<1> QED BY <1>1, <1>3, <1>4, <1>5, <1>6, <1>7

LEMMA OnePiece == \A p \in Pieces : <<p>> \in Texts /\ <<p>> # <<>>
BY DEF Texts

\* A snapshot of Google's that grew by one piece.
LEMMA Grown ==
    ASSUME NEW s \in Texts, NEW x \in Pieces
    PROVE  ComputeDelta(s, s \o <<x>>) = <<x>> /\ s \o <<x>> \in Texts
<1>1. PICK t : t = <<x>>
  OBVIOUS
<1>2. t \in Seq(Pieces) /\ Len(t) = 1 /\ t[1] = x /\ s \in Seq(Pieces)
  BY <1>1 DEF Texts
<1>3. PICK u : u = s \o t
  OBVIOUS
<1>4. PICK L : L = Len(s)
  OBVIOUS
<1>5. u \in Seq(Pieces)
  BY <1>2, <1>3, ConcatProperties
<1>6. Len(u) = L + 1 /\ L \in Nat
  <2>1. Len(u) = Len(s) + Len(t)
    BY <1>2, <1>3, ConcatProperties
  <2>2. Len(s) \in Nat
    BY <1>2, LenProperties
  <2> QED BY <1>2, <1>4, <2>1, <2>2
<1>7. PICK m : m = L + 1
  OBVIOUS
<1>8. PICK d : d = SubSeq(u, m, m)
  OBVIOUS
<1>9. m \in Int /\ m - m + 1 = 1 /\ m + 1 - 1 = m
  BY <1>6, <1>7
<1>10. u[m] = x
  <2>1. \A i \in 1..(Len(s) + Len(t)) : u[i] = IF i <= Len(s) THEN s[i] ELSE t[i - Len(s)]
    BY <1>2, <1>3, ConcatProperties
  <2>2. m \in 1..(Len(s) + Len(t)) /\ ~(m <= Len(s)) /\ m - Len(s) = 1
    BY <1>2, <1>4, <1>6, <1>7
  <2>3. u[m] = t[m - Len(s)]
    BY <2>1, <2>2
  <2> QED BY <1>2, <2>2, <2>3
<1>11. \A i \in m..m : u[i] \in Pieces
  <2>1. \A i \in m..m : i = m
    BY <1>9
  <2> QED BY <1>10, <2>1
<1>12. d \in Seq(Pieces) /\ Len(d) = IF m <= m THEN m - m + 1 ELSE 0
  BY <1>8, <1>9, <1>11, SubSeqProperties
<1>13. \A i \in 1..(m - m + 1) : d[i] = u[m + i - 1]
  BY <1>8, <1>9, <1>11, SubSeqProperties
<1>14. Len(d) = 1 /\ d[1] = x
  <2>1. Len(d) = 1 /\ 1 \in 1..(m - m + 1)
    BY <1>9, <1>12
  <2>2. d[1] = u[m + 1 - 1]
    BY <1>13, <2>1
  <2> QED BY <1>9, <1>10, <2>1, <2>2
<1>15. d = t
  BY <1>2, <1>12, <1>14, SeqEqual
<1>16. ComputeDelta(s, u) = d
  BY <1>4, <1>6, <1>7, <1>8 DEF ComputeDelta
<1> QED BY <1>1, <1>3, <1>5, <1>15, <1>16 DEF Texts

GoogleConvs == [started : BOOLEAN, prev : Texts]
Snapshots == [text : Texts, finish : {"", "STOP", "MAX_TOKENS"}]

\* The converter and the client have told x of a text and y of the thoughts, and
\* the next snapshot has one more piece.
GoogleReady(s, c, x, y) ==
    s \in GoogleConvs /\ s.prev = x /\ Good(c) /\ Shows(c, x, y) /\ ~Thinks(c, 0)
Grows(ch, x, p) == ch \in Snapshots /\ p \in Pieces /\ ch.text = x \o <<p>>

LEMMA GoogleStepKeeps ==
    ASSUME NEW s, NEW c, NEW x, NEW y, GoogleReady(s, c, x, y), NEW ch, NEW p, Grows(ch, x, p)
    PROVE  LET o == GoogleStep(s, ch)  q == Heard(c, o.out)
           IN  GoogleReady(o.st, q, x \o <<p>>, y) /\ Heeds(c, q, x \o <<p>>, y)
<1> USE DEF GoogleReady, Grows
<1>0. PICK finish : finish = ch.finish
  OBVIOUS
<1>1. x \in Texts /\ finish \in {"", "STOP", "MAX_TOKENS"}
  <2>1. x \in Texts
    BY ShowsTyped
  <2>2. finish \in {"", "STOP", "MAX_TOKENS"}
    BY <1>0 DEF Snapshots
  <2> QED BY <2>1, <2>2
<1>2. PICK d : d = <<p>>
  OBVIOUS
<1>3. PICK z : z = x \o d
  OBVIOUS
<1>4. z \in Texts /\ ComputeDelta(x, z) = d /\ d \in Texts /\ d # <<>>
  <2>1. z \in Texts /\ ComputeDelta(x, z) = d
    BY <1>1, <1>2, <1>3, Grown
  <2>2. d \in Texts /\ d # <<>>
    BY <1>2, OnePiece
  <2> QED BY <2>1, <2>2
<1>5. PICK o : o = GoogleStep(s, ch)
  OBVIOUS
<1>6. o.st \in GoogleConvs /\ o.st.prev = z
  BY <1>2, <1>3, <1>4, <1>5 DEF GoogleStep, GoogleConvs
<1>7. PICK a : a = When(~s.started, <<Started(0, "text")>>)
  OBVIOUS
<1>8. PICK e : e = TextDelta(0, d)
  OBVIOUS
<1>9. PICK b : b = When(finish # "", <<DoneWith(0, GoogleStop(finish))>>)
  OBVIOUS
<1>10. PICK out : out = o.out
  OBVIOUS
<1>11. out = (a \o <<e>>) \o b
  <2>1. When(d # <<>>, <<e>>) = <<e>>
    BY <1>4 DEF When
  <2> QED BY <1>0, <1>2, <1>3, <1>4, <1>5, <1>7, <1>8, <1>9, <1>10, <2>1 DEF GoogleStep
<1>12. PICK c1 : c1 = Heard(c, a)
  OBVIOUS
<1>13. a \in Seq(Events) /\ Heeds(c, c1, x, y) /\ ~Thinks(c1, 0)
  <2>1. a \in Seq(Events) /\ Heeds(c, c1, x, y) /\ NoNewThought(c, c1)
    BY <1>7, <1>12, OpensText
  <2> QED BY <2>1 DEF NoNewThought
<1>14. PICK c2 : c2 = ClientStep(c1, e)
  OBVIOUS
<1>15. e \in Events /\ Heeds(c1, c2, z, y) /\ ~Thinks(c2, 0)
  <2>1. Good(c1) /\ Shows(c1, x, y)
    BY <1>13 DEF Heeds
  <2>2. e \in Events /\ Heeds(c1, c2, z, y) /\ SameThought(c1, c2)
    BY <1>3, <1>4, <1>8, <1>13, <1>14, <2>1, HearsText
  <2> QED BY <1>13, <2>2 DEF SameThought
<1>16. PICK c3 : c3 = Heard(c2, b)
  OBVIOUS
<1>17. b \in Seq(Events) /\ Heeds(c2, c3, z, y) /\ ~Thinks(c3, 0)
  <2>1. PICK stop : stop = GoogleStop(finish)
    OBVIOUS
  <2>2. stop \in Stopped
    BY <1>1, <2>1 DEF GoogleStop, Stopped
  <2>3. PICK f : f = DoneWith(0, stop)
    OBVIOUS
  <2>4. Good(c2) /\ Shows(c2, z, y)
    BY <1>15 DEF Heeds
  <2>5. f \in Events /\ Heeds(c2, ClientStep(c2, f), z, y) /\ NoNewThought(c2, ClientStep(c2, f))
    BY <2>2, <2>3, <2>4, HearsDone
  <2>6. b \in Seq(Events) /\ (c3 = ClientStep(c2, f) \/ c3 = c2)
    BY <1>9, <1>16, <2>1, <2>3, <2>5, HeardWhen
  <2>7. Heeds(c2, c2, z, y)
    BY <2>4 DEF Heeds, KnownStay
  <2> QED BY <1>15, <2>5, <2>6, <2>7 DEF NoNewThought
<1>18. out \in Seq(Events) /\ Heard(c, out) = c3
  BY <1>11, <1>12, <1>13, <1>14, <1>15, <1>16, <1>17, HeardMiddle
<1>19. Heeds(c, c3, z, y)
  <2>1. Heeds(c, c2, z, y)
    BY <1>13, <1>15, HeedsThen
  <2> QED BY <1>17, <2>1, HeedsThen
<1>20. Good(c3) /\ Shows(c3, z, y)
  BY <1>19 DEF Heeds
<1> QED BY <1>2, <1>3, <1>5, <1>6, <1>10, <1>17, <1>18, <1>19, <1>20

ReplayBlocks == [kind : {"reasoning", "text", "tool", "image"}, d : Texts]

\* The client thinks at no index from this one on.
Unthought(c, ix) == \A j \in Nat : j >= ix => ~Thinks(c, j)

LEMMA Three ==
    ASSUME NEW a \in Events, NEW b \in Events, NEW d \in Events, NEW c
    PROVE  /\ <<a, b, d>> \in Seq(Events)
           /\ Heard(c, <<a, b, d>>) = ClientStep(ClientStep(ClientStep(c, a), b), d)
<1>1. PICK s : s = <<a, b>>
  OBVIOUS
<1>2. s \in Seq(Events) /\ Heard(c, s) = ClientStep(ClientStep(c, a), b)
  BY <1>1, HeardTwo
<1>3. Len(s) = 2 /\ s[1] = a /\ s[2] = b
  BY <1>1
<1>4. PICK t : t = <<a, b, d>>
  OBVIOUS
<1>5. t \in Seq(Events) /\ Len(t) = 3 /\ t[1] = a /\ t[2] = b /\ t[3] = d
  BY <1>4
<1>6. PICK u : u = Append(s, d)
  OBVIOUS
<1>7. u \in Seq(Events)
  BY <1>2, <1>6, AppendProperties
<1>8. Len(u) = Len(s) + 1 /\ u[Len(s) + 1] = d
  BY <1>2, <1>6, AppendProperties
<1>9. \A i \in 1..Len(s) : u[i] = s[i]
  BY <1>2, <1>6, AppendProperties
<1>10. Len(u) = 3 /\ \A i \in 1..3 : u[i] = t[i]
  BY <1>3, <1>5, <1>8, <1>9
<1>11. u = t
  BY <1>5, <1>7, <1>10, SeqEqual
<1>12. Heard(c, u) = ClientStep(Heard(c, s), d)
  BY <1>2, <1>6, HeardAppend
<1> QED BY <1>2, <1>4, <1>5, <1>11, <1>12

LEMMA TextWhen ==
    ASSUME NEW c, Good(c), NEW x, NEW y, Shows(c, x, y), NEW ix \in Nat, NEW d \in Texts,
           NEW out, out = When(d # <<>>, <<TextDelta(ix, d)>>), NEW q, q = Heard(c, out)
    PROVE  /\ out \in Seq(Events) /\ SameThought(c, q)
           /\ Thinks(c, ix) => Heeds(c, q, x, y \o d)
           /\ ~Thinks(c, ix) => Heeds(c, q, x \o d, y)
<1>1. PICK ev : ev = TextDelta(ix, d)
  OBVIOUS
<1>2. PICK p : p = ClientStep(c, ev)
  OBVIOUS
<1>3. /\ ev \in Events /\ SameThought(c, p)
      /\ Thinks(c, ix) => Heeds(c, p, x, y \o d)
      /\ ~Thinks(c, ix) => Heeds(c, p, x \o d, y)
  BY <1>1, <1>2, HearsText
<1>4. CASE d # <<>>
  <2>1. out \in Seq(Events) /\ q = p
    BY <1>1, <1>2, <1>3, <1>4, HeardWhen
  <2> QED BY <1>3, <2>1
<1>5. CASE d = <<>>
  <2>1. out \in Seq(Events) /\ q = c
    BY <1>1, <1>3, <1>5, HeardWhen
  <2>2. x \o d = x /\ y \o d = y
    BY <1>5, ShowsTyped
  <2> QED BY <2>1, <2>2 DEF Heeds, KnownStay, SameThought
<1> QED BY <1>4, <1>5

LEMMA HeardAround ==
    ASSUME NEW c, NEW e \in Events, NEW a \in Seq(Events), NEW f \in Events
    PROVE  /\ (<<e>> \o a) \o <<f>> \in Seq(Events)
           /\ Heard(c, (<<e>> \o a) \o <<f>>) = ClientStep(Heard(ClientStep(c, e), a), f)
<1>1. PICK g : g = <<e>>
  OBVIOUS
<1>2. g \in Seq(Events) /\ Heard(c, g) = ClientStep(c, e)
  BY <1>1, HeardOne
<1>3. PICK h : h = (g \o a) \o <<f>>
  OBVIOUS
<1>4. h \in Seq(Events) /\ Heard(c, h) = ClientStep(Heard(Heard(c, g), a), f)
  BY <1>2, <1>3, HeardThree
<1> QED BY <1>1, <1>2, <1>3, <1>4

\* One block of an answer that is replayed.
LEMMA ReplayBlockKeeps ==
    ASSUME NEW c, Good(c), NEW x, NEW y, Shows(c, x, y), NEW ix \in Nat, Unthought(c, ix),
           NEW b \in ReplayBlocks, NEW out, out = ReplayBlock(ix, b), NEW q, q = Heard(c, out)
    PROVE  /\ out \in Seq(Events) /\ Unthought(q, ix + 1)
           /\ Heeds(c, q, x \o (IF b.kind = "text" THEN b.d ELSE <<>>),
                          y \o (IF b.kind = "reasoning" THEN b.d ELSE <<>>))
<1>1. PICK kind : kind = b.kind
  OBVIOUS
<1>2. PICK d : d = b.d
  OBVIOUS
<1>3. kind \in {"reasoning", "text", "tool", "image"} /\ d \in Texts
  BY <1>1, <1>2 DEF ReplayBlocks
<1>4. x \o <<>> = x /\ y \o <<>> = y
  BY ShowsTyped
<1>5. PICK f : f = BlockDone(ix)
  OBVIOUS
<1>6. PICK m : m = When(d # <<>>, <<TextDelta(ix, d)>>)
  OBVIOUS
<1>7. CASE kind = "reasoning"
  <2>1. PICK e : e = Started(ix, "reasoning")
    OBVIOUS
  <2>2. out = (<<e>> \o m) \o <<f>>
    <3>1. b.kind = "reasoning"
      BY <1>1, <1>7
    <3>2. ReplayBlock(ix, b) = (<<Started(ix, "reasoning")>>
                                \o When(b.d # <<>>, <<TextDelta(ix, b.d)>>)) \o <<BlockDone(ix)>>
      BY <3>1 DEF ReplayBlock, IsTool
    <3> QED BY <1>2, <1>5, <1>6, <2>1, <3>2
  <2>3. PICK c1 : c1 = ClientStep(c, e)
    OBVIOUS
  <2>4. e \in Events /\ Heeds(c, c1, x, y) /\ Thinks(c1, ix) /\ SameThoughtBut(c, c1, ix)
    BY <2>1, <2>3, HearsStartedReasoning
  <2>5. PICK c2 : c2 = Heard(c1, m)
    OBVIOUS
  <2>6. m \in Seq(Events) /\ SameThought(c1, c2) /\ Heeds(c1, c2, x, y \o d)
    <3>1. Good(c1) /\ Shows(c1, x, y)
      BY <2>4 DEF Heeds
    <3> QED BY <1>3, <1>6, <2>4, <2>5, <3>1, TextWhen
  <2>7. PICK w : w = y \o d
    OBVIOUS
  <2>8. PICK c3 : c3 = ClientStep(c2, f)
    OBVIOUS
  <2>9. f \in Events /\ Heeds(c2, c3, x, w) /\ NoNewThought(c2, c3)
    <3>1. Good(c2) /\ Shows(c2, x, w)
      BY <2>6, <2>7 DEF Heeds
    <3> QED BY <1>5, <2>8, <3>1, HearsBlockDone
  <2>10. out \in Seq(Events) /\ q = c3
    BY <2>2, <2>3, <2>4, <2>5, <2>6, <2>8, <2>9, HeardAround
  <2>11. Heeds(c, c3, x, w)
    <3>1. Heeds(c, c2, x, w)
      BY <2>4, <2>6, <2>7, HeedsThen
    <3> QED BY <2>9, <3>1, HeedsThen
  <2>12. Unthought(c3, ix + 1)
    BY <2>4, <2>6, <2>9 DEF Unthought, SameThoughtBut, SameThought, NoNewThought
  <2> QED BY <1>1, <1>2, <1>4, <1>7, <2>7, <2>10, <2>11, <2>12
<1>8. CASE kind = "text"
  <2>1. PICK e : e = Started(ix, "text")
    OBVIOUS
  <2>2. out = (<<e>> \o m) \o <<f>>
    BY <1>1, <1>2, <1>5, <1>6, <1>8, <2>1 DEF ReplayBlock, IsTool
  <2>3. PICK c1 : c1 = ClientStep(c, e)
    OBVIOUS
  <2>4. e \in Events /\ Heeds(c, c1, x, y) /\ NoNewThought(c, c1)
    BY <2>1, <2>3, HearsStartedText
  <2>5. PICK c2 : c2 = Heard(c1, m)
    OBVIOUS
  <2>6. m \in Seq(Events) /\ SameThought(c1, c2) /\ Heeds(c1, c2, x \o d, y)
    <3>1. Good(c1) /\ Shows(c1, x, y) /\ ~Thinks(c1, ix)
      BY <2>4 DEF Heeds, NoNewThought, Unthought
    <3> QED BY <1>3, <1>6, <2>5, <3>1, TextWhen
  <2>7. PICK w : w = x \o d
    OBVIOUS
  <2>8. PICK c3 : c3 = ClientStep(c2, f)
    OBVIOUS
  <2>9. f \in Events /\ Heeds(c2, c3, w, y) /\ NoNewThought(c2, c3)
    <3>1. Good(c2) /\ Shows(c2, w, y)
      BY <2>6, <2>7 DEF Heeds
    <3> QED BY <1>5, <2>8, <3>1, HearsBlockDone
  <2>10. out \in Seq(Events) /\ q = c3
    BY <2>2, <2>3, <2>4, <2>5, <2>6, <2>8, <2>9, HeardAround
  <2>11. Heeds(c, c3, w, y)
    <3>1. Heeds(c, c2, w, y)
      BY <2>4, <2>6, <2>7, HeedsThen
    <3> QED BY <2>9, <3>1, HeedsThen
  <2>12. Unthought(c3, ix + 1)
    BY <2>4, <2>6, <2>9 DEF Unthought, SameThought, NoNewThought
  <2> QED BY <1>1, <1>2, <1>4, <1>8, <2>7, <2>10, <2>11, <2>12
<1>9. CASE kind = "tool"
  <2>1. PICK e : e = Started(ix, "tool")
    OBVIOUS
  <2>2. PICK g : g = ArgsDone(ix, d)
    OBVIOUS
  <2>3. out = <<e, g, f>>
    BY <1>1, <1>2, <1>5, <1>9, <2>1, <2>2 DEF ReplayBlock, IsTool
  <2>4. PICK c1 : c1 = ClientStep(c, e)
    OBVIOUS
  <2>5. e \in Events /\ Heeds(c, c1, x, y) /\ NoNewThought(c, c1) /\ Knows(c1, ix)
    BY <2>1, <2>4, HearsStartedTool
  <2>6. PICK c2 : c2 = ClientStep(c1, g)
    OBVIOUS
  <2>7. g \in Events /\ SameThought(c1, c2) /\ Heeds(c1, c2, x, y)
    <3>1. Good(c1) /\ Shows(c1, x, y)
      BY <2>5 DEF Heeds
    <3> QED BY <1>3, <2>2, <2>5, <2>6, <3>1, HearsArgs
  <2>8. PICK c3 : c3 = ClientStep(c2, f)
    OBVIOUS
  <2>9. f \in Events /\ Heeds(c2, c3, x, y) /\ NoNewThought(c2, c3)
    <3>1. Good(c2) /\ Shows(c2, x, y)
      BY <2>7 DEF Heeds
    <3> QED BY <1>5, <2>8, <3>1, HearsBlockDone
  <2>10. out \in Seq(Events) /\ q = c3
    BY <2>3, <2>4, <2>5, <2>6, <2>7, <2>8, <2>9, Three
  <2>11. Heeds(c, c3, x, y)
    <3>1. Heeds(c, c2, x, y)
      BY <2>5, <2>7, HeedsThen
    <3> QED BY <2>9, <3>1, HeedsThen
  <2>12. Unthought(c3, ix + 1)
    BY <2>5, <2>7, <2>9 DEF Unthought, SameThought, NoNewThought
  <2> QED BY <1>1, <1>4, <1>9, <2>10, <2>11, <2>12
<1>10. CASE kind = "image"
  <2>1. out = <<>>
    BY <1>1, <1>10 DEF ReplayBlock, IsTool
  <2>2. out \in Seq(Events) /\ q = c
    BY <2>1, HeardNothing
  <2>3. Heeds(c, c, x, y) /\ Unthought(c, ix + 1)
    BY DEF Heeds, KnownStay, Unthought
  <2> QED BY <1>1, <1>4, <1>10, <2>2, <2>3
<1> QED BY <1>3, <1>7, <1>8, <1>9, <1>10

\* A whole answer: the client is shown its texts and its thoughts.
LEMMA ReplayAnswerKeeps ==
    ASSUME NEW c, Good(c), Shows(c, <<>>, <<>>), Unthought(c, 0),
           NEW L \in Nat, NEW blocks \in [1..L -> ReplayBlocks], NEW status, NEW stop \in Stopped,
           NEW tx, tx = [k \in 1..L |-> IF blocks[k].kind = "text" THEN blocks[k].d ELSE <<>>],
           NEW th, th = [k \in 1..L |-> IF blocks[k].kind = "reasoning" THEN blocks[k].d ELSE <<>>]
    PROVE  Heeds(c, Heard(c, ReplayAnswer(blocks, status, stop)), FlattenSeq(tx), FlattenSeq(th))
<1>1. tx \in [1..L -> Seq(Pieces)] /\ th \in [1..L -> Seq(Pieces)]
  <2>1. \A k \in 1..L : blocks[k].d \in Texts
    BY DEF ReplayBlocks
  <2>2. <<>> \in Texts
    BY EmptyText
  <2>3. tx \in [1..L -> Texts]
    BY <2>1, <2>2
  <2>4. th \in [1..L -> Texts]
    BY <2>1, <2>2
  <2> QED BY <2>3, <2>4 DEF Texts
<1>0. ASSUME NEW n \in 0..(L - 1)
      PROVE  /\ Flattened(tx, n + 1) = Flattened(tx, n) \o tx[n + 1]
             /\ Flattened(th, n + 1) = Flattened(th, n) \o th[n + 1]
  BY <1>1, FlattenedTexts, Zenon
<1>2. PICK a : a = <<Lifecycle("created", ""), Lifecycle("inProgress", "")>>
  OBVIOUS
<1>3. PICK c0 : c0 = Heard(c, a)
  OBVIOUS
<1>4. a \in Seq(Events) /\ Heeds(c, c0, <<>>, <<>>) /\ Unthought(c0, 0)
  <2>1. PICK ev : ev = Lifecycle("created", "")
    OBVIOUS
  <2>2. "" \in Stopped
    BY DEF Stopped
  <2>3. PICK none : none = <<>>
    OBVIOUS
  <2>4. Shows(c, none, none)
    BY <2>3
  <2>5. ev \in Events /\ Heeds(c, ClientStep(c, ev), none, none) /\ SameThought(c, ClientStep(c, ev))
    BY <2>1, <2>2, <2>4, HearsLifecycle
  <2>6. /\ a \in Seq(Events) /\ Heeds(c, c0, none, none)
        /\ SameThought(ClientStep(c, ev), c0)
    BY <1>2, <1>3, <2>1, <2>2, <2>5, SaysThen
  <2> QED BY <2>3, <2>5, <2>6 DEF Unthought, SameThought
<1>5. PICK e : e = [k \in 1..L |-> ReplayBlock(k - 1, blocks[k])]
  OBVIOUS
<1>6. PICK G : G = [n \in 0..L |-> {q \in Memories \cup ChatMemories :
                                       /\ Heeds(c0, q, Flattened(tx, n), Flattened(th, n))
                                       /\ Unthought(q, n)}]
  OBVIOUS
<1>7. \A n \in 0..L : \A q : /\ Heeds(c0, q, Flattened(tx, n), Flattened(th, n))
                             /\ Unthought(q, n)
                             => q \in G[n]
  <2>1. \A q, x, y : Heeds(c0, q, x, y) => q \in Memories \cup ChatMemories
    BY DEF Heeds, Good, Sound
  <2> QED BY <1>6, <2>1
<1>8. c0 \in G[0]
  <2>1. Heeds(c0, c0, <<>>, <<>>)
    BY <1>4 DEF Heeds, KnownStay
  <2>2. Flattened(tx, 0) = <<>> /\ Flattened(th, 0) = <<>>
    BY FlattenedNone
  <2>3. 0 \in 0..L
    OBVIOUS
  <2> QED BY <1>4, <1>7, <2>1, <2>2, <2>3
<1>9. ASSUME NEW k \in 1..L, NEW p, NEW x, NEW y, Heeds(c0, p, x, y), Unthought(p, k - 1)
      PROVE  /\ e[k] \in Seq(Events) /\ Unthought(Heard(p, e[k]), k)
             /\ Heeds(c0, Heard(p, e[k]), x \o tx[k], y \o th[k])
  <2>1. PICK ix : ix = k - 1
    OBVIOUS
  <2>2. ix \in Nat /\ ix + 1 = k
    BY <2>1
  <2>3. PICK b : b = blocks[k]
    OBVIOUS
  <2>4. b \in ReplayBlocks
    BY <2>3
  <2>5. PICK out : out = e[k]
    OBVIOUS
  <2>6. out = ReplayBlock(ix, b)
    BY <1>5, <2>1, <2>3, <2>5
  <2>7. Good(p) /\ Shows(p, x, y) /\ Unthought(p, ix)
    BY <1>9, <2>1 DEF Heeds
  <2>8. PICK q : q = Heard(p, out)
    OBVIOUS
  <2>9. /\ out \in Seq(Events) /\ Unthought(q, ix + 1)
        /\ Heeds(p, q, x \o (IF b.kind = "text" THEN b.d ELSE <<>>),
                       y \o (IF b.kind = "reasoning" THEN b.d ELSE <<>>))
    BY <2>2, <2>4, <2>6, <2>7, <2>8, ReplayBlockKeeps
  <2>10. tx[k] = (IF b.kind = "text" THEN b.d ELSE <<>>)
         /\ th[k] = (IF b.kind = "reasoning" THEN b.d ELSE <<>>)
    BY <2>3
  <2>11. PICK z, w : z = x \o tx[k] /\ w = y \o th[k]
    OBVIOUS
  <2>12. Heeds(p, q, z, w)
    BY <2>9, <2>10, <2>11
  <2>13. Heeds(c0, q, z, w)
    BY <1>9, <2>12, HeedsThen
  <2> QED BY <2>2, <2>5, <2>8, <2>9, <2>11, <2>13
<1>10. e \in [1..L -> Seq(Events)]
  <2>1. ASSUME NEW k \in 1..L PROVE e[k] \in Seq(Events)
    <3>1. Heeds(c0, c0, <<>>, <<>>)
      BY <1>4 DEF Heeds, KnownStay
    <3>2. Unthought(c0, k - 1)
      BY <1>4 DEF Unthought
    <3>3. PICK none : none = <<>>
      OBVIOUS
    <3>4. Heeds(c0, c0, none, none)
      BY <3>1, <3>3
    <3> QED BY <1>9, <3>2, <3>4
  <2> QED BY <1>5, <2>1
<1>11. \A k \in 1..L : \A p \in G[k - 1] : Heard(p, e[k]) \in G[k]
  <2> SUFFICES ASSUME NEW k \in 1..L, NEW p \in G[k - 1] PROVE Heard(p, e[k]) \in G[k]
    OBVIOUS
  <2>1. PICK n : n = k - 1
    OBVIOUS
  <2>2. n \in 0..(L - 1) /\ n + 1 = k /\ n \in 0..L /\ k \in 0..L
    BY <2>1
  <2>3. PICK x, y : x = Flattened(tx, n) /\ y = Flattened(th, n)
    OBVIOUS
  <2>4. Heeds(c0, p, x, y) /\ Unthought(p, k - 1)
    BY <1>6, <2>1, <2>2, <2>3
  <2>5. PICK q : q = Heard(p, e[k])
    OBVIOUS
  <2>6. Unthought(q, k) /\ Heeds(c0, q, x \o tx[k], y \o th[k])
    BY <1>9, <2>4, <2>5
  <2>7. Flattened(tx, k) = x \o tx[k] /\ Flattened(th, k) = y \o th[k]
    <3>1. Flattened(tx, n + 1) = Flattened(tx, n) \o tx[n + 1]
      BY <1>0, <2>2
    <3>2. Flattened(th, n + 1) = Flattened(th, n) \o th[n + 1]
      BY <1>0, <2>2
    <3> QED BY <2>2, <2>3, <3>1, <3>2
  <2> QED BY <1>7, <2>2, <2>5, <2>6, <2>7
<1>12. PICK m : m = Flattened(e, L)
  OBVIOUS
<1>13. PICK q : q = Heard(c0, m)
  OBVIOUS
<1>14. m \in Seq(Events) /\ q \in G[L]
  BY <1>8, <1>10, <1>11, <1>12, <1>13, HearsEach
<1>15. PICK x, y : x = Flattened(tx, L) /\ y = Flattened(th, L)
  OBVIOUS
<1>16. Heeds(c0, q, x, y)
  <2>1. L \in 0..L
    OBVIOUS
  <2> QED BY <1>6, <1>14, <1>15, <2>1
<1>17. \A f : f = [k \in 1..L |-> f[k]] => Flattened(f, L) = FlattenSeq(f)
  BY DEF Flattened
<1>18. m = FlattenSeq(e) /\ x = FlattenSeq(tx) /\ y = FlattenSeq(th)
  <2>1. e = [k \in 1..L |-> e[k]]
    BY <1>5
  <2>2. tx = [k \in 1..L |-> tx[k]]
    BY <1>1
  <2>3. th = [k \in 1..L |-> th[k]]
    BY <1>1
  <2> QED BY <1>12, <1>15, <1>17, <2>1, <2>2, <2>3
<1>19. PICK ev : ev = ReplayEnd(status, stop)
  OBVIOUS
<1>20. PICK t \in {"completed", "incomplete", "failed"}, why \in Stopped : ev = Lifecycle(t, why)
  <2>1. "" \in Stopped
    BY DEF Stopped
  <2>2. ev = Lifecycle("failed", "") \/ ev = Lifecycle("incomplete", stop)
        \/ ev = Lifecycle("completed", stop)
    BY <1>19 DEF ReplayEnd
  <2> QED BY <2>1, <2>2
<1>21. PICK r : r = ClientStep(q, ev)
  OBVIOUS
<1>22. ev \in Events /\ Heeds(q, r, x, y)
  <2>1. Good(q) /\ Shows(q, x, y)
    BY <1>16 DEF Heeds
  <2> QED BY <1>20, <1>21, <2>1, HearsLifecycle
<1>23. Heeds(c, r, x, y)
  <2>1. Heeds(c, q, x, y)
    BY <1>4, <1>16, HeedsThen
  <2> QED BY <1>22, <2>1, HeedsThen
<1>24. PICK out : out = ReplayAnswer(blocks, status, stop)
  OBVIOUS
<1>25. out = (a \o m) \o <<ev>>
  <2>1. DOMAIN blocks = 1..L
    OBVIOUS
  <2> QED BY <1>2, <1>5, <1>18, <1>19, <1>24, <2>1 DEF ReplayAnswer
<1>26. Heard(c, out) = r
  BY <1>3, <1>4, <1>13, <1>14, <1>21, <1>22, <1>25, HeardThree
<1> QED BY <1>18, <1>23, <1>24, <1>26

\* The end of the channel says nothing more.
LEMMA ChatClientEndKeeps ==
    ASSUME NEW r \in ChatMemories
    PROVE  LET q == ChatClientEnd(r) IN q \in ChatMemories /\ Hushed(r, q)
<1>1. PICK o : o = OpenRole(r)
  OBVIOUS
<1>2. o \in ChatMemories /\ Hushed(r, o)
  BY <1>1, OpenRoleSends DEF ChatSent
<1>3. PICK f : f = IF o.finish = "" THEN FinishReason("", o.nextTool > 0) ELSE o.finish
  OBVIOUS
<1>4. f \in Stopped
  <2>1. "" \in Stopped /\ o.finish \in Stopped
    BY <1>2 DEF Stopped, ChatMemories
  <2>2. FinishReason("", o.nextTool > 0) \in Stopped
    BY <2>1, FinishReasonTyped
  <2> QED BY <1>3, <2>1, <2>2
<1>5. PICK p : p = [o EXCEPT !.finish = f]
  OBVIOUS
<1>6. p \in ChatMemories /\ p.frames = o.frames
  BY <1>2, <1>4, <1>5 DEF ChatMemories
<1>7. PICK a, b : a = Frame("finish", 0, <<>>) /\ b = Frame("[DONE]", 0, <<>>)
  <2>1. PICK a : a = Frame("finish", 0, <<>>)
    OBVIOUS
  <2> QED BY <2>1
<1>8. a \in Silent /\ b \in Silent
  <2>1. "finish" \in SilentNames /\ "[DONE]" \in SilentNames
    BY DEF SilentNames
  <2> QED BY <1>7, <2>1, EmptyText, FrameTyped
<1>9. <<a, b>> \in Seq(Silent)
  BY <1>8, Two
<1>10. PICK q : q = Send(p, <<a, b>>)
  OBVIOUS
<1>11. ChatSent(p, q)
  BY <1>6, <1>9, <1>10, ChatSends
<1>12. q = ChatClientEnd(r)
  BY <1>1, <1>3, <1>5, <1>7, <1>10 DEF ChatClientEnd
<1> QED BY <1>2, <1>6, <1>11, <1>12 DEF ChatSent, Hushed

---------------------------------------------------------------------------
(* The invariant *)

Spelled == [name : {"tool", "nested"}, args : Texts]
\* what an upstream can have said
Accounts ==
    [n : Nat, text : Texts, thought : Texts, calls : Seq(Spelled), ix : Nat,
     block : {"", "-"} \cup BlockKinds, searched : BOOLEAN, finish : Stopped]

\* The client shows what the upstream said, and never read past its items.
Holds(s, c) == s \in Accounts /\ Good(c) /\ Shows(c, s.text, s.thought)

\* What the converter v and the client know of each other while the stream runs.
ChatRuns(s, v, c) ==
    /\ v \in ChatConvs /\ CallsKnown(v, c)
    /\ s.calls = <<>> /\ s.finish = "" => Tuned(v, c)
    /\ s.n = 0 => ~v.reasoning
AnthropicRuns(s, v, c) ==
    /\ v \in AnthropicConvs /\ InBlock(v, c, s.ix, s.block)
    /\ s.n = 0 => s.block = ""
GoogleRuns(s, v, c) == v \in GoogleConvs /\ v.prev = s.text /\ ~Thinks(c, 0)
ReplayRuns(s, c) == s.text = <<>> /\ s.thought = <<>> /\ Unthought(c, 0)

Runs(s, v, c) ==
    /\ Chatting => ChatRuns(s, v, c)
    /\ setup.upstream = "anthropic" => AnthropicRuns(s, v, c)
    /\ setup.upstream = "google" => GoogleRuns(s, v, c)
    /\ setup.upstream = "replay" => ReplayRuns(s, c)

IInv ==
    /\ setup \in [upstream : Upstreams, client : Clients]
    /\ Holds(sent, client)
    /\ ended = "" => Runs(sent, conv, client)

\* What holds of the next values, said of the constants they are, holds next.
LEMMA Preserved ==
    ASSUME IInv, setup' = setup, NEW s, NEW v, NEW c, sent' = s, conv' = v, client' = c,
           Holds(s, c), ended' # "" \/ Runs(s, v, c)
    PROVE  IInv'
<1>1. setup' \in [upstream : Upstreams, client : Clients]
  BY DEF IInv
<1>2. Holds(sent, client)'
  <2>1. s \in Accounts /\ Good(c) /\ Shows(c, s.text, s.thought)
    BY DEF Holds
  <2>2. Good(client)'
    BY <2>1 DEF Good, Responses
  <2> QED BY <2>1, <2>2 DEF Holds
<1>3. ASSUME ended' = "" PROVE Runs(sent, conv, client)'
  <2>1. Runs(s, v, c)
    BY <1>3
  <2>2. ASSUME Chatting' PROVE ChatRuns(sent, conv, client)'
    <3>1. ChatRuns(s, v, c)
      BY <2>1, <2>2 DEF Runs, Chatting
    <3>2. CallsKnown(conv, client)'
      BY <3>1 DEF ChatRuns, CallsKnown, Knows, Responses
    <3>3. Tuned(v, c) => Tuned(conv, client)'
      BY DEF Tuned, Thinks, Responses
    <3> QED BY <3>1, <3>2, <3>3 DEF ChatRuns
  <2>3. ASSUME setup'.upstream = "anthropic" PROVE AnthropicRuns(sent, conv, client)'
    <3>1. AnthropicRuns(s, v, c)
      BY <2>1, <2>3 DEF Runs
    <3>2. InBlock(conv, client, sent.ix, sent.block)'
      BY <3>1 DEF AnthropicRuns, InBlock, Thinks, Responses
    <3> QED BY <3>1, <3>2 DEF AnthropicRuns
  <2>4. ASSUME setup'.upstream = "google" PROVE GoogleRuns(sent, conv, client)'
    <3>1. GoogleRuns(s, v, c)
      BY <2>1, <2>4 DEF Runs
    <3> QED BY <3>1 DEF GoogleRuns, Thinks, Responses
  <2>5. ASSUME setup'.upstream = "replay" PROVE ReplayRuns(sent, client)'
    <3>1. ReplayRuns(s, c)
      BY <2>1, <2>5 DEF Runs
    <3> QED BY <3>1 DEF ReplayRuns, Unthought, Thinks, Responses
  <2> QED BY <2>2, <2>3, <2>4, <2>5 DEF Runs
<1> QED BY <1>1, <1>2, <1>3 DEF IInv

LEMMA InitKeeps == Init => IInv
<1> SUFFICES ASSUME Init PROVE IInv
  OBVIOUS
<1>1. PICK s : s = sent
  OBVIOUS
<1>2. /\ s.n = 0 /\ s.text = <<>> /\ s.thought = <<>> /\ s.calls = <<>> /\ s.ix = 0
      /\ s.block = "" /\ s.searched = FALSE /\ s.finish = ""
  BY <1>1 DEF Init, Nothing
<1>3. s \in Accounts
  <2>1. <<>> \in Texts /\ "" \in Stopped
    BY EmptyText DEF Stopped
  <2>2. <<>> \in Seq(Spelled)
    OBVIOUS
  <2> QED BY <1>1, <2>1, <2>2 DEF Init, Nothing, Accounts
<1>4. PICK c : c = client
  OBVIOUS
<1>5. Good(c) /\ c.frames = <<>> /\ \A ix : ~Thinks(c, ix)
  <2>1. CASE Responses
    <3>1. c = ResponsesInit
      BY <1>4, <2>1 DEF Init, Responses
    <3>2. <<>> \in Seq(Items) /\ <<>> \in Seq(Frames)
      OBVIOUS
    <3>3. /\ NoMap \in Maps(Texts) /\ NoMap \in Maps(Nat) /\ NoMap \in Maps(NestedCalls)
      BY NoMapTyped
    <3>4. DOMAIN NoMap = {}
      BY DEF NoMap
    <3>5. c \in Memories
      BY <3>1, <3>2, <3>3 DEF ResponsesInit, Memories
    <3>6. Indexed(c) /\ Announced(c) /\ ~c.panicked
      BY <3>1, <3>4 DEF ResponsesInit, Indexed, Announced
    <3> QED BY <2>1, <3>1, <3>5, <3>6 DEF Good, Sound, Thinks, ResponsesInit
  <2>2. CASE ~Responses
    <3>1. c = ChatClientInit
      BY <1>4, <2>2 DEF Init, Responses
    <3>2. <<>> \in Seq(Frames) /\ "" \in Stopped
      BY DEF Stopped
    <3>3. NoMap \in Maps(Known)
      BY NoMapTyped
    <3>4. DOMAIN NoMap = {}
      BY DEF NoMap
    <3>5. c \in ChatMemories
      BY <3>1, <3>2, <3>3 DEF ChatClientInit, ChatMemories
    <3> QED BY <2>2, <3>1, <3>4, <3>5 DEF Good, Thinks, ChatThinking, Has, ChatClientInit
  <2> QED BY <2>1, <2>2
<1>6. Holds(s, c)
  <2>1. Shows(c, <<>>, <<>>)
    BY <1>5, ShownNone DEF Shows
  <2> QED BY <1>2, <1>3, <1>5, <2>1 DEF Holds
<1>7. PICK v : v = conv
  OBVIOUS
<1>8. Chatting => ChatRuns(s, v, c)
  <2> SUFFICES ASSUME Chatting PROVE ChatRuns(s, v, c)
    OBVIOUS
  <2>1. v = ChatInit
    BY <1>7 DEF Init
  <2>2. v \in ChatConvs /\ v.callsStarted = {} /\ ~v.reasoning
    BY <2>1, NoMapTyped DEF ChatInit, ChatConvs
  <2> QED BY <1>5, <2>2 DEF ChatRuns, CallsKnown, Tuned
<1>9. setup.upstream = "anthropic" => AnthropicRuns(s, v, c)
  <2> SUFFICES ASSUME setup.upstream = "anthropic" PROVE AnthropicRuns(s, v, c)
    OBVIOUS
  <2>1. v = AnthropicInit
    BY <1>7 DEF Init, Chatting
  <2>2. v \in AnthropicConvs
    BY <2>1, NoMapTyped DEF AnthropicInit, AnthropicConvs
  <2>3. "" \notin BlockKinds
    BY DEF BlockKinds
  <2> QED BY <1>2, <1>5, <2>2, <2>3 DEF AnthropicRuns, InBlock
<1>10. setup.upstream = "google" => GoogleRuns(s, v, c)
  <2> SUFFICES ASSUME setup.upstream = "google" PROVE GoogleRuns(s, v, c)
    OBVIOUS
  <2>1. v = GoogleInit
    BY <1>7 DEF Init, Chatting
  <2>2. v \in GoogleConvs /\ v.prev = <<>>
    BY <2>1, EmptyText DEF GoogleInit, GoogleConvs
  <2> QED BY <1>2, <1>5, <2>2 DEF GoogleRuns
<1>11. ReplayRuns(s, c)
  BY <1>2, <1>5 DEF ReplayRuns, Unthought
<1>12. Runs(s, v, c)
  BY <1>8, <1>9, <1>10, <1>11 DEF Runs
<1>13. setup \in [upstream : Upstreams, client : Clients]
  BY DEF Init
<1> QED BY <1>1, <1>4, <1>6, <1>7, <1>12, <1>13 DEF IInv

LEMMA StutterKeeps ==
    ASSUME IInv, UNCHANGED vars
    PROVE  IInv'
<1>1. PICK s : s = sent
  OBVIOUS
<1>2. PICK v : v = conv
  OBVIOUS
<1>3. PICK c : c = client
  OBVIOUS
<1>4. setup' = setup /\ sent' = s /\ conv' = v /\ client' = c /\ ended' = ended
  BY <1>1, <1>2, <1>3 DEF vars
<1>5. Holds(s, c) /\ (ended = "" => Runs(s, v, c))
  BY <1>1, <1>2, <1>3 DEF IInv
<1>6. ended' # "" \/ Runs(s, v, c)
  BY <1>4, <1>5
<1> QED BY <1>4, <1>5, <1>6, Preserved

---------------------------------------------------------------------------
(* One chunk of a Chat Completions provider *)

LEMMA PieceTyped ==
    ASSUME IInv, NEW form \in {"piece", "act", "whole"}
    PROVE  Piece(form) \in Texts /\ \A x \in Texts : x \o Piece(form) \in Texts
<1>1. sent.n \in Nat
  BY DEF IInv, Holds, Accounts
<1>2. PICK p : p = <<sent.n, form>>
  OBVIOUS
<1>3. p \in Pieces
  BY <1>1, <1>2 DEF Pieces
<1>4. <<p>> \in Texts
  BY <1>3, OnePiece
<1>5. PICK t : t = <<p>>
  OBVIOUS
<1>6. \A x \in Texts : x \o t \in Texts
  BY <1>4, <1>5, ConcatProperties DEF Texts
<1> QED BY <1>2, <1>4, <1>5, <1>6 DEF Piece

\* A chunk that is spoken, and what the upstream has said with it.
LEMMA ChatSpeaks ==
    ASSUME IInv, NEW ch \in Chunks, Speaking(ch),
           ch.calls = <<>> \/ \E call \in CallDeltas : ch.calls = <<call>>,
           sent.calls = <<>> \/ (ch.reason = <<>> /\ ch.content = <<>>),
           ch.role => sent.n = 0,
           NEW s \in Accounts, sent' = s, s.n # 0,
           s.text = sent.text \o ch.content, s.thought = sent.thought \o ch.reason,
           s.calls = <<>> => sent.calls = <<>> /\ ch.calls = <<>>,
           s.finish = "" => ch.finish = ""
    PROVE  IInv'
<1>1. PICK r : r = sent
  OBVIOUS
<1>2. PICK v : v = conv
  OBVIOUS
<1>3. PICK c : c = client
  OBVIOUS
<1>4. ended = "" /\ Chatting /\ r.finish = "" /\ setup' = setup /\ ended' = ended
  BY <1>1 DEF Speaking, Running
<1>5. /\ r \in Accounts /\ Good(c) /\ Shows(c, r.text, r.thought)
      /\ v \in ChatConvs /\ CallsKnown(v, c) /\ (r.calls = <<>> => Tuned(v, c))
      /\ (r.n = 0 => ~v.reasoning)
  <2>1. Holds(r, c)
    BY <1>1, <1>3 DEF IInv
  <2>2. Runs(r, v, c)
    BY <1>1, <1>2, <1>3, <1>4 DEF IInv
  <2>3. ChatRuns(r, v, c)
    BY <1>4, <2>2 DEF Runs
  <2> QED BY <1>4, <2>1, <2>3 DEF Holds, ChatRuns
<1>6. PICK o : o = ChatStep(Local, v, ch)
  OBVIOUS
<1>7. PICK q : q = Heard(c, o.out)
  OBVIOUS
<1>8. PICK st : st = o.st
  OBVIOUS
<1>9. conv' = st /\ client' = q
  BY <1>2, <1>3, <1>6, <1>7, <1>8 DEF Speaking, Convert
<1>10. PICK x, y : x = r.text /\ y = r.thought
  <2>1. PICK x : x = r.text
    OBVIOUS
  <2> QED BY <2>1
<1>11. Shows(c, x, y)
  BY <1>5, <1>10
<1>12. /\ Loose(o, c, x \o ch.content, y \o ch.reason)
       /\ (Tuned(v, c) /\ ch.calls = <<>> /\ ch.finish = "") => TunedTo(o, c)
  <2>1. Tuned(v, c) \/ (ch.reason = <<>> /\ ch.content = <<>>)
    BY <1>1, <1>5
  <2>2. ch.role => ~v.reasoning
    BY <1>1, <1>5
  <2> QED BY <1>5, <1>6, <1>11, <2>1, <2>2, ChatStepKeeps
<1>13. st \in ChatConvs /\ Good(q) /\ Shows(q, s.text, s.thought) /\ CallsKnown(st, q)
  <2>1. s.text = x \o ch.content /\ s.thought = y \o ch.reason
    BY <1>1, <1>10
  <2>2. Loose(o, c, s.text, s.thought)
    BY <1>12, <2>1
  <2> QED BY <1>7, <1>8, <2>2 DEF Loose, Heeds
<1>14. s.calls = <<>> /\ s.finish = "" => Tuned(st, q)
  <2> SUFFICES ASSUME s.calls = <<>>, s.finish = "" PROVE Tuned(st, q)
    OBVIOUS
  <2>1. ch.calls = <<>> /\ ch.finish = "" /\ r.calls = <<>>
    BY <1>1
  <2>2. Tuned(v, c)
    BY <1>5, <2>1
  <2>3. TunedTo(o, c)
    BY <1>12, <2>1, <2>2
  <2> QED BY <1>7, <1>8, <2>3 DEF TunedTo
<1>15. ChatRuns(s, st, q)
  BY <1>13, <1>14 DEF ChatRuns
<1>16. Runs(s, st, q)
  BY <1>4, <1>15 DEF Runs, Chatting
<1>17. Holds(s, q)
  BY <1>13 DEF Holds
<1> QED BY <1>4, <1>9, <1>16, <1>17, Preserved

LEMMA NoCallTyped == <<>> \in Seq(CallDeltas) /\ <<>> \in Texts
<1>1. <<>> \in Seq(CallDeltas)
  OBVIOUS
<1> QED BY <1>1, EmptyText

\* What the upstream said, counted.
LEMMA ToldTyped ==
    ASSUME NEW w \in Accounts, Told(w), NEW s, s = sent'
    PROVE  /\ s \in Accounts /\ s.n # 0 /\ s.text = w.text /\ s.thought = w.thought
           /\ s.calls = w.calls /\ s.ix = w.ix /\ s.block = w.block /\ s.finish = w.finish
<1>1. PICK m : m = w.n + 1
  OBVIOUS
<1>2. m \in Nat /\ m # 0
  <2>1. PICK n : n = w.n
    OBVIOUS
  <2>2. n \in Nat
    BY <2>1 DEF Accounts
  <2> QED BY <1>1, <2>1, <2>2
<1>3. s = [w EXCEPT !.n = m]
  BY <1>1 DEF Told
<1> QED BY <1>2, <1>3 DEF Accounts

LEMMA NothingSaid ==
    ASSUME NEW s \in Accounts
    PROVE  s.text = s.text \o <<>> /\ s.thought = s.thought \o <<>>
<1>1. s.text \in Seq(Pieces) /\ s.thought \in Seq(Pieces)
  BY DEF Accounts, Texts
<1> QED BY <1>1, ConcatEmptySeq

LEMMA ChatThinksKeeps ==
    ASSUME IInv, ChatThinks
    PROVE  IInv'
<1>1. PICK d : d = Piece("piece")
  OBVIOUS
<1>2. d \in Texts /\ \A x \in Texts : x \o d \in Texts
  BY <1>1, PieceTyped
<1>3. PICK role \in Roles :
        /\ sent.calls = <<>>
        /\ Speaking(Chunk(role, d, <<>>, <<>>, ""))
        /\ Told([sent EXCEPT !.thought = @ \o d])
  BY <1>1 DEF ChatThinks
<1>4. role \in BOOLEAN /\ (role => sent.n = 0)
  BY DEF Roles
<1>5. PICK ch : ch = Chunk(role, d, <<>>, <<>>, "")
  OBVIOUS
<1>6. /\ ch \in Chunks /\ ch.role = role /\ ch.reason = d /\ ch.content = <<>>
      /\ ch.calls = <<>> /\ ch.finish = ""
  BY <1>2, <1>4, <1>5, NoCallTyped DEF Chunk, Chunks
<1>7. PICK r : r = sent
  OBVIOUS
<1>8. r \in Accounts
  BY <1>7 DEF IInv, Holds
<1>9. PICK w : w = [r EXCEPT !.thought = r.thought \o d]
  OBVIOUS
<1>10. /\ w \in Accounts /\ w.text = r.text /\ w.thought = r.thought \o d
       /\ w.calls = r.calls /\ w.finish = r.finish
  BY <1>2, <1>8, <1>9 DEF Accounts
<1>11. Told(w)
  BY <1>3, <1>7, <1>9
<1>12. PICK s : s = sent'
  OBVIOUS
<1>13. /\ s \in Accounts /\ s.n # 0 /\ s.text = w.text /\ s.thought = w.thought
       /\ s.calls = w.calls /\ s.finish = w.finish
  BY <1>10, <1>11, <1>12, ToldTyped
<1>14. /\ s.text = sent.text \o <<>> /\ s.thought = sent.thought \o d
       /\ s.calls = sent.calls
  BY <1>7, <1>8, <1>10, <1>13, NothingSaid
<1> QED BY <1>3, <1>4, <1>5, <1>6, <1>12, <1>13, <1>14, ChatSpeaks

LEMMA ChatSaysKeeps ==
    ASSUME IInv, ChatSays
    PROVE  IInv'
<1>1. PICK d : d = Piece("piece")
  OBVIOUS
<1>2. d \in Texts /\ \A x \in Texts : x \o d \in Texts
  BY <1>1, PieceTyped
<1>3. PICK role \in Roles, finish \in Finishes :
        /\ sent.calls = <<>>
        /\ Speaking(Chunk(role, <<>>, d, <<>>, finish))
        /\ Told([sent EXCEPT !.text = @ \o d, !.finish = finish])
  BY <1>1 DEF ChatSays
<1>4. role \in BOOLEAN /\ (role => sent.n = 0) /\ finish \in {"", "stop", "length"}
  BY DEF Roles, Finishes
<1>5. PICK ch : ch = Chunk(role, <<>>, d, <<>>, finish)
  OBVIOUS
<1>6. /\ ch \in Chunks /\ ch.role = role /\ ch.reason = <<>> /\ ch.content = d
      /\ ch.calls = <<>> /\ ch.finish = finish
  BY <1>2, <1>4, <1>5, NoCallTyped DEF Chunk, Chunks, Stopped
<1>7. PICK r : r = sent
  OBVIOUS
<1>8. r \in Accounts
  BY <1>7 DEF IInv, Holds
<1>9. PICK w : w = [r EXCEPT !.text = r.text \o d, !.finish = finish]
  OBVIOUS
<1>10. finish \in Stopped
  BY <1>4 DEF Stopped
<1>11. /\ w \in Accounts /\ w.text = r.text \o d /\ w.thought = r.thought
       /\ w.calls = r.calls /\ w.finish = finish
  BY <1>2, <1>8, <1>9, <1>10 DEF Accounts
<1>12. Told(w)
  BY <1>3, <1>7, <1>9
<1>13. PICK s : s = sent'
  OBVIOUS
<1>14. /\ s \in Accounts /\ s.n # 0 /\ s.text = w.text /\ s.thought = w.thought
       /\ s.calls = w.calls /\ s.finish = w.finish
  BY <1>11, <1>12, <1>13, ToldTyped
<1>15. /\ s.text = sent.text \o d /\ s.thought = sent.thought \o <<>>
       /\ s.calls = sent.calls /\ s.finish = finish
  BY <1>7, <1>8, <1>11, <1>14, NothingSaid
<1> QED BY <1>3, <1>4, <1>5, <1>6, <1>13, <1>14, <1>15, ChatSpeaks

\* A chunk with one delta of a call.
LEMMA OneDelta ==
    ASSUME NEW call \in CallDeltas, NEW role \in BOOLEAN
    PROVE  LET ch == Chunk(role, <<>>, <<>>, <<call>>, "")
           IN  /\ ch \in Chunks /\ ch.role = role /\ ch.reason = <<>> /\ ch.content = <<>>
               /\ ch.calls = <<call>> /\ ch.calls # <<>> /\ ch.finish = ""
<1>1. PICK one : one = <<call>>
  OBVIOUS
<1>2. one \in Seq(CallDeltas) /\ one # <<>>
  BY <1>1
<1>3. "" \in Stopped
  BY DEF Stopped
<1> QED BY <1>1, <1>2, <1>3, NoCallTyped DEF Chunk, Chunks

\* What is said of a call.
LEMMA DeltaSpoken ==
    ASSUME IInv, NEW call \in CallDeltas, NEW role \in BOOLEAN, role => sent.n = 0,
           Speaking(Chunk(role, <<>>, <<>>, <<call>>, "")),
           NEW calls \in Seq(Spelled), calls # <<>>, Told([sent EXCEPT !.calls = calls])
    PROVE  IInv'
<1>1. PICK ch : ch = Chunk(role, <<>>, <<>>, <<call>>, "")
  OBVIOUS
<1>2. /\ ch \in Chunks /\ ch.role = role /\ ch.reason = <<>> /\ ch.content = <<>>
      /\ ch.calls = <<call>> /\ ch.calls # <<>> /\ ch.finish = ""
  BY <1>1, OneDelta
<1>3. PICK r : r = sent
  OBVIOUS
<1>4. r \in Accounts
  BY <1>3 DEF IInv, Holds
<1>5. PICK w : w = [r EXCEPT !.calls = calls]
  OBVIOUS
<1>6. w \in Accounts /\ w.text = r.text /\ w.thought = r.thought /\ w.calls = calls
  BY <1>4, <1>5 DEF Accounts
<1>7. Told(w)
  BY <1>3, <1>5
<1>8. PICK s : s = sent'
  OBVIOUS
<1>9. /\ s \in Accounts /\ s.n # 0 /\ s.text = w.text /\ s.thought = w.thought
      /\ s.calls = w.calls
  BY <1>6, <1>7, <1>8, ToldTyped
<1>10. s.text = sent.text \o <<>> /\ s.thought = sent.thought \o <<>> /\ s.calls # <<>>
  BY <1>3, <1>4, <1>6, <1>9, NothingSaid
<1>11. Speaking(ch)
  BY <1>1
<1> QED BY <1>2, <1>8, <1>9, <1>10, <1>11, ChatSpeaks

LEMMA ChatCallsKeeps ==
    ASSUME IInv, ChatCalls
    PROVE  IInv'
<1>0. PICK role \in Roles, name \in {"tool", "nested"} :
        \E args \in {<<>>} \cup {Piece(form) : form \in CallForms(name)} :
          /\ Speaking(Chunk(role, <<>>, <<>>,
                            <<[pos |-> Len(sent.calls), name |-> name, args |-> args]>>, ""))
          /\ Told([sent EXCEPT !.calls = Append(@, [name |-> name, args |-> args])])
  BY Zenon DEF ChatCalls
<1>1. PICK args \in {<<>>} \cup {Piece(form) : form \in CallForms(name)} :
        /\ Speaking(Chunk(role, <<>>, <<>>,
                          <<[pos |-> Len(sent.calls), name |-> name, args |-> args]>>, ""))
        /\ Told([sent EXCEPT !.calls = Append(@, [name |-> name, args |-> args])])
  BY <1>0
<1>2. role \in BOOLEAN /\ (role => sent.n = 0)
  BY DEF Roles
<1>3. args \in Texts
  <2>1. CallForms(name) \subseteq {"piece", "act", "whole"}
    BY DEF CallForms
  <2>2. \A form \in CallForms(name) : Piece(form) \in Texts
    BY <2>1, PieceTyped
  <2> QED BY <2>2, EmptyText
<1>4. PICK calls : calls = sent.calls
  OBVIOUS
<1>5. calls \in Seq(Spelled)
  BY <1>4 DEF IInv, Holds, Accounts
<1>6. PICK call : call = [pos |-> Len(calls), name |-> name, args |-> args]
  OBVIOUS
<1>7. call \in CallDeltas
  <2>1. Len(calls) \in Nat
    BY <1>5, LenProperties
  <2> QED BY <1>3, <1>6, <2>1 DEF CallDeltas
<1>8. PICK new : new = [name |-> name, args |-> args]
  OBVIOUS
<1>9. new \in Spelled
  BY <1>3, <1>8 DEF Spelled
<1>10. PICK more : more = Append(calls, new)
  OBVIOUS
<1>11. more \in Seq(Spelled) /\ more # <<>>
  BY <1>5, <1>9, <1>10
<1>12. Speaking(Chunk(role, <<>>, <<>>, <<call>>, ""))
  BY <1>1, <1>4, <1>6
<1>13. Told([sent EXCEPT !.calls = more])
  BY <1>1, <1>4, <1>8, <1>10
<1> QED BY <1>2, <1>7, <1>11, <1>12, <1>13, DeltaSpoken

\* A call's arguments that grow by a piece.
LEMMA ArgsGrow ==
    ASSUME NEW calls \in Seq(Spelled), NEW k \in DOMAIN calls, NEW d \in Texts
    PROVE  [calls EXCEPT ![k].args = @ \o d] \in Seq(Spelled) \ {<<>>}
<1>1. PICK L : L = Len(calls)
  OBVIOUS
<1>2. L \in Nat /\ DOMAIN calls = 1..L /\ \A j \in 1..L : calls[j] \in Spelled
  BY <1>1, LenProperties, ElementOfSeq
<1>3. PICK args : args = calls[k].args \o d
  OBVIOUS
<1>4. args \in Texts
  <2>1. calls[k].args \in Texts
    BY <1>2 DEF Spelled
  <2> QED BY <1>3, <2>1, ConcatProperties DEF Texts
<1>5. PICK new : new = [calls[k] EXCEPT !.args = args]
  OBVIOUS
<1>6. new \in Spelled
  BY <1>2, <1>4, <1>5 DEF Spelled
<1>7. PICK more : more = [calls EXCEPT ![k].args = @ \o d]
  OBVIOUS
<1>8. more = [j \in 1..L |-> IF j = k THEN new ELSE calls[j]]
  BY <1>2, <1>3, <1>5, <1>7
<1>9. more \in [1..L -> Spelled]
  BY <1>2, <1>6, <1>8
<1>10. more \in Seq(Spelled) /\ Len(more) = L
  BY <1>2, <1>9, ListTyped
<1>11. more # <<>>
  BY <1>2, <1>10
<1> QED BY <1>7, <1>10, <1>11

LEMMA ChatArguesKeeps ==
    ASSUME IInv, ChatArgues
    PROVE  IInv'
<1>0. PICK k \in DOMAIN sent.calls : \E form \in CallForms(sent.calls[k].name) \ {"whole"} :
        /\ Speaking(Chunk(FALSE, <<>>, <<>>,
                          <<[pos |-> k - 1, name |-> "", args |-> Piece(form)]>>, ""))
        /\ Told([sent EXCEPT !.calls[k].args = @ \o Piece(form)])
  BY Zenon DEF ChatArgues
<1>1. PICK form \in CallForms(sent.calls[k].name) \ {"whole"} :
        /\ Speaking(Chunk(FALSE, <<>>, <<>>,
                          <<[pos |-> k - 1, name |-> "", args |-> Piece(form)]>>, ""))
        /\ Told([sent EXCEPT !.calls[k].args = @ \o Piece(form)])
  BY <1>0
<1>2. PICK calls : calls = sent.calls
  OBVIOUS
<1>3. sent \in Accounts
  BY DEF IInv, Holds
<1>4. calls \in Seq(Spelled)
  BY <1>2, <1>3 DEF Accounts
<1>5. form \in {"piece", "act", "whole"}
  BY DEF CallForms
<1>6. PICK d : d = Piece(form)
  OBVIOUS
<1>7. d \in Texts
  BY <1>5, <1>6, PieceTyped
<1>8. PICK call : call = [pos |-> k - 1, name |-> "", args |-> d]
  OBVIOUS
<1>9. call \in CallDeltas
  <2>1. k \in 1..Len(calls) /\ Len(calls) \in Nat
    BY <1>2, <1>4, LenProperties
  <2>2. k - 1 \in Nat
    BY <2>1
  <2> QED BY <1>7, <1>8, <2>2 DEF CallDeltas
<1>10. PICK more : more = [calls EXCEPT ![k].args = @ \o d]
  OBVIOUS
<1>11. more \in Seq(Spelled) /\ more # <<>>
  BY <1>2, <1>4, <1>7, <1>10, ArgsGrow
<1>12. [sent EXCEPT !.calls[k].args = @ \o d] = [sent EXCEPT !.calls = more]
  BY <1>2, <1>10
<1>13. Told([sent EXCEPT !.calls = more])
  BY <1>1, <1>6, <1>12
<1>14. Speaking(Chunk(FALSE, <<>>, <<>>, <<call>>, ""))
  BY <1>1, <1>6, <1>8
<1> QED BY <1>9, <1>11, <1>13, <1>14, DeltaSpoken

LEMMA ChatBareKeeps ==
    ASSUME IInv, ChatBare
    PROVE  IInv'
<1>1. PICK role \in Roles, finish \in Finishes \cup {"tool_calls"} :
        /\ Speaking(Chunk(role, <<>>, <<>>, <<>>, finish))
        /\ Told([sent EXCEPT !.finish = finish])
  BY DEF ChatBare
<1>2. /\ role \in BOOLEAN /\ (role => sent.n = 0)
      /\ finish \in {"", "stop", "length", "tool_calls"} /\ finish \in Stopped
  BY DEF Roles, Finishes, Stopped
<1>3. PICK ch : ch = Chunk(role, <<>>, <<>>, <<>>, finish)
  OBVIOUS
<1>4. /\ ch \in Chunks /\ ch.role = role /\ ch.reason = <<>> /\ ch.content = <<>>
      /\ ch.calls = <<>> /\ ch.finish = finish
  BY <1>2, <1>3, NoCallTyped DEF Chunk, Chunks
<1>5. PICK r : r = sent
  OBVIOUS
<1>6. r \in Accounts
  BY <1>5 DEF IInv, Holds
<1>7. PICK w : w = [r EXCEPT !.finish = finish]
  OBVIOUS
<1>8. /\ w \in Accounts /\ w.text = r.text /\ w.thought = r.thought
      /\ w.calls = r.calls /\ w.finish = finish
  BY <1>2, <1>6, <1>7 DEF Accounts
<1>9. Told(w)
  BY <1>1, <1>5, <1>7
<1>10. PICK s : s = sent'
  OBVIOUS
<1>11. /\ s \in Accounts /\ s.n # 0 /\ s.text = w.text /\ s.thought = w.thought
       /\ s.calls = w.calls /\ s.finish = w.finish
  BY <1>8, <1>9, <1>10, ToldTyped
<1>12. /\ s.text = sent.text \o <<>> /\ s.thought = sent.thought \o <<>>
       /\ s.calls = sent.calls /\ s.finish = finish
  BY <1>5, <1>6, <1>8, <1>11, NothingSaid
<1> QED BY <1>1, <1>2, <1>3, <1>4, <1>10, <1>11, <1>12, ChatSpeaks

---------------------------------------------------------------------------
(* One event of an Anthropic provider *)

\* Where the stream stands when the event comes: r was said, v and c remember.
AnthropicNow(r, v, c) ==
    /\ r \in Accounts /\ Good(c) /\ Shows(c, r.text, r.thought)
    /\ v \in AnthropicConvs /\ InBlock(v, c, r.ix, r.block)
    /\ r.n = 0 => r.block = ""
    /\ r = sent /\ v = conv /\ c = client

LEMMA AnthropicTells ==
    ASSUME IInv, NEW ev, Telling(ev)
    PROVE  \E r, v, c : AnthropicNow(r, v, c)
<1>1. ended = "" /\ setup.upstream = "anthropic"
  BY DEF Telling, Running
<1>2. PICK r : r = sent
  OBVIOUS
<1>3. PICK v : v = conv
  OBVIOUS
<1>4. PICK c : c = client
  OBVIOUS
<1>5. Holds(r, c) /\ Runs(r, v, c)
  BY <1>1, <1>2, <1>3, <1>4 DEF IInv
<1>6. AnthropicRuns(r, v, c)
  BY <1>1, <1>5 DEF Runs
<1>7. AnthropicNow(r, v, c)
  BY <1>2, <1>3, <1>4, <1>5, <1>6 DEF AnthropicNow, Holds, AnthropicRuns
<1> QED BY <1>7

LEMMA AnthropicTold ==
    ASSUME IInv, NEW ev, Telling(ev), NEW r, NEW v, NEW c, AnthropicNow(r, v, c),
           NEW w \in Accounts, Told(w),
           NEW o, o = AnthropicStep(v, ev), NEW q, q = Heard(c, o.out),
           o.st \in AnthropicConvs, Heeds(c, q, w.text, w.thought), InBlock(o.st, q, w.ix, w.block)
    PROVE  IInv'
<1>1. ended = "" /\ setup.upstream = "anthropic" /\ setup' = setup /\ ended' = ended
  BY DEF Telling, Running
<1>2. PICK st : st = o.st
  OBVIOUS
<1>3. conv' = st /\ client' = q
  <2>1. v = conv /\ c = client
    BY DEF AnthropicNow
  <2> QED BY <1>2, <2>1 DEF Telling, Convert
<1>4. PICK s : s = sent'
  OBVIOUS
<1>5. /\ s \in Accounts /\ s.n # 0 /\ s.text = w.text /\ s.thought = w.thought
      /\ s.ix = w.ix /\ s.block = w.block
  BY <1>4, ToldTyped
<1>6. Holds(s, q)
  BY <1>5 DEF Holds, Heeds
<1>7. AnthropicRuns(s, st, q)
  <2>1. PICK ix, block : ix = w.ix /\ block = w.block
    <3>1. PICK ix : ix = w.ix
      OBVIOUS
    <3> QED BY <3>1
  <2>2. InBlock(st, q, ix, block)
    BY <1>2, <2>1
  <2>3. s.ix = ix /\ s.block = block
    BY <1>5, <2>1
  <2> QED BY <1>2, <1>5, <2>2, <2>3 DEF AnthropicRuns
<1>8. Runs(s, st, q)
  BY <1>1, <1>7 DEF Runs, Chatting
<1> QED BY <1>1, <1>3, <1>4, <1>6, <1>8, Preserved

LEMMA AnthropicStartsKeeps ==
    ASSUME IInv, AnthropicStarts
    PROVE  IInv'
<1>1. PICK ev : ev = Block("message_start", "", "", <<>>, FALSE)
  OBVIOUS
<1>2. Telling(ev) /\ ev.t = "message_start" /\ sent.n = 0 /\ Told([sent EXCEPT !.block = "-"])
  BY <1>1 DEF AnthropicStarts, Block
<1>3. PICK r, v, c : AnthropicNow(r, v, c)
  BY <1>2, AnthropicTells
<1>4. PICK w : w = [r EXCEPT !.block = "-"]
  OBVIOUS
<1>5. /\ w \in Accounts /\ w.text = r.text /\ w.thought = r.thought /\ w.ix = r.ix
      /\ w.block = "-" /\ Told(w) /\ r.block = ""
  BY <1>2, <1>3, <1>4 DEF AnthropicNow, Accounts
<1>6. PICK o : o = AnthropicStep(v, ev)
  OBVIOUS
<1>7. o.st = v /\ o.out = <<Lifecycle("created", ""), Lifecycle("itemAdded", "")>>
  BY <1>2, <1>6 DEF AnthropicStep
<1>8. PICK q : q = Heard(c, o.out)
  OBVIOUS
<1>9. PICK x : x = r.text
  OBVIOUS
<1>10. PICK y : y = r.thought
  OBVIOUS
<1>11. Good(c) /\ Shows(c, x, y)
  BY <1>3, <1>9, <1>10 DEF AnthropicNow
<1>12. Heeds(c, q, x, y) /\ SameThought(c, q)
  <2>1. PICK e : e = Lifecycle("created", "")
    OBVIOUS
  <2>2. "" \in Stopped
    BY DEF Stopped
  <2>3. e \in Events /\ Heeds(c, ClientStep(c, e), x, y) /\ SameThought(c, ClientStep(c, e))
    BY <1>11, <2>1, <2>2, HearsLifecycle
  <2>4. PICK out : out = o.out
    OBVIOUS
  <2>5. out = <<e, Lifecycle("itemAdded", "")>>
    BY <1>7, <2>1, <2>4
  <2>6. Heeds(c, Heard(c, out), x, y) /\ SameThought(ClientStep(c, e), Heard(c, out))
    BY <2>2, <2>3, <2>5, SaysThen
  <2> QED BY <1>8, <2>3, <2>4, <2>6 DEF SameThought
<1>13. InBlock(v, q, w.ix, w.block)
  <2>1. InBlock(v, c, r.ix, "")
    BY <1>3, <1>5 DEF AnthropicNow
  <2>2. "-" \notin BlockKinds
    BY DEF BlockKinds
  <2>3. r.ix \in Nat
    BY <1>3 DEF AnthropicNow, Accounts
  <2> QED BY <1>5, <1>12, <2>1, <2>2, <2>3 DEF InBlock, SameThought
<1>14. v \in AnthropicConvs
  BY <1>3 DEF AnthropicNow
<1> QED BY <1>2, <1>3, <1>5, <1>6, <1>7, <1>8, <1>9, <1>10, <1>12, <1>13, <1>14, AnthropicTold

LEMMA AnthropicOpensKeeps ==
    ASSUME IInv, AnthropicOpens
    PROVE  IInv'
<1>1. PICK kind \in {"text", "thinking", "tool", "nested",
                     "server_tool_use", "web_search_tool_result"} :
        /\ sent.block = "-"
        /\ Telling(Block("content_block_start", kind, "", <<>>, FALSE))
        /\ Told([sent EXCEPT !.block = kind,
                   !.calls = IF IsTool(kind) THEN Append(@, [name |-> kind, args |-> <<>>]) ELSE @])
  BY DEF AnthropicOpens
<1>2. PICK ev : ev = Block("content_block_start", kind, "", <<>>, FALSE)
  OBVIOUS
<1>3. Telling(ev) /\ ev.t = "content_block_start" /\ ev.ix = sent.ix /\ ev.kind = kind
  BY <1>1, <1>2 DEF Block
<1>4. PICK r, v, c : AnthropicNow(r, v, c)
  BY <1>3, AnthropicTells
<1>5. r \in Accounts /\ r = sent /\ r.ix \in Nat
  BY <1>4 DEF AnthropicNow, Accounts
<1>6. PICK calls : calls = IF IsTool(kind) THEN Append(r.calls, [name |-> kind, args |-> <<>>])
                           ELSE r.calls
  OBVIOUS
<1>7. calls \in Seq(Spelled)
  <2>1. PICK before : before = r.calls
    OBVIOUS
  <2>2. before \in Seq(Spelled)
    BY <1>5, <2>1 DEF Accounts
  <2>3. PICK new : new = [name |-> kind, args |-> <<>>]
    OBVIOUS
  <2>4. IsTool(kind) => new \in Spelled
    BY <2>3, EmptyText DEF IsTool, Spelled
  <2>5. IsTool(kind) => Append(before, new) \in Seq(Spelled)
    BY <2>2, <2>4, AppendProperties
  <2> QED BY <1>6, <2>1, <2>2, <2>3, <2>5
<1>8. PICK w : w = [r EXCEPT !.block = kind, !.calls = calls]
  OBVIOUS
<1>9. Told(w)
  <2>1. w = [sent EXCEPT !.block = kind,
                !.calls = IF IsTool(kind) THEN Append(@, [name |-> kind, args |-> <<>>]) ELSE @]
    BY <1>5, <1>6, <1>8
  <2> QED BY <1>1, <2>1
<1>10. kind \in BlockKinds
  BY DEF BlockKinds
<1>11. /\ w \in Accounts /\ w.text = r.text /\ w.thought = r.thought /\ w.ix = r.ix
       /\ w.block = kind
  BY <1>5, <1>7, <1>8, <1>10 DEF Accounts
<1>12. PICK o : o = AnthropicStep(v, ev)
  OBVIOUS
<1>13. o = AnthropicBlockStart(v, ev)
  BY <1>3, <1>12 DEF AnthropicStep
<1>14. PICK q : q = Heard(c, o.out)
  OBVIOUS
<1>15. PICK x : x = r.text
  OBVIOUS
<1>16. PICK y : y = r.thought
  OBVIOUS
<1>17. PICK ix : ix = r.ix
  OBVIOUS
<1>18. /\ v \in AnthropicConvs /\ Good(c) /\ Shows(c, x, y)
       /\ ix \in Nat /\ InBlock(v, c, ix, "-") /\ ev.ix = ix
  <2>1. r.block = "-"
    BY <1>1, <1>5
  <2> QED BY <1>3, <1>4, <1>5, <1>15, <1>16, <1>17, <2>1 DEF AnthropicNow
<1>19. o.st \in AnthropicConvs /\ Heeds(c, q, x, y) /\ InBlock(o.st, q, ix, kind)
  BY <1>3, <1>10, <1>13, <1>14, <1>18, BlockOpened
<1> QED BY <1>3, <1>4, <1>9, <1>11, <1>12, <1>14, <1>15, <1>16, <1>17, <1>19, AnthropicTold

LEMMA AnthropicSaysKeeps ==
    ASSUME IInv, AnthropicSays
    PROVE  IInv'
<1>1. PICK d : d = Piece("piece")
  OBVIOUS
<1>2. d \in Texts /\ \A x \in Texts : x \o d \in Texts
  BY <1>1, PieceTyped
<1>3. PICK ev : ev = Block("content_block_delta", "", "text", d, FALSE)
  OBVIOUS
<1>4. /\ Telling(ev) /\ Told([sent EXCEPT !.text = @ \o d]) /\ sent.block = "text"
      /\ ev.t = "content_block_delta" /\ ev.ix = sent.ix /\ ev.delta = "text" /\ ev.d = d
      /\ ~ev.status
  BY <1>1, <1>3 DEF AnthropicSays, Block
<1>5. PICK r, v, c : AnthropicNow(r, v, c)
  BY <1>4, AnthropicTells
<1>6. PICK x : x = r.text
  OBVIOUS
<1>7. PICK y : y = r.thought
  OBVIOUS
<1>8. PICK ix : ix = r.ix
  OBVIOUS
<1>9. /\ v \in AnthropicConvs /\ Good(c) /\ Shows(c, x, y)
      /\ ix \in Nat /\ InBlock(v, c, ix, "text") /\ ev.ix = ix /\ x \in Texts
  BY <1>4, <1>5, <1>6, <1>7, <1>8 DEF AnthropicNow, Accounts
<1>10. PICK w : w = [r EXCEPT !.text = x \o d]
  OBVIOUS
<1>11. /\ w \in Accounts /\ w.text = x \o d /\ w.thought = y /\ w.ix = ix /\ w.block = "text"
       /\ Told(w)
  BY <1>2, <1>4, <1>5, <1>6, <1>7, <1>8, <1>9, <1>10 DEF AnthropicNow, Accounts
<1>12. PICK o : o = AnthropicStep(v, ev)
  OBVIOUS
<1>13. o = AnthropicBlockDelta(v, ev)
  BY <1>4, <1>12 DEF AnthropicStep
<1>14. PICK q : q = Heard(c, o.out)
  OBVIOUS
<1>15. o.st = v /\ Heeds(c, q, x \o d, y) /\ InBlock(v, q, ix, "text")
  BY <1>2, <1>4, <1>9, <1>13, <1>14, TextSaid
<1> QED BY <1>4, <1>5, <1>9, <1>11, <1>12, <1>14, <1>15, AnthropicTold

LEMMA AnthropicThinksKeeps ==
    ASSUME IInv, AnthropicThinks
    PROVE  IInv'
<1>1. PICK d : d = Piece("piece")
  OBVIOUS
<1>2. d \in Texts /\ \A x \in Texts : x \o d \in Texts
  BY <1>1, PieceTyped
<1>3. PICK ev : ev = Block("content_block_delta", "", "thinking", d, FALSE)
  OBVIOUS
<1>4. /\ Telling(ev) /\ Told([sent EXCEPT !.thought = @ \o d]) /\ sent.block = "thinking"
      /\ ev.t = "content_block_delta" /\ ev.ix = sent.ix /\ ev.delta = "thinking" /\ ev.d = d
  BY <1>1, <1>3 DEF AnthropicThinks, Block
<1>5. PICK r, v, c : AnthropicNow(r, v, c)
  BY <1>4, AnthropicTells
<1>6. PICK x : x = r.text
  OBVIOUS
<1>7. PICK y : y = r.thought
  OBVIOUS
<1>8. PICK ix : ix = r.ix
  OBVIOUS
<1>9. /\ v \in AnthropicConvs /\ Good(c) /\ Shows(c, x, y)
      /\ ix \in Nat /\ InBlock(v, c, ix, "thinking") /\ ev.ix = ix /\ y \in Texts
  BY <1>4, <1>5, <1>6, <1>7, <1>8 DEF AnthropicNow, Accounts
<1>10. PICK w : w = [r EXCEPT !.thought = y \o d]
  OBVIOUS
<1>11. /\ w \in Accounts /\ w.text = x /\ w.thought = y \o d /\ w.ix = ix
       /\ w.block = "thinking" /\ Told(w)
  BY <1>2, <1>4, <1>5, <1>6, <1>7, <1>8, <1>9, <1>10 DEF AnthropicNow, Accounts
<1>12. PICK o : o = AnthropicStep(v, ev)
  OBVIOUS
<1>13. o = AnthropicBlockDelta(v, ev)
  BY <1>4, <1>12 DEF AnthropicStep
<1>14. PICK q : q = Heard(c, o.out)
  OBVIOUS
<1>15. o.st = v /\ Heeds(c, q, x, y \o d) /\ InBlock(v, q, ix, "thinking")
  BY <1>2, <1>4, <1>9, <1>13, <1>14, ThoughtSaid
<1> QED BY <1>4, <1>5, <1>9, <1>11, <1>12, <1>14, <1>15, AnthropicTold

\* A delta that shows nothing: r's text and block stay what they are.
LEMMA AnthropicHushed ==
    ASSUME IInv, NEW ev, Telling(ev), NEW r, NEW v, NEW c, AnthropicNow(r, v, c),
           ev.t = "content_block_delta", ev.ix = sent.ix,
           NEW d \in Texts, ev.d = d,
           \/ ev.delta = "json" /\ sent.block \in {"tool", "nested", "server_tool_use"}
           \/ ev.delta = "text" /\ ev.status,
           NEW w \in Accounts, Told(w), w.text = r.text, w.thought = r.thought,
           w.ix = r.ix, w.block = r.block
    PROVE  IInv'
<1>1. PICK x : x = r.text
  OBVIOUS
<1>2. PICK y : y = r.thought
  OBVIOUS
<1>3. PICK ix : ix = r.ix
  OBVIOUS
<1>4. PICK block : block = r.block
  OBVIOUS
<1>5. /\ v \in AnthropicConvs /\ Good(c) /\ Shows(c, x, y)
      /\ ix \in Nat /\ InBlock(v, c, ix, block) /\ ev.ix = ix /\ block = sent.block
  BY <1>1, <1>2, <1>3, <1>4 DEF AnthropicNow, Accounts
<1>6. PICK o : o = AnthropicStep(v, ev)
  OBVIOUS
<1>7. o = AnthropicBlockDelta(v, ev)
  BY <1>6 DEF AnthropicStep
<1>8. PICK q : q = Heard(c, o.out)
  OBVIOUS
<1>9. o.st \in AnthropicConvs /\ Heeds(c, q, x, y) /\ InBlock(o.st, q, ix, block)
  <2>1. CASE ev.delta = "json" /\ block \in {"tool", "nested", "server_tool_use"}
    <3>1. o.st = v /\ Heeds(c, q, x, y) /\ InBlock(v, q, ix, block)
      BY <1>5, <1>7, <1>8, <2>1, ArgsSaid
    <3> QED BY <1>5, <3>1
  <2>2. CASE ev.delta = "text" /\ ev.status
    BY <1>5, <1>7, <1>8, <2>2, StatusDropped
  <2> QED BY <1>5, <2>1, <2>2
<1>10. Heeds(c, q, w.text, w.thought) /\ InBlock(o.st, q, w.ix, w.block)
  BY <1>1, <1>2, <1>3, <1>4, <1>9
<1> QED BY <1>6, <1>8, <1>9, <1>10, AnthropicTold

LEMMA AnthropicArguesKeeps ==
    ASSUME IInv, AnthropicArgues
    PROVE  IInv'
<1>1. PICK form \in CallForms(sent.block) :
        LET k == Len(sent.calls) IN
        /\ IsTool(sent.block)
        /\ Telling(Block("content_block_delta", "", "json", Piece(form), FALSE))
        /\ Told([sent EXCEPT !.calls[k].args = @ \o Piece(form)])
  BY DEF AnthropicArgues
<1>2. form \in {"piece", "act", "whole"}
  BY DEF CallForms
<1>3. PICK d : d = Piece(form)
  OBVIOUS
<1>4. d \in Texts
  BY <1>2, <1>3, PieceTyped
<1>5. PICK ev : ev = Block("content_block_delta", "", "json", d, FALSE)
  OBVIOUS
<1>6. PICK k : k = Len(sent.calls)
  OBVIOUS
<1>7. /\ Telling(ev) /\ Told([sent EXCEPT !.calls[k].args = @ \o d])
      /\ ev.t = "content_block_delta" /\ ev.ix = sent.ix /\ ev.delta = "json" /\ ev.d = d
      /\ sent.block \in {"tool", "nested"}
  BY <1>1, <1>3, <1>5, <1>6 DEF Block, IsTool
<1>8. PICK r, v, c : AnthropicNow(r, v, c)
  BY <1>7, AnthropicTells
<1>9. r \in Accounts /\ r = sent
  BY <1>8 DEF AnthropicNow
<1>10. PICK calls : calls = [r.calls EXCEPT ![k].args = @ \o d]
  OBVIOUS
<1>11. calls \in Seq(Spelled)
  <2>1. PICK before : before = r.calls
    OBVIOUS
  <2>2. before \in Seq(Spelled) /\ k = Len(before)
    BY <1>6, <1>9, <2>1 DEF Accounts
  <2>3. CASE k \in DOMAIN before
    BY <1>4, <1>10, <2>1, <2>2, <2>3, ArgsGrow
  <2>4. CASE k \notin DOMAIN before
    <3>1. calls = before
      BY <1>10, <2>1, <2>2, <2>4
    <3> QED BY <2>2, <3>1
  <2> QED BY <2>3, <2>4
<1>12. PICK w : w = [r EXCEPT !.calls = calls]
  OBVIOUS
<1>13. /\ w \in Accounts /\ w.text = r.text /\ w.thought = r.thought /\ w.ix = r.ix
       /\ w.block = r.block
  BY <1>9, <1>11, <1>12 DEF Accounts
<1>14. Told(w)
  <2>1. w = [sent EXCEPT !.calls[k].args = @ \o d]
    BY <1>9, <1>10, <1>12
  <2> QED BY <1>7, <2>1
<1> QED BY <1>4, <1>7, <1>8, <1>13, <1>14, AnthropicHushed

LEMMA AnthropicSearchesKeeps ==
    ASSUME IInv, AnthropicSearches
    PROVE  IInv'
<1>1. PICK d : d = Piece("piece")
  OBVIOUS
<1>2. d \in Texts
  BY <1>1, PieceTyped
<1>3. PICK ev : ev = Block("content_block_delta", "", "json", d, FALSE)
  OBVIOUS
<1>4. /\ Telling(ev) /\ Told([sent EXCEPT !.searched = TRUE])
      /\ ev.t = "content_block_delta" /\ ev.ix = sent.ix /\ ev.delta = "json" /\ ev.d = d
      /\ sent.block = "server_tool_use"
  BY <1>1, <1>3 DEF AnthropicSearches, Block
<1>5. PICK r, v, c : AnthropicNow(r, v, c)
  BY <1>4, AnthropicTells
<1>6. PICK w : w = [r EXCEPT !.searched = TRUE]
  OBVIOUS
<1>7. /\ w \in Accounts /\ w.text = r.text /\ w.thought = r.thought /\ w.ix = r.ix
      /\ w.block = r.block /\ Told(w)
  BY <1>4, <1>5, <1>6 DEF AnthropicNow, Accounts
<1> QED BY <1>2, <1>4, <1>5, <1>7, AnthropicHushed

LEMMA AnthropicStatusKeeps ==
    ASSUME IInv, AnthropicStatus
    PROVE  IInv'
<1>1. PICK d : d = Piece("piece")
  OBVIOUS
<1>2. d \in Texts
  BY <1>1, PieceTyped
<1>3. PICK ev : ev = Block("content_block_delta", "", "text", d, TRUE)
  OBVIOUS
<1>4. /\ Telling(ev) /\ Told([sent EXCEPT !.searched = TRUE])
      /\ ev.t = "content_block_delta" /\ ev.ix = sent.ix /\ ev.delta = "text" /\ ev.d = d
      /\ ev.status
  BY <1>1, <1>3 DEF AnthropicStatus, Block
<1>5. PICK r, v, c : AnthropicNow(r, v, c)
  BY <1>4, AnthropicTells
<1>6. PICK w : w = [r EXCEPT !.searched = TRUE]
  OBVIOUS
<1>7. /\ w \in Accounts /\ w.text = r.text /\ w.thought = r.thought /\ w.ix = r.ix
      /\ w.block = r.block /\ Told(w)
  BY <1>4, <1>5, <1>6 DEF AnthropicNow, Accounts
<1> QED BY <1>2, <1>4, <1>5, <1>7, AnthropicHushed

LEMMA AnthropicClosesKeeps ==
    ASSUME IInv, AnthropicCloses
    PROVE  IInv'
<1>1. PICK ev : ev = Block("content_block_stop", "", "", <<>>, FALSE)
  OBVIOUS
<1>2. /\ Telling(ev) /\ ev.t = "content_block_stop" /\ ev.ix = sent.ix
      /\ Told([sent EXCEPT !.block = "-", !.ix = @ + 1])
  BY <1>1 DEF AnthropicCloses, Block
<1>3. PICK r, v, c : AnthropicNow(r, v, c)
  BY <1>2, AnthropicTells
<1>4. PICK x : x = r.text
  OBVIOUS
<1>5. PICK y : y = r.thought
  OBVIOUS
<1>6. PICK ix : ix = r.ix
  OBVIOUS
<1>7. PICK block : block = r.block
  OBVIOUS
<1>8. /\ v \in AnthropicConvs /\ Good(c) /\ Shows(c, x, y)
      /\ ix \in Nat /\ InBlock(v, c, ix, block) /\ ev.ix = ix
  BY <1>2, <1>3, <1>4, <1>5, <1>6, <1>7 DEF AnthropicNow, Accounts
<1>9. PICK next : next = ix + 1
  OBVIOUS
<1>9a. PICK w : w = [r EXCEPT !.block = "-", !.ix = next]
  OBVIOUS
<1>9b. next \in Nat /\ Told(w)
  <2>1. r = sent
    BY <1>3 DEF AnthropicNow
  <2> QED BY <1>2, <1>6, <1>8, <1>9, <1>9a, <2>1
<1>10. /\ w \in Accounts /\ w.text = x /\ w.thought = y /\ w.ix = ix + 1 /\ w.block = "-"
       /\ Told(w)
  BY <1>3, <1>4, <1>5, <1>9, <1>9a, <1>9b DEF AnthropicNow, Accounts
<1>11. PICK o : o = AnthropicStep(v, ev)
  OBVIOUS
<1>12. o = AnthropicBlockStop(v, ev)
  BY <1>2, <1>11 DEF AnthropicStep
<1>13. PICK q : q = Heard(c, o.out)
  OBVIOUS
<1>14. o.st \in AnthropicConvs /\ Heeds(c, q, x, y) /\ InBlock(o.st, q, ix + 1, "-")
  BY <1>8, <1>12, <1>13, BlockClosed
<1> QED BY <1>2, <1>3, <1>10, <1>11, <1>13, <1>14, AnthropicTold

LEMMA AnthropicFinishesKeeps ==
    ASSUME IInv, AnthropicFinishes
    PROVE  IInv'
<1>1. PICK finish \in {"end_turn", "max_tokens"} :
        /\ Telling([Block("message_delta", "", "", <<>>, FALSE) EXCEPT !.stop = finish])
        /\ Told([sent EXCEPT !.finish = finish])
  BY DEF AnthropicFinishes
<1>2. PICK ev : ev = [Block("message_delta", "", "", <<>>, FALSE) EXCEPT !.stop = finish]
  OBVIOUS
<1>3. /\ Telling(ev) /\ ev.t = "message_delta" /\ ev.stop = finish /\ finish \in Stopped
  BY <1>1, <1>2 DEF Block, Stopped
<1>4. PICK r, v, c : AnthropicNow(r, v, c)
  BY <1>3, AnthropicTells
<1>5. PICK w : w = [r EXCEPT !.finish = finish]
  OBVIOUS
<1>6. /\ w \in Accounts /\ w.text = r.text /\ w.thought = r.thought /\ w.ix = r.ix
      /\ w.block = r.block /\ Told(w)
  BY <1>1, <1>3, <1>4, <1>5 DEF AnthropicNow, Accounts
<1>7. PICK o : o = AnthropicStep(v, ev)
  OBVIOUS
<1>8. PICK out : out = o.out
  OBVIOUS
<1>9. o.st = v /\ out = <<Lifecycle("inProgress", finish)>>
  BY <1>3, <1>7, <1>8 DEF AnthropicStep
<1>10. PICK q : q = Heard(c, out)
  OBVIOUS
<1>11. PICK x : x = r.text
  OBVIOUS
<1>12. PICK y : y = r.thought
  OBVIOUS
<1>13. PICK ix : ix = r.ix
  OBVIOUS
<1>14. PICK block : block = r.block
  OBVIOUS
<1>15. /\ v \in AnthropicConvs /\ Good(c) /\ Shows(c, x, y)
       /\ ix \in Nat /\ InBlock(v, c, ix, block)
  BY <1>4, <1>11, <1>12, <1>13, <1>14 DEF AnthropicNow, Accounts
<1>16. Heeds(c, q, x, y) /\ SameThought(c, q)
  BY <1>3, <1>9, <1>10, <1>15, SaysLifecycle
<1>17. InBlock(v, q, ix, block)
  BY <1>15, <1>16, StillInBlock
<1> QED BY <1>3, <1>4, <1>6, <1>7, <1>8, <1>9, <1>10, <1>11, <1>12, <1>13, <1>14, <1>15,
           <1>16, <1>17, AnthropicTold

---------------------------------------------------------------------------
(* The steps that end the stream, and the other upstreams *)

LEMMA Ended ==
    ASSUME IInv, setup' = setup, NEW s \in Accounts, sent' = s, NEW c, NEW q, client' = q,
           Heeds(c, q, s.text, s.thought), ended' # ""
    PROVE  IInv'
<1>1. PICK v : v = conv'
  OBVIOUS
<1>2. Holds(s, q)
  BY DEF Holds, Heeds
<1> QED BY <1>1, <1>2, Preserved

LEMMA AnthropicStopsKeeps ==
    ASSUME IInv, AnthropicStops
    PROVE  IInv'
<1>1. PICK ev : ev = Block("message_stop", "", "", <<>>, FALSE)
  OBVIOUS
<1>2. /\ ev.t = "message_stop" /\ Told(sent) /\ ended' = "finished" /\ setup' = setup
      /\ Convert(AnthropicStep(conv, ev))
  BY <1>1 DEF AnthropicStops, Block
<1>3. PICK w : w = sent
  OBVIOUS
<1>4. PICK c : c = client
  OBVIOUS
<1>5. Holds(w, c) /\ Told(w)
  BY <1>2, <1>3, <1>4 DEF IInv
<1>6. PICK x : x = w.text
  OBVIOUS
<1>7. PICK y : y = w.thought
  OBVIOUS
<1>8. w \in Accounts /\ Good(c) /\ Shows(c, x, y)
  BY <1>5, <1>6, <1>7 DEF Holds
<1>9. PICK out : out = <<Lifecycle("completed", "")>>
  OBVIOUS
<1>10. PICK q : q = Heard(c, out)
  OBVIOUS
<1>11. client' = q
  <2>1. AnthropicStep(conv, ev).out = out
    BY <1>2, <1>9 DEF AnthropicStep
  <2> QED BY <1>2, <1>4, <1>10, <2>1 DEF Convert
<1>12. Heeds(c, q, x, y)
  <2>1. "" \in Stopped
    BY DEF Stopped
  <2> QED BY <1>8, <1>9, <1>10, <2>1, SaysLifecycle
<1>13. PICK s : s = sent'
  OBVIOUS
<1>14. s \in Accounts /\ s.text = x /\ s.thought = y
  BY <1>5, <1>6, <1>7, <1>8, <1>13, ToldTyped
<1>15. Heeds(c, q, s.text, s.thought)
  BY <1>12, <1>14
<1> QED BY <1>2, <1>11, <1>13, <1>14, <1>15, Ended

GoogleFinishes == {"", "STOP", "MAX_TOKENS"}

LEMMA GoogleSaysKeeps ==
    ASSUME IInv, GoogleSays
    PROVE  IInv'
<1>1. PICK d : d = Piece("piece")
  OBVIOUS
<1>2. PICK finish \in GoogleFinishes :
        /\ ended = "" /\ setup.upstream = "google"
        /\ Convert(GoogleStep(conv, [text |-> sent.text \o d, finish |-> finish]))
        /\ Told([sent EXCEPT !.text = sent.text \o d, !.finish = finish])
        /\ setup' = setup /\ ended' = ended
  BY <1>1 DEF GoogleSays, Running, GoogleFinishes
<1>3. PICK r : r = sent
  OBVIOUS
<1>4. PICK v : v = conv
  OBVIOUS
<1>5. PICK c : c = client
  OBVIOUS
<1>6. Holds(r, c) /\ GoogleRuns(r, v, c)
  <2>1. Runs(r, v, c)
    BY <1>2, <1>3, <1>4, <1>5 DEF IInv
  <2> QED BY <1>2, <1>3, <1>5, <2>1 DEF IInv, Runs
<1>7. PICK x : x = r.text
  OBVIOUS
<1>8. PICK y : y = r.thought
  OBVIOUS
<1>9. r \in Accounts /\ GoogleReady(v, c, x, y)
  BY <1>6, <1>7, <1>8 DEF Holds, GoogleRuns, GoogleReady
<1>10. PICK p : p = <<sent.n, "piece">>
  OBVIOUS
<1>11. p \in Pieces /\ d = <<p>>
  <2>1. sent.n \in Nat
    BY <1>3, <1>9 DEF Accounts
  <2> QED BY <1>1, <1>10, <2>1 DEF Pieces, Piece
<1>12. PICK z : z = x \o <<p>>
  OBVIOUS
<1>13. z \in Texts
  BY <1>1, <1>7, <1>9, <1>11, <1>12, PieceTyped DEF Accounts
<1>14. PICK ch : ch = [text |-> z, finish |-> finish]
  OBVIOUS
<1>15. Grows(ch, x, p)
  BY <1>11, <1>12, <1>13, <1>14 DEF Snapshots, GoogleFinishes, Grows
<1>16. PICK o : o = GoogleStep(v, ch)
  OBVIOUS
<1>17. PICK q : q = Heard(c, o.out)
  OBVIOUS
<1>18. PICK st : st = o.st
  OBVIOUS
<1>19. GoogleReady(st, q, z, y)
  BY <1>9, <1>12, <1>15, <1>16, <1>17, <1>18, GoogleStepKeeps
<1>20. conv' = st /\ client' = q
  <2>1. [text |-> sent.text \o d, finish |-> finish] = ch
    BY <1>3, <1>7, <1>11, <1>12, <1>14
  <2> QED BY <1>2, <1>4, <1>5, <1>16, <1>17, <1>18, <2>1 DEF Convert
<1>21. PICK w : w = [r EXCEPT !.text = z, !.finish = finish]
  OBVIOUS
<1>22. w \in Accounts /\ w.text = z /\ w.thought = y /\ Told(w)
  <2>1. finish \in Stopped
    BY DEF Stopped, GoogleFinishes
  <2>2. Told(w)
    BY <1>2, <1>3, <1>7, <1>11, <1>12, <1>21
  <2> QED BY <1>8, <1>9, <1>13, <1>21, <2>1, <2>2 DEF Accounts
<1>23. PICK s : s = sent'
  OBVIOUS
<1>24. s \in Accounts /\ s.text = z /\ s.thought = y
  BY <1>22, <1>23, ToldTyped
<1>25. Holds(s, q)
  BY <1>19, <1>24 DEF Holds, GoogleReady
<1>26. Runs(s, st, q)
  BY <1>2, <1>19, <1>24 DEF Runs, Chatting, GoogleRuns, GoogleReady
<1> QED BY <1>2, <1>20, <1>23, <1>25, <1>26, Preserved

\* What the end of a stream says.
LEMMA EndSays ==
    ASSUME NEW eof \in BOOLEAN,
           NEW out, out = CASE setup.upstream = "anthropic" -> AnthropicEnd(eof)
                            [] setup.upstream = "google"    -> GoogleEnd
                            [] OTHER -> ChatEnd
    PROVE  out = <<>> \/ \E t \in {"completed", "failed"} : out = <<Lifecycle(t, "")>>
BY DEF AnthropicEnd, GoogleEnd, ChatEnd, When

LEMMA UpstreamEndsKeeps ==
    ASSUME IInv, UpstreamEnds
    PROVE  IInv'
<1>0. PICK eof \in BOOLEAN :
        /\ client' = Heard(client, CASE setup.upstream = "anthropic" -> AnthropicEnd(eof)
                                     [] setup.upstream = "google"    -> GoogleEnd
                                     [] OTHER -> ChatEnd)
        /\ ended' \in {"broken", "finished"}
        /\ setup' = setup /\ sent' = sent
  BY DEF UpstreamEnds
<1>1. PICK out : /\ out = CASE setup.upstream = "anthropic" -> AnthropicEnd(eof)
                            [] setup.upstream = "google"    -> GoogleEnd
                            [] OTHER -> ChatEnd
                 /\ client' = Heard(client, out)
                 /\ ended' \in {"broken", "finished"}
                 /\ setup' = setup /\ sent' = sent
  BY <1>0
<1>2. PICK s : s = sent
  OBVIOUS
<1>3. PICK c : c = client
  OBVIOUS
<1>4. Holds(s, c)
  BY <1>2, <1>3 DEF IInv
<1>5. PICK x : x = s.text
  OBVIOUS
<1>6. PICK y : y = s.thought
  OBVIOUS
<1>7. s \in Accounts /\ Good(c) /\ Shows(c, x, y)
  BY <1>4, <1>5, <1>6 DEF Holds
<1>8. PICK q : q = Heard(c, out)
  OBVIOUS
<1>9. Heeds(c, q, x, y)
  <2>1. CASE out = <<>>
    <3>1. q = c
      BY <1>8, <2>1, HeardNothing
    <3> QED BY <1>7, <3>1 DEF Heeds, KnownStay
  <2>2. CASE \E t \in {"completed", "failed"} : out = <<Lifecycle(t, "")>>
    <3>1. PICK t \in {"completed", "failed"} : out = <<Lifecycle(t, "")>>
      BY <2>2
    <3>2. "" \in Stopped
      BY DEF Stopped
    <3> QED BY <1>7, <1>8, <3>1, <3>2, SaysLifecycle
  <2> QED BY <1>1, <2>1, <2>2, EndSays
<1>10. Heeds(c, q, s.text, s.thought)
  BY <1>5, <1>6, <1>9
<1>11. client' = q /\ sent' = s /\ ended' # ""
  BY <1>1, <1>2, <1>3, <1>8
<1> QED BY <1>1, <1>7, <1>10, <1>11, Ended

LEMMA ClientEndsKeeps ==
    ASSUME IInv, ClientEnds
    PROVE  IInv'
<1>1. PICK s : s = sent
  OBVIOUS
<1>2. PICK c : c = client
  OBVIOUS
<1>3. PICK q : q = client'
  OBVIOUS
<1>4. q = ClientEnd(c) /\ setup' = setup /\ sent' = s /\ ended' # ""
  BY <1>1, <1>2, <1>3 DEF ClientEnds
<1>5. s \in Accounts /\ Good(c) /\ Shows(c, s.text, s.thought)
  BY <1>1, <1>2 DEF IInv, Holds
<1>6. Heeds(c, q, s.text, s.thought)
  <2>1. CASE Responses
    <3>1. q = c
      BY <1>4, <2>1 DEF ClientEnd, Responses
    <3> QED BY <1>5, <3>1 DEF Heeds, KnownStay
  <2>2. CASE ~Responses
    <3>1. q = ChatClientEnd(c)
      BY <1>4, <2>2 DEF ClientEnd, Responses
    <3>2. c \in ChatMemories
      BY <1>5, <2>2 DEF Good
    <3>3. q \in ChatMemories /\ Hushed(c, q)
      BY <3>1, <3>2, ChatClientEndKeeps
    <3>4. Shows(q, s.text, s.thought)
      BY <1>5, <3>3 DEF Shows, Hushed
    <3> QED BY <2>2, <3>3, <3>4 DEF Heeds, Good, KnownStay, Knows
  <2> QED BY <2>1, <2>2
<1> QED BY <1>3, <1>4, <1>5, <1>6, Ended

\* The texts of the blocks of one kind, in order.
TextsOf(blocks, kind, L) == [k \in 1..L |-> IF blocks[k].kind = kind THEN blocks[k].d ELSE <<>>]

LEMMA ReplaysKeeps ==
    ASSUME IInv, Replays
    PROVE  IInv'
<1>1. PICK kinds \in BoundedSeq({"reasoning", "text", "tool", "image"}, MaxBlocks),
           status \in {"completed", "incomplete", "failed"} :
        LET blocks == [k \in DOMAIN kinds |-> [kind |-> kinds[k], d |-> <<<<k, "whole">>>>]]
            texts(kind) == FlattenSeq([k \in DOMAIN kinds |->
                                         IF kinds[k] = kind THEN blocks[k].d ELSE <<>>])
            tools == Selected(blocks, {b \in ToSet(blocks) : IsTool(b.kind)})
        IN /\ ended = "" /\ setup.upstream = "replay"
           /\ client' = Heard(client, ReplayAnswer(blocks, status, "max_tokens"))
           /\ sent' = [sent EXCEPT !.n = 1, !.text = texts("text"), !.thought = texts("reasoning"),
                         !.calls = [k \in DOMAIN tools |->
                                      [name |-> tools[k].kind, args |-> tools[k].d]],
                         !.finish = "max_tokens"]
           /\ ended' = "finished" /\ setup' = setup
  BY DEF Replays, Running
<1>2. PICK L \in Nat : kinds \in [1..L -> {"reasoning", "text", "tool", "image"}]
  <2>1. MaxBlocks \in Nat
    BY ConversionAssumption
  <2> QED BY <2>1 DEF BoundedSeq, SeqOf
<1>3. PICK blocks : blocks = [k \in DOMAIN kinds |-> [kind |-> kinds[k], d |-> <<<<k, "whole">>>>]]
  OBVIOUS
<1>4. \A k \in 1..L : <<<<k, "whole">>>> \in Texts
  <2> SUFFICES ASSUME NEW k \in 1..L PROVE <<<<k, "whole">>>> \in Texts
    OBVIOUS
  <2>1. PICK p : p = <<k, "whole">>
    OBVIOUS
  <2>2. p \in Pieces
    BY <2>1 DEF Pieces
  <2> QED BY <2>1, <2>2, OnePiece
<1>5. blocks \in [1..L -> ReplayBlocks] /\ \A k \in 1..L : blocks[k].kind = kinds[k]
  BY <1>2, <1>3, <1>4 DEF ReplayBlocks
<1>6. blocks \in Seq(ReplayBlocks) /\ Len(blocks) = L /\ DOMAIN kinds = 1..L
  BY <1>2, <1>5, ListTyped
<1>7. PICK tools : tools = Selected(blocks, {b \in ToSet(blocks) : IsTool(b.kind)})
  OBVIOUS
<1>8. PICK calls : calls = [k \in DOMAIN tools |-> [name |-> tools[k].kind, args |-> tools[k].d]]
  OBVIOUS
<1>9. calls \in Seq(Spelled)
  <2>1. PICK A : A = {b \in ToSet(blocks) : IsTool(b.kind)}
    OBVIOUS
  <2>2. tools \in Seq(ReplayBlocks) /\ \A i \in 1..Len(tools) : tools[i] \in A
    BY <1>6, <1>7, <2>1, SelectedFacts
  <2>3. PICK M : M = Len(tools)
    OBVIOUS
  <2>4. M \in Nat /\ DOMAIN tools = 1..M /\ \A i \in 1..M : tools[i] \in ReplayBlocks
    BY <2>2, <2>3, LenProperties, ElementOfSeq
  <2>5. \A i \in 1..M : IsTool(tools[i].kind)
    BY <2>1, <2>2, <2>3
  <2>6. \A i \in 1..M : [name |-> tools[i].kind, args |-> tools[i].d] \in Spelled
    BY <2>4, <2>5 DEF IsTool, ReplayBlocks, Spelled
  <2>7. calls \in [1..M -> Spelled]
    BY <1>8, <2>4, <2>6
  <2> QED BY <2>4, <2>7, ListTyped
<1>10. PICK tx : tx = TextsOf(blocks, "text", L)
  OBVIOUS
<1>11. PICK th : th = TextsOf(blocks, "reasoning", L)
  OBVIOUS
<1>12. PICK x : x = FlattenSeq(tx)
  OBVIOUS
<1>13. PICK y : y = FlattenSeq(th)
  OBVIOUS
<1>14. PICK q : q = Heard(client, ReplayAnswer(blocks, status, "max_tokens"))
  OBVIOUS
<1>15. /\ ended = "" /\ setup.upstream = "replay" /\ client' = q
       /\ sent' = [sent EXCEPT !.n = 1, !.text = x, !.thought = y, !.calls = calls,
                     !.finish = "max_tokens"]
       /\ ended' = "finished" /\ setup' = setup
  <2>1. \A kind : [k \in DOMAIN kinds |-> IF kinds[k] = kind THEN blocks[k].d ELSE <<>>]
                  = TextsOf(blocks, kind, L)
    BY <1>5, <1>6 DEF TextsOf
  <2>2. /\ FlattenSeq([k \in DOMAIN kinds |->
                         IF kinds[k] = "text" THEN blocks[k].d ELSE <<>>]) = x
        /\ FlattenSeq([k \in DOMAIN kinds |->
                         IF kinds[k] = "reasoning" THEN blocks[k].d ELSE <<>>]) = y
    BY <1>10, <1>11, <1>12, <1>13, <2>1
  <2> QED BY <1>1, <1>3, <1>7, <1>8, <1>14, <2>2
<1>16. PICK r : r = sent
  OBVIOUS
<1>17. PICK c : c = client
  OBVIOUS
<1>18. /\ r \in Accounts /\ Good(c) /\ Shows(c, <<>>, <<>>) /\ Unthought(c, 0)
  <2>1. Holds(r, c) /\ ReplayRuns(r, c)
    <3>1. Runs(r, conv, c)
      BY <1>15, <1>16, <1>17 DEF IInv
    <3> QED BY <1>15, <1>16, <1>17, <3>1 DEF IInv, Runs
  <2> QED BY <2>1 DEF Holds, ReplayRuns
<1>19. Heeds(c, q, x, y)
  <2>1. PICK stop : stop = "max_tokens"
    OBVIOUS
  <2>2. stop \in Stopped
    BY <2>1 DEF Stopped
  <2>3. Heeds(c, Heard(c, ReplayAnswer(blocks, status, stop)), FlattenSeq(tx), FlattenSeq(th))
    BY <1>5, <1>10, <1>11, <1>18, <2>2, ReplayAnswerKeeps DEF TextsOf
  <2> QED BY <1>12, <1>13, <1>14, <1>17, <2>1, <2>3
<1>20. x \in Texts /\ y \in Texts
  BY <1>19, ShowsTyped DEF Heeds
<1>21. PICK s : s = [r EXCEPT !.n = 1, !.text = x, !.thought = y, !.calls = calls,
                       !.finish = "max_tokens"]
  OBVIOUS
<1>22. s \in Accounts /\ s.text = x /\ s.thought = y
  BY <1>9, <1>18, <1>20, <1>21 DEF Accounts, Stopped
<1>23. sent' = s
  BY <1>15, <1>16, <1>21
<1>24. Heeds(c, q, s.text, s.thought)
  BY <1>19, <1>22
<1> QED BY <1>15, <1>22, <1>23, <1>24, Ended

---------------------------------------------------------------------------
(* The theorems *)

LEMMA NextKeeps ==
    ASSUME IInv, [Next]_vars
    PROVE  IInv'
BY ChatThinksKeeps, ChatSaysKeeps, ChatCallsKeeps, ChatArguesKeeps, ChatBareKeeps,
   AnthropicStartsKeeps, AnthropicOpensKeeps, AnthropicSaysKeeps, AnthropicThinksKeeps,
   AnthropicArguesKeeps, AnthropicSearchesKeeps, AnthropicStatusKeeps, AnthropicClosesKeeps,
   AnthropicFinishesKeeps, AnthropicStopsKeeps, GoogleSaysKeeps, ReplaysKeeps,
   UpstreamEndsKeeps, ClientEndsKeeps, StutterKeeps, Zenon DEF Next

LEMMA Invariant == Spec => []IInv
<1>1. Init => IInv
  BY InitKeeps
<1>2. IInv /\ [Next]_vars => IInv'
  BY NextKeeps
<1> QED BY <1>1, <1>2, PTL DEF Spec

\* The Responses converter never reads past its list of items, which would end
\* the process, for any number of chunks, blocks and calls an upstream sends.
THEOREM PastItemsNever == Spec => []NeverPastItems
<1>1. IInv => NeverPastItems
  BY DEF IInv, Holds, Good, Sound, NeverPastItems
<1> QED BY <1>1, Invariant, PTL

\* However many chunks, blocks and calls there are, and whichever provider and
\* client: the text frames spell what the upstream wrote and the reasoning
\* frames what it thought.
THEOREM AnswerShownExactly == Spec => []AnswerExact
<1>1. IInv => AnswerExact
  <2> SUFFICES ASSUME IInv PROVE AnswerExact
    OBVIOUS
  <2>1. Shows(client, sent.text, sent.thought)
    BY DEF IInv, Holds
  <2>2. /\ ShownWhere(LAMBDA fr : fr.f \in TextFrames) = Shown(client.frames, TextFrames)
        /\ ShownWhere(LAMBDA fr : fr.f \in ThoughtFrames) = Shown(client.frames, ThoughtFrames)
    BY Zenon DEF ShownWhere, Shown, Part
  <2> QED BY <2>1, <2>2, Zenon DEF AnswerExact, Shows
<1> QED BY <1>1, Invariant, PTL
=============================================================================
