-------------------------- MODULE ToolLoopProofs --------------------------
(***************************************************************************)
(* What holds of the loops that run the bridge's own tools, for every set  *)
(* of requests, any number of rounds and of calls in an answer, and any    *)
(* order in which the pieces of streamed calls come in.                    *)
(***************************************************************************)
EXTENDS ToolLoop, SelectionProofs, FiniteSetTheorems

---------------------------------------------------------------------------
(* The arguments of a call, put together from their pieces *)

\* The n-th piece of the cut ends at letter e[n] of the text.
Ends(cut, text, e) ==
    /\ cut \in Seq(Seq(STRING)) /\ Len(cut) \in 1..MaxPieces
    /\ e \in [0..Len(cut) -> 0..Len(text)] /\ e[0] = 0 /\ e[Len(cut)] = Len(text)
    /\ \A n \in 1..Len(cut) : e[n - 1] < e[n] /\ cut[n] = SubSeq(text, e[n - 1] + 1, e[n])

LEMMA PartTyped ==
    ASSUME NEW text \in Seq(STRING), NEW a \in 0..Len(text), NEW b \in a..Len(text)
    PROVE  SubSeq(text, a + 1, b) \in Seq(STRING) /\ Len(SubSeq(text, a + 1, b)) = b - a
<1>1. Len(text) \in Nat
  BY LenProperties
<1>2. \A i \in (a + 1)..b : text[i] \in STRING
  BY <1>1, ElementOfSeq
<1>3. a + 1 \in Int /\ b \in Int
  BY <1>1
<1>4. PICK s : s = SubSeq(text, a + 1, b)
  OBVIOUS
<1>5. s \in Seq(STRING) /\ Len(s) = IF a + 1 <= b THEN b - (a + 1) + 1 ELSE 0
  BY <1>2, <1>3, <1>4, SubSeqProperties
<1>6. Len(s) = b - a
  BY <1>1, <1>5
<1> QED BY <1>4, <1>5, <1>6

LEMMA CutEnds ==
    ASSUME NEW text \in Seq(STRING), text # <<>>, NEW cut \in Cuts(text)
    PROVE  \E e : Ends(cut, text, e)
<1> DEFINE l == Len(text)
<1>1. l \in Nat /\ l # 0
  BY LenProperties, EmptySeq
<1>2. \A a \in 0..l : \A b \in a..l : SubSeq(text, a + 1, b) \in Seq(STRING)
  BY <1>1, PartTyped
<1>3. SubSeq(text, 1, l) = text
  BY SubSeqFull
<1>4. CASE cut = <<text>>
  <2> DEFINE e == [n \in 0..1 |-> IF n = 0 THEN 0 ELSE l]
  <2>1. cut \in Seq(Seq(STRING)) /\ Len(cut) = 1 /\ cut[1] = text
    BY <1>4
  <2>2. e \in [0..1 -> 0..l] /\ e[0] = 0 /\ e[1] = l
    BY <1>1
  <2> HIDE DEF e
  <2>3. \A n \in 1..1 : e[n - 1] < e[n] /\ cut[n] = SubSeq(text, e[n - 1] + 1, e[n])
    BY <1>1, <1>3, <2>1, <2>2
  <2> QED BY <2>1, <2>2, <2>3 DEF Ends, MaxPieces
<1>5. ASSUME NEW i \in 1..(l - 1), cut = <<SubSeq(text, 1, i), SubSeq(text, i + 1, l)>>
      PROVE  \E e : Ends(cut, text, e)
  <2> DEFINE e == [n \in 0..2 |-> IF n = 0 THEN 0 ELSE IF n = 1 THEN i ELSE l]
  <2>0. PICK a, b : a = SubSeq(text, 1, i) /\ b = SubSeq(text, i + 1, l)
    OBVIOUS
  <2>a. a \in Seq(STRING) /\ b \in Seq(STRING)
    <3>1. 0 \in 0..l /\ i \in 0..l /\ l \in i..l /\ i \in 0..l /\ 0 + 1 = 1
      BY <1>1
    <3>2. SubSeq(text, 0 + 1, i) \in Seq(STRING) /\ SubSeq(text, i + 1, l) \in Seq(STRING)
      BY <3>1, <1>2
    <3> QED BY <2>0, <3>1, <3>2
  <2>1. cut \in Seq(Seq(STRING)) /\ Len(cut) = 2 /\ cut[1] = a /\ cut[2] = b
    BY <1>5, <2>0, <2>a
  <2>2. e \in [0..2 -> 0..l] /\ e[0] = 0 /\ e[1] = i /\ e[2] = l
    BY <1>1
  <2> HIDE DEF e
  <2>3. ASSUME NEW n \in 1..2
        PROVE  e[n - 1] < e[n] /\ cut[n] = SubSeq(text, e[n - 1] + 1, e[n])
    <3>1. CASE n = 1
      BY <3>1, <1>1, <2>0, <2>1, <2>2, SMTT(20)
    <3>2. CASE n = 2
      <4>1. n - 1 = 1 /\ e[n - 1] = i /\ e[n] = l /\ cut[n] = b
        BY <3>2, <2>1, <2>2
      <4> QED BY <4>1, <2>0, <1>1
    <3> QED BY <3>1, <3>2
  <2>4. e \in [0..Len(cut) -> 0..l] /\ e[Len(cut)] = l /\ 1..Len(cut) = 1..2
    BY <2>1, <2>2
  <2>5. \A n \in 1..Len(cut) : e[n - 1] < e[n] /\ cut[n] = SubSeq(text, e[n - 1] + 1, e[n])
    BY <2>3, <2>4, Zenon
  <2>6. Len(cut) \in 1..MaxPieces
    BY <2>1 DEF MaxPieces
  <2>7. cut \in Seq(Seq(STRING))
    BY <2>1
  <2>8. Ends(cut, text, e)
    BY <2>2, <2>4, <2>5, <2>6, <2>7, Zenon DEF Ends
  <2> QED BY <2>8
<1>6. ASSUME NEW i \in 1..(l - 1), NEW j \in 1..(l - 1), i < j,
             cut = <<SubSeq(text, 1, i), SubSeq(text, i + 1, j), SubSeq(text, j + 1, l)>>
      PROVE  \E e : Ends(cut, text, e)
  <2> DEFINE e == [n \in 0..3 |-> IF n = 0 THEN 0 ELSE IF n = 1 THEN i ELSE IF n = 2 THEN j ELSE l]
  <2>0. PICK a, b, c : a = SubSeq(text, 1, i) /\ b = SubSeq(text, i + 1, j) /\ c = SubSeq(text, j + 1, l)
    OBVIOUS
  <2>a. a \in Seq(STRING) /\ b \in Seq(STRING) /\ c \in Seq(STRING)
    <3>1. 0 \in 0..l /\ i \in 0..l /\ j \in 0..l /\ j \in i..l /\ l \in j..l /\ 0 + 1 = 1
      BY <1>1, <1>6
    <3>2. /\ SubSeq(text, 0 + 1, i) \in Seq(STRING) /\ SubSeq(text, i + 1, j) \in Seq(STRING)
          /\ SubSeq(text, j + 1, l) \in Seq(STRING)
      BY <3>1, <1>2
    <3> QED BY <2>0, <3>1, <3>2
  <2>1. cut \in Seq(Seq(STRING)) /\ Len(cut) = 3 /\ cut[1] = a /\ cut[2] = b /\ cut[3] = c
    BY <1>6, <2>0, <2>a
  <2>2. e \in [0..3 -> 0..l] /\ e[0] = 0 /\ e[1] = i /\ e[2] = j /\ e[3] = l
    BY <1>1
  <2> HIDE DEF e
  <2>3. ASSUME NEW n \in 1..3
        PROVE  e[n - 1] < e[n] /\ cut[n] = SubSeq(text, e[n - 1] + 1, e[n])
    <3>1. CASE n = 1
      BY <3>1, <1>1, <2>0, <2>1, <2>2, SMTT(20)
    <3>2. CASE n = 2
      <4>1. n - 1 = 1 /\ e[n - 1] = i /\ e[n] = j /\ cut[n] = b
        BY <3>2, <2>1, <2>2
      <4> QED BY <4>1, <2>0, <1>6
    <3>3. CASE n = 3
      <4>1. n - 1 = 2 /\ e[n - 1] = j /\ e[n] = l /\ cut[n] = c
        BY <3>3, <2>1, <2>2
      <4> QED BY <4>1, <2>0, <1>1
    <3> QED BY <3>1, <3>2, <3>3
  <2>4. e \in [0..Len(cut) -> 0..l] /\ e[Len(cut)] = l /\ 1..Len(cut) = 1..3
    BY <2>1, <2>2
  <2>5. \A n \in 1..Len(cut) : e[n - 1] < e[n] /\ cut[n] = SubSeq(text, e[n - 1] + 1, e[n])
    BY <2>3, <2>4, Zenon
  <2>6. Len(cut) \in 1..MaxPieces
    BY <2>1 DEF MaxPieces
  <2>7. cut \in Seq(Seq(STRING))
    BY <2>1
  <2>8. Ends(cut, text, e)
    BY <2>2, <2>4, <2>5, <2>6, <2>7, Zenon DEF Ends
  <2> QED BY <2>8
<1>7. \/ cut = <<text>>
      \/ \E i \in 1..(l - 1) : cut = <<SubSeq(text, 1, i), SubSeq(text, i + 1, l)>>
      \/ \E c \in {d \in (1..(l - 1)) \X (1..(l - 1)) : d[1] < d[2]} :
            cut = <<SubSeq(text, 1, c[1]), SubSeq(text, c[1] + 1, c[2]), SubSeq(text, c[2] + 1, l)>>
  BY Zenon DEF Cuts
<1>8. ASSUME NEW c \in {d \in (1..(l - 1)) \X (1..(l - 1)) : d[1] < d[2]},
             cut = <<SubSeq(text, 1, c[1]), SubSeq(text, c[1] + 1, c[2]), SubSeq(text, c[2] + 1, l)>>
      PROVE  \E e : Ends(cut, text, e)
  <2>1. PICK i, j : i = c[1] /\ j = c[2]
    OBVIOUS
  <2>2. i \in 1..(l - 1) /\ j \in 1..(l - 1) /\ i < j
    BY <1>8, <2>1
  <2>3. cut = <<SubSeq(text, 1, i), SubSeq(text, i + 1, j), SubSeq(text, j + 1, l)>>
    BY <1>8, <2>1
  <2> QED BY <1>6, <2>2, <2>3
<1> QED BY <1>4, <1>5, <1>7, <1>8, Zenon

LEMMA JoinedEnds ==
    ASSUME NEW text \in Seq(STRING), NEW cut, NEW e, Ends(cut, text, e), NEW n \in 0..Len(cut)
    PROVE  Joined(cut, n) = SubSeq(text, 1, e[n])
<1> DEFINE l == Len(cut)
           T == {m \in 0..l : Joined(cut, m) = SubSeq(text, 1, e[m])}
<1>1. /\ cut \in Seq(Seq(STRING)) /\ l \in Nat /\ Len(text) \in Nat
      /\ \A m \in 1..l : cut[m] \in Seq(STRING)
  BY LenProperties, ElementOfSeq DEF Ends
<1>2. 0 \in T
  <2>1. SubSeq(cut, 1, 0) = <<>> /\ SubSeq(text, 1, 0) = <<>>
    BY SubSeqEmpty
  <2>2. e[0] = 0
    BY DEF Ends
  <2>3. Joined(cut, 0) = <<>>
    BY <2>1, FlattenNone DEF Joined
  <2>4. 0 \in 0..l
    BY <1>1
  <2> QED BY <2>1, <2>2, <2>3, <2>4
<1>3. ASSUME NEW m \in 0..(l - 1), m \in T PROVE m + 1 \in T
  <2>0. /\ m + 1 \in 1..l /\ (m + 1) - 1 = m /\ 1 \in 1..l /\ m + 1 \in 1..l
    BY <1>1
  <2>1. PICK before, piece : before = SubSeq(cut, 1, m) /\ piece = cut[m + 1]
    OBVIOUS
  <2>2. before \in Seq(Seq(STRING)) /\ piece \in Seq(STRING)
    <3>1. \A i \in 1..m : cut[i] \in Seq(STRING)
      BY <1>1
    <3>2. 1 \in Int /\ m \in Int
      BY <1>1
    <3> QED BY <3>1, <3>2, <2>0, <2>1, <1>1, SubSeqProperties
  <2>3. SubSeq(cut, 1, m + 1) = Append(before, piece)
    <3>1. m + 1 \in 1..Len(cut) /\ 1 \in 1..Len(cut)
      BY <2>0
    <3>2. SubSeq(cut, 1, m + 1) = SubSeq(cut, 1, (m + 1) - 1) \o <<cut[m + 1]>>
      BY <1>1, <3>1, SubSeqRecursiveSecond
    <3>3. Append(before, piece) = before \o <<piece>>
      BY <2>2, AppendIsConcat
    <3> QED BY <3>2, <3>3, <2>0, <2>1
  <2>4. Joined(cut, m + 1) = Joined(cut, m) \o piece
    <3>1. FlattenSeq(Append(before, piece)) = FlattenSeq(before) \o piece
      BY <2>2, FlattenAppend
    <3> QED BY <3>1, <2>1, <2>3 DEF Joined
  <2>5. PICK a, b : a = e[m] /\ b = e[m + 1]
    OBVIOUS
  <2>6. a \in 0..Len(text) /\ b \in a..Len(text) /\ piece = SubSeq(text, a + 1, b)
    <3>1. m \in 0..l /\ m + 1 \in 0..l
      BY <2>0
    <3>2. a \in 0..Len(text) /\ b \in 0..Len(text)
      BY <3>1, <2>5 DEF Ends
    <3>3. e[(m + 1) - 1] < e[m + 1] /\ cut[m + 1] = SubSeq(text, e[(m + 1) - 1] + 1, e[m + 1])
      BY <2>0 DEF Ends
    <3> QED BY <3>2, <3>3, <2>0, <2>1, <2>5, <1>1
  <2>7. SubSeq(text, 1, a) \o SubSeq(text, a + 1, b) = SubSeq(text, 1, b)
    <3>1. 1 \in 1..(Len(text) + 1) /\ a \in (1 - 1)..Len(text) /\ b \in a..Len(text)
      BY <2>6, <1>1
    <3> QED BY <3>1, ConcatAdjacentSubSeq
  <2>8. Joined(cut, m) = SubSeq(text, 1, a)
    BY <1>3, <2>5
  <2>9. m + 1 \in 0..l
    BY <2>0
  <2> QED BY <2>4, <2>5, <2>6, <2>7, <2>8, <2>9
<1> HIDE DEF T
<1>4. 0..l \subseteq T
  BY <1>1, <1>2, <1>3, UpToInduction
<1> QED BY <1>4 DEF T

\* A text that is not at its end is no whole object.
LEMMA NotWholeBefore ==
    ASSUME NEW text \in Seq(STRING), WholeObject(text), NEW a \in 1..(Len(text) - 1)
    PROVE  ~WholeObject(SubSeq(text, 1, a))
<1>1. PICK s : s = SubSeq(text, 1, a)
  OBVIOUS
<1>2. Len(text) \in Nat
  BY LenProperties
<1>3. Len(s) = a /\ \A i \in 1..a : s[i] = text[i]
  <2>1. \A i \in 1..a : text[i] \in STRING
    BY <1>2, ElementOfSeq
  <2>2. 1 \in Int /\ a \in Int
    BY <1>2
  <2>3. Len(s) = IF 1 <= a THEN a - 1 + 1 ELSE 0
    BY <1>1, <2>1, <2>2, SubSeqProperties
  <2>4. \A i \in 1..(a - 1 + 1) : s[i] = text[1 + i - 1]
    BY <1>1, <2>1, <2>2, SubSeqProperties
  <2> QED BY <1>2, <2>3, <2>4
<1>4. Opened(s, a) = Opened(text, a)
  <2>1. {i \in 1..a : s[i] = "{"} = {i \in 1..a : text[i] = "{"}
    BY <1>3
  <2>2. {i \in 1..a : s[i] = "}"} = {i \in 1..a : text[i] = "}"}
    BY <1>3
  <2> QED BY <2>1, <2>2 DEF Opened
<1>5. Opened(text, a) # 0
  <2>1. a \in 1..Len(text) /\ a # Len(text)
    BY <1>2
  <2>2. \A n \in 1..Len(text) : Opened(text, n) = 0 <=> n = Len(text)
    BY DEF WholeObject
  <2> QED BY <2>1, <2>2
<1>6. ASSUME WholeObject(s) PROVE Opened(s, a) = 0
  <2>1. \A n \in 1..Len(s) : Opened(s, n) = 0 <=> n = Len(s)
    BY <1>6 DEF WholeObject
  <2>2. a \in 1..Len(s) /\ a = Len(s)
    BY <1>2, <1>3
  <2> QED BY <2>1, <2>2
<1> QED BY <1>1, <1>4, <1>5, <1>6

\* What the client is to have of the arguments grows by each piece, or by each
\* snapshot, as it should.
LEMMA PieceTaken ==
    ASSUME NEW text \in Seq(STRING), WholeObject(text),
           NEW cut, NEW e, Ends(cut, text, e), NEW n \in 1..Len(cut)
    PROVE  /\ AppendToolCallArgs(Joined(cut, n - 1), Joined(cut, n)) = Joined(cut, n)
           /\ Distinct(cut) => AppendToolCallArgs(Joined(cut, n - 1), cut[n]) = Joined(cut, n)
<1> DEFINE l == Len(text)
<1>1. l \in Nat /\ Len(cut) \in Nat
  BY LenProperties DEF Ends
<1>2. n - 1 \in 0..Len(cut) /\ n \in 0..Len(cut)
  BY <1>1
<1>3. PICK a, b : a = e[n - 1] /\ b = e[n]
  OBVIOUS
<1>4. a \in 0..l /\ b \in 0..l /\ a < b
  BY <1>2, <1>3 DEF Ends
<1>5. PICK before, piece, after :
          before = SubSeq(text, 1, a) /\ piece = SubSeq(text, a + 1, b) /\ after = SubSeq(text, 1, b)
  OBVIOUS
<1>6. Joined(cut, n - 1) = before /\ Joined(cut, n) = after /\ cut[n] = piece
  <2>1. Joined(cut, n - 1) = SubSeq(text, 1, e[n - 1]) /\ Joined(cut, n) = SubSeq(text, 1, e[n])
    BY <1>2, JoinedEnds
  <2>2. cut[n] = SubSeq(text, e[n - 1] + 1, e[n])
    BY DEF Ends
  <2> QED BY <2>1, <2>2, <1>3, <1>5
<1>7. /\ before \in Seq(STRING) /\ Len(before) = a
      /\ after \in Seq(STRING) /\ Len(after) = b
      /\ piece \in Seq(STRING) /\ Len(piece) = b - a
  <2>1. 0 \in 0..l /\ a \in 0..l /\ b \in 0..l /\ b \in a..l /\ 0 + 1 = 1
    BY <1>1, <1>4
  <2>2. SubSeq(text, 0 + 1, a) \in Seq(STRING) /\ Len(SubSeq(text, 0 + 1, a)) = a - 0
    BY <2>1, PartTyped
  <2>3. SubSeq(text, 0 + 1, b) \in Seq(STRING) /\ Len(SubSeq(text, 0 + 1, b)) = b - 0
    BY <2>1, PartTyped
  <2>4. SubSeq(text, a + 1, b) \in Seq(STRING) /\ Len(SubSeq(text, a + 1, b)) = b - a
    BY <2>1, PartTyped
  <2> QED BY <2>1, <2>2, <2>3, <2>4, <1>5, <1>1
<1>8. before \o piece = after
  <2>1. 1 \in 1..(l + 1) /\ a \in (1 - 1)..l /\ b \in a..l
    BY <1>1, <1>4
  <2> QED BY <1>5, <2>1, ConcatAdjacentSubSeq
<1>9. after # <<>> /\ piece # <<>>
  <2>1. Len(after) # 0 /\ Len(piece) # 0
    BY <1>4, <1>7, <1>1
  <2> QED BY <2>1
<1>10. CASE n = 1
  <2>1. a = 0
    BY <1>10, <1>3 DEF Ends
  <2>2. before = <<>>
    BY <2>1, <1>7, EmptySeq
  <2>3. piece = after
    BY <2>2, <1>7, <1>8, ConcatEmptySeq
  <2>4. AppendToolCallArgs(<<>>, after) = after
    BY <1>9 DEF AppendToolCallArgs
  <2> QED BY <1>6, <2>2, <2>3, <2>4
<1>11. CASE n # 1
  <2>1. a # 0
    <3>1. n - 1 \in 1..Len(cut) /\ n - 2 \in 0..Len(cut) /\ (n - 1) - 1 = n - 2
      BY <1>11, <1>1
    <3>2. e[(n - 1) - 1] < e[n - 1] /\ e[n - 2] \in 0..l
      BY <3>1 DEF Ends
    <3> QED BY <3>1, <3>2, <1>3, <1>4, <1>1
  <2>2. before # <<>>
    <3>1. Len(before) # 0
      BY <2>1, <1>7
    <3> QED BY <3>1
  <2>3. ~WholeObject(before)
    <3>1. a \in 1..(l - 1)
      BY <2>1, <1>1, <1>4
    <3> QED BY <3>1, <1>5, NotWholeBefore
  <2>4. IsPrefix(before, after)
    <3>1. SubSeq(before, 1, Len(before)) = before
      BY <1>7, SubSeqFull
    <3>2. SubSeq(after, 1, a) = before
      <4>1. 1 \in 1..Len(text) /\ b \in 1..Len(text) /\ 1 \in 1..(b - 1 + 1) /\ a \in 1..(b - 1 + 1)
        BY <2>1, <1>1, <1>4
      <4>2. SubSeq(SubSeq(text, 1, b), 1, a) = SubSeq(text, 1 + 1 - 1, 1 + a - 1)
        BY <4>1, <1>7, SubSeqOfSubSeq
      <4>3. 1 + 1 - 1 = 1 /\ 1 + a - 1 = a
        BY <1>1, <1>4
      <4> QED BY <4>2, <4>3, <1>5
    <3>3. Len(before) <= Len(after)
      BY <1>1, <1>4, <1>7
    <3> QED BY <3>1, <3>2, <3>3, <1>7 DEF IsPrefix
  <2>5. AppendToolCallArgs(before, after) = after
    BY <2>4, <1>9 DEF AppendToolCallArgs
  <2>6. ASSUME Distinct(cut) PROVE AppendToolCallArgs(before, piece) = after
    <3>1. n \in 2..Len(cut)
      BY <1>11, <1>1
    <3>2. ~IsSuffix(piece, before) /\ ~IsPrefix(before, piece)
      BY <2>6, <3>1, <1>6 DEF Distinct
    <3> QED BY <3>2, <2>2, <2>3, <1>8, <1>9, Zenon DEF AppendToolCallArgs
  <2> QED BY <2>5, <2>6, <1>6
<1> QED BY <1>10, <1>11

---------------------------------------------------------------------------
(* Streamed calls, put together from their deltas *)

Taken(before, stream, n) ==
    IF n = 0 THEN [slots |-> <<>>, calls |-> <<>>] ELSE Collected(before[n - 1], stream[n])

IsCollection(g, stream, L) == g = [n \in 0..L |-> Taken(g, stream, n)]

LEMMA CollectionExists ==
    ASSUME NEW stream, NEW L \in Nat
    PROVE  \E g : IsCollection(g, stream, L)
<1> DEFINE T == {l \in Nat : \E g : IsCollection(g, stream, l)}
<1>1. 0 \in T
  <2> DEFINE g == [n \in 0..0 |-> [slots |-> <<>>, calls |-> <<>>]]
  <2>1. IsCollection(g, stream, 0)
    BY DEF IsCollection, Taken
  <2> HIDE DEF g
  <2> QED BY <2>1
<1>2. ASSUME NEW l \in Nat, l \in T PROVE l + 1 \in T
  <2>1. PICK g : IsCollection(g, stream, l)
    BY <1>2
  <2> DEFINE k == [n \in 0..(l + 1) |-> IF n = l + 1 THEN Taken(g, stream, n) ELSE g[n]]
  <2>2. ASSUME NEW n \in 0..(l + 1) PROVE k[n] = Taken(k, stream, n)
    <3>1. n # 0 => k[n - 1] = g[n - 1]
      OBVIOUS
    <3>2. Taken(k, stream, n) = Taken(g, stream, n)
      BY <3>1 DEF Taken
    <3>3. n # l + 1 => g[n] = Taken(g, stream, n)
      BY <2>1 DEF IsCollection
    <3> QED BY <3>2, <3>3
  <2>3. IsCollection(k, stream, l + 1)
    BY <2>2 DEF IsCollection
  <2> HIDE DEF k
  <2>4. l + 1 \in Nat
    OBVIOUS
  <2> QED BY <2>3, <2>4
<1> HIDE DEF T
<1>3. Nat \subseteq T
  BY <1>1, <1>2, NatSetInduction
<1> QED BY <1>3 DEF T

LEMMA CollectedSteps ==
    ASSUME NEW stream, Len(stream) \in Nat
    PROVE  /\ CollectedUpTo(stream)[0] = [slots |-> <<>>, calls |-> <<>>]
           /\ \A n \in 1..Len(stream) :
                 CollectedUpTo(stream)[n] = Collected(CollectedUpTo(stream)[n - 1], stream[n])
<1> DEFINE g == CollectedUpTo(stream)
<1>1. g = CHOOSE f : IsCollection(f, stream, Len(stream))
  BY Zenon DEF CollectedUpTo, IsCollection, Taken
<1>2. \E f : IsCollection(f, stream, Len(stream))
  BY CollectionExists
<1>3. IsCollection(g, stream, Len(stream))
  BY <1>1, <1>2, Zenon
<1> HIDE DEF g
<1>4. \A n \in 0..Len(stream) : g[n] = Taken(g, stream, n)
  BY <1>3 DEF IsCollection
<1>5. g[0] = Taken(g, stream, 0)
  BY <1>4
<1>6. ASSUME NEW n \in 1..Len(stream)
      PROVE  g[n] = Collected(g[n - 1], stream[n])
  <2>1. n \in 0..Len(stream) /\ n # 0
    OBVIOUS
  <2> QED BY <2>1, <1>4 DEF Taken
<1> QED BY <1>5, <1>6 DEF g, Taken

\* A call the model may write: it has an id and a name, and its arguments are
\* cut into pieces.
MayBeStreamed(call) ==
    /\ call.id # NoId /\ call.tool # NoTool
    /\ call.text \in Seq(STRING) /\ WholeObject(call.text) /\ call.cut \in Cuts(call.text)

Piece(call, repeats, n) == IF repeats THEN Joined(call.cut, n) ELSE call.cut[n]

Collecting == [id : {NoId} \union (Nat \X Nat), tool : {NoTool} \union SearchTools \union VisualTools
                                                        \union {"lookup"}, text : Seq(STRING)]

\* a is the call as it was told by its first c deltas.
Heard(a, call, repeats, c) ==
    /\ a.id = call.id /\ a.tool = call.tool
    /\ repeats \/ Distinct(call.cut) => a.text = Joined(call.cut, c - 1)

LEMMA PieceTyped ==
    ASSUME NEW call, MayBeStreamed(call), NEW repeats
    PROVE  /\ Len(call.cut) \in 1..MaxPieces /\ DOMAIN call.cut = 1..Len(call.cut)
           /\ \A n \in 1..Len(call.cut) : Piece(call, repeats, n) \in Seq(STRING)
           /\ Joined(call.cut, 0) = <<>> /\ Joined(call.cut, Len(call.cut)) = call.text
<1> DEFINE text == call.text
           cut == call.cut
<1>1. text # <<>>
  BY DEF MayBeStreamed, WholeObject
<1>2. PICK e : Ends(cut, text, e)
  BY <1>1, CutEnds DEF MayBeStreamed
<1>3. text \in Seq(STRING) /\ Len(text) \in Nat
  BY LenProperties DEF MayBeStreamed
<1> HIDE DEF text, cut
<1>4. cut \in Seq(Seq(STRING)) /\ Len(cut) \in 1..MaxPieces /\ Len(cut) \in Nat
  BY <1>2, LenProperties DEF Ends
<1>5. DOMAIN cut = 1..Len(cut)
  BY <1>4, LenProperties
<1>6. \A n \in 0..Len(cut) : Joined(cut, n) = SubSeq(text, 1, e[n])
  BY <1>2, <1>3, JoinedEnds
<1>7. \A n \in 0..Len(cut) : Joined(cut, n) \in Seq(STRING)
  <2>1. ASSUME NEW n \in 0..Len(cut) PROVE Joined(cut, n) \in Seq(STRING)
    <3>1. PICK b : b = e[n]
      OBVIOUS
    <3>2. b \in 0..Len(text)
      BY <3>1, <1>2 DEF Ends
    <3>3. 0 \in 0..Len(text) /\ b \in 0..Len(text) /\ 0 + 1 = 1
      BY <3>2, <1>3
    <3>4. SubSeq(text, 0 + 1, b) \in Seq(STRING)
      BY <3>3, <1>3, PartTyped
    <3> QED BY <3>1, <3>3, <3>4, <1>6
  <2> QED BY <2>1
<1>8. \A n \in 1..Len(cut) : cut[n] \in Seq(STRING)
  BY <1>4, ElementOfSeq
<1>9. \A n \in 1..Len(cut) : Piece(call, repeats, n) \in Seq(STRING)
  BY <1>7, <1>8, <1>4 DEF Piece, cut
<1>10. Joined(cut, 0) = <<>>
  <2>1. SubSeq(cut, 1, 0) = <<>>
    BY SubSeqEmpty
  <2> QED BY <2>1, FlattenNone DEF Joined
<1>11. Joined(cut, Len(cut)) = text
  <2>1. Joined(cut, Len(cut)) = SubSeq(text, 1, Len(text))
    <3>1. Len(cut) \in 0..Len(cut) /\ e[Len(cut)] = Len(text)
      BY <1>2, <1>4 DEF Ends
    <3> QED BY <3>1, <1>6
  <2> QED BY <2>1, <1>3, SubSeqFull
<1> QED BY <1>4, <1>5, <1>9, <1>10, <1>11 DEF cut, text

\* The deltas of a call.
LEMMA DeltaAt ==
    ASSUME NEW call, NEW i, NEW pieces \in Seq(Seq(STRING)), NEW c \in 1..(Len(pieces) + 1)
    PROVE  CallDeltas(call, i, pieces)[c] =
               IF c = 1 THEN Delta(i, 1, call.id, call.tool, <<>>)
               ELSE Delta(i, 1, NoId, NoTool, pieces[c - 1])
<1> DEFINE first == Delta(i, 1, call.id, call.tool, <<>>)
           rest == [n \in DOMAIN pieces |-> Delta(i, 1, NoId, NoTool, pieces[n])]
           D == {first} \union {rest[n] : n \in DOMAIN pieces}
<1>1. Len(pieces) \in Nat /\ DOMAIN pieces = 1..Len(pieces)
  BY LenProperties
<1>2. <<first>> \in Seq(D) /\ Len(<<first>>) = 1 /\ <<first>>[1] = first
  OBVIOUS
<1>3. rest \in Seq(D) /\ Len(rest) = Len(pieces)
  <2>1. rest \in [1..Len(pieces) -> D]
    BY <1>1
  <2> HIDE DEF rest, D
  <2> QED BY <2>1, <1>1, ListTyped
<1>4. \A n \in 1..Len(pieces) : rest[n] = Delta(i, 1, NoId, NoTool, pieces[n])
  BY <1>1
<1>5. PICK a, b : a = <<first>> /\ b = rest
  OBVIOUS
<1>6. CallDeltas(call, i, pieces) = a \o b
  BY <1>5 DEF CallDeltas
<1> HIDE DEF first, rest, D
<1>7. \A n \in 1..(Len(a) + Len(b)) : (a \o b)[n] = IF n <= Len(a) THEN a[n] ELSE b[n - Len(a)]
  BY <1>2, <1>3, <1>5, ConcatProperties
<1>8. Len(a) = 1 /\ Len(b) = Len(pieces) /\ a[1] = first
  BY <1>2, <1>3, <1>5
<1>9. CASE c = 1
  <2>1. (a \o b)[1] = first
    BY <1>1, <1>7, <1>8
  <2> QED BY <2>1, <1>6, <1>9 DEF first
<1>10. CASE c # 1
  <2>1. c - 1 \in 1..Len(pieces) /\ ~(c <= 1) /\ c \in 1..(Len(a) + Len(b))
    BY <1>1, <1>8, <1>10
  <2>2. (a \o b)[c] = b[c - 1]
    BY <2>1, <1>7, <1>8
  <2> QED BY <2>1, <2>2, <1>4, <1>5, <1>6, <1>10
<1> QED BY <1>9, <1>10

\* How many of the first n deltas were of call i.
ToldOf(who, i, n) == Cardinality({t \in 1..n : who[t] = i})

LEMMA ToldCounts ==
    ASSUME NEW who, NEW i, NEW n \in Nat
    PROVE  /\ ToldOf(who, i, n) \in Nat /\ ToldOf(who, i, 0) = 0
           /\ ToldOf(who, i, n) = 0 <=> \A t \in 1..n : who[t] # i
           /\ ToldOf(who, i, n + 1) = IF who[n + 1] = i THEN ToldOf(who, i, n) + 1 ELSE ToldOf(who, i, n)
           /\ \A m \in 0..n : ToldOf(who, i, m) <= ToldOf(who, i, n)
<1> DEFINE S(m) == {t \in 1..m : who[t] = i}
<1>1. \A m \in Nat : IsFiniteSet(S(m))
  <2>1. ASSUME NEW m \in Nat PROVE IsFiniteSet(S(m))
    <3>1. IsFiniteSet(1..m)
      BY FS_Interval
    <3>2. S(m) \in SUBSET (1..m)
      OBVIOUS
    <3> HIDE DEF S
    <3> QED BY <3>1, <3>2, FS_Subset
  <2> QED BY <2>1
<1>2. Cardinality(S(n)) \in Nat
  <2> HIDE DEF S
  <2> QED BY <1>1, FS_CardinalityType
<1>3. Cardinality(S(0)) = 0
  <2>1. S(0) = {}
    OBVIOUS
  <2> QED BY <2>1, FS_EmptySet
<1>4. Cardinality(S(n)) = 0 <=> \A t \in 1..n : who[t] # i
  <2>1. Cardinality(S(n)) = 0 <=> S(n) = {}
    <3> HIDE DEF S
    <3> QED BY <1>1, FS_EmptySet
  <2> QED BY <2>1
<1>5. Cardinality(S(n + 1)) = IF who[n + 1] = i THEN Cardinality(S(n)) + 1 ELSE Cardinality(S(n))
  <2>1. CASE who[n + 1] = i
    <3>1. S(n + 1) = S(n) \cup {n + 1} /\ n + 1 \notin S(n)
      BY <2>1
    <3> HIDE DEF S
    <3>2. Cardinality(S(n) \cup {n + 1}) = Cardinality(S(n)) + 1
      BY <3>1, <1>1, FS_AddElement
    <3> QED BY <3>1, <3>2, <2>1
  <2>2. CASE who[n + 1] # i
    <3>1. S(n + 1) = S(n)
      BY <2>2
    <3> QED BY <3>1, <2>2
  <2> QED BY <2>1, <2>2
<1>6. ASSUME NEW m \in 0..n PROVE Cardinality(S(m)) <= Cardinality(S(n))
  <2>1. S(m) \in SUBSET S(n)
    OBVIOUS
  <2> HIDE DEF S
  <2> QED BY <2>1, <1>1, FS_Subset
<1> QED BY <1>2, <1>3, <1>4, <1>5, <1>6 DEF ToldOf

\* The state of the collector when k calls have been seen.
Slotted(state, k) ==
    /\ state = [slots |-> state.slots, calls |-> state.calls]
    /\ DOMAIN state.slots = 1..k /\ \A p \in 1..k : state.slots[p] = p
    /\ state.calls \in Seq(Collecting) /\ Len(state.calls) = k

CallTyped(call) ==
    call.id \in Nat \X Nat /\ call.tool \in SearchTools \union VisualTools \union {"lookup"}

LEMMA MergedRecord ==
    ASSUME NEW a, NEW b, NEW c, NEW d, NEW text, AppendToolCallArgs(c, d.part) = text
    PROVE  Merged([id |-> a, tool |-> b, text |-> c], d) =
               [id   |-> IF d.id = NoId THEN a ELSE d.id,
                tool |-> IF d.tool = NoTool THEN b ELSE d.tool,
                text |-> text]
<1> DEFINE x == [id |-> a, tool |-> b, text |-> c]
<1>1. PICK i, t : /\ i = IF d.id = NoId THEN a ELSE d.id
                  /\ t = IF d.tool = NoTool THEN b ELSE d.tool
  OBVIOUS
<1>2. x.id = a /\ x.tool = b /\ x.text = c
  OBVIOUS
<1>3. Merged(x, d) = [x EXCEPT !.id = i, !.tool = t, !.text = text]
  <2> HIDE DEF x
  <2> QED BY <1>1, <1>2 DEF Merged
<1>4. [x EXCEPT !.id = i, !.tool = t, !.text = text] = [id |-> i, tool |-> t, text |-> text]
  <2>1. PICK y : y = [x EXCEPT !.id = i, !.tool = t, !.text = text]
    OBVIOUS
  <2>2. x \in [id : {a, i}, tool : {b, t}, text : {c, text}]
    OBVIOUS
  <2> HIDE DEF x
  <2>3. y \in [id : {a, i}, tool : {b, t}, text : {c, text}]
    BY <2>1, <2>2
  <2>4. y.id = i /\ y.tool = t /\ y.text = text
    BY <2>1, <2>2
  <2> QED BY <2>1, <2>3, <2>4
<1> QED BY <1>1, <1>3, <1>4

LEMMA NewCall ==
    ASSUME NEW k \in Nat, NEW state, Slotted(state, k),
           NEW d, Position(d) = k + 1, CallTyped(d), d.id # NoId, d.tool # NoTool,
           NEW text \in Seq(STRING), AppendToolCallArgs(<<>>, d.part) = text
    PROVE  /\ Slotted(Collected(state, d), k + 1)
           /\ \A i \in 1..k : Collected(state, d).calls[i] = state.calls[i]
           /\ Collected(state, d).calls[k + 1] = [id |-> d.id, tool |-> d.tool, text |-> text]
<1> DEFINE new == [id |-> d.id, tool |-> d.tool, text |-> text]
<1>1. PICK slots, told : slots = state.slots /\ told = state.calls
  OBVIOUS
<1>2. DOMAIN slots = 1..k /\ (\A p \in 1..k : slots[p] = p) /\ told \in Seq(Collecting) /\ Len(told) = k
  BY <1>1 DEF Slotted
<1>3. k + 1 \notin DOMAIN slots
  BY <1>2
<1>4. Merged([id |-> NoId, tool |-> NoTool, text |-> <<>>], d) = new
  BY MergedRecord
<1>5. new \in Collecting
  BY DEF Collecting, CallTyped
<1>6. PICK slots2 : slots2 = [p \in DOMAIN slots \union {k + 1} |-> IF p = k + 1 THEN Len(told) + 1 ELSE slots[p]]
  OBVIOUS
<1>7. PICK told2 : told2 = Append(told, new)
  OBVIOUS
<1>8. Collected(state, d) = [slots |-> slots2, calls |-> told2]
  BY <1>1, <1>3, <1>4, <1>6, <1>7, Zenon DEF Collected
<1>9. DOMAIN slots2 = 1..(k + 1) /\ \A p \in 1..(k + 1) : slots2[p] = p
  BY <1>2, <1>6
<1> HIDE DEF new
<1>10. /\ told2 \in Seq(Collecting) /\ Len(told2) = k + 1 /\ told2[k + 1] = new
       /\ \A i \in 1..k : told2[i] = told[i]
  BY <1>2, <1>5, <1>7, AppendProperties
<1>11. Slotted([slots |-> slots2, calls |-> told2], k + 1)
  BY <1>9, <1>10 DEF Slotted
<1> QED BY <1>1, <1>8, <1>10, <1>11 DEF new

LEMMA SeenCall ==
    ASSUME NEW k \in Nat, NEW state, Slotted(state, k), NEW i \in 1..k,
           NEW d, Position(d) = i, d.id = NoId, d.tool = NoTool, NEW text \in Seq(STRING),
           AppendToolCallArgs(state.calls[i].text, d.part) = text
    PROVE  /\ Slotted(Collected(state, d), k)
           /\ \A j \in 1..k : j # i => Collected(state, d).calls[j] = state.calls[j]
           /\ Collected(state, d).calls[i] =
                  [id |-> state.calls[i].id, tool |-> state.calls[i].tool, text |-> text]
<1>1. PICK slots, told : slots = state.slots /\ told = state.calls
  OBVIOUS
<1>2. DOMAIN slots = 1..k /\ (\A p \in 1..k : slots[p] = p) /\ told \in Seq(Collecting) /\ Len(told) = k
  BY <1>1 DEF Slotted
<1>3. i \in DOMAIN slots /\ slots[i] = i
  BY <1>2
<1>4. PICK old : old = told[i]
  OBVIOUS
<1>5. old \in Collecting
  BY <1>2, <1>4, ElementOfSeq
<1>6. PICK new : new = [id |-> old.id, tool |-> old.tool, text |-> text]
  OBVIOUS
<1>7. Merged(old, d) = new
  <2>1. AppendToolCallArgs(old.text, d.part) = text
    BY <1>1, <1>4
  <2>2. old = [id |-> old.id, tool |-> old.tool, text |-> old.text]
    BY <1>5 DEF Collecting
  <2>3. PICK a, b, c : a = old.id /\ b = old.tool /\ c = old.text
    OBVIOUS
  <2>4. Merged([id |-> a, tool |-> b, text |-> c], d) = [id |-> a, tool |-> b, text |-> text]
    BY <2>1, <2>3, MergedRecord
  <2> QED BY <2>2, <2>3, <2>4, <1>6
<1>8. new \in Collecting
  BY <1>5, <1>6 DEF Collecting
<1>9. PICK slots2 : slots2 = [p \in DOMAIN slots \union {i} |-> IF p = i THEN slots[i] ELSE slots[p]]
  OBVIOUS
<1>10. PICK told2 : told2 = [told EXCEPT ![slots[i]] = Merged(told[slots[i]], d)]
  OBVIOUS
<1>11. Collected(state, d) = [slots |-> slots2, calls |-> told2]
  BY <1>1, <1>3, <1>9, <1>10, Zenon DEF Collected
<1>12. DOMAIN slots2 = 1..k /\ \A p \in 1..k : slots2[p] = p
  BY <1>2, <1>3, <1>9
<1>13. told2 = [told EXCEPT ![i] = new]
  BY <1>3, <1>4, <1>7, <1>10
<1>14. /\ told2 \in Seq(Collecting) /\ Len(told2) = k
       /\ \A j \in 1..k : told2[j] = IF j = i THEN new ELSE told[j]
  BY <1>2, <1>8, <1>13, ExceptSeq
<1>15. Slotted([slots |-> slots2, calls |-> told2], k)
  BY <1>12, <1>14 DEF Slotted
<1> QED BY <1>1, <1>4, <1>6, <1>11, <1>14, <1>15

LEMMA ArgumentsTyped ==
    ASSUME NEW current \in Seq(STRING), NEW part \in Seq(STRING)
    PROVE  AppendToolCallArgs(current, part) \in Seq(STRING)
<1>1. current \o part \in Seq(STRING)
  BY ConcatProperties
<1> QED BY <1>1, Zenon DEF AppendToolCallArgs

\* The calls come in as Orders lets them: each whole, and each begun after those
\* before it.
InOrder(who, calls, L) ==
    /\ who \in [1..L -> 1..Len(calls)]
    /\ \A i \in 1..Len(calls) : ToldOf(who, i, L) = Len(calls[i].cut) + 1
    /\ \A i, j \in 1..Len(calls) : i < j =>
          \E t \in 1..L : who[t] = i /\ \A u \in 1..L : who[u] = j => t < u

\* The collector's state after n deltas: it has seen the first k calls, and of
\* each what its deltas told.
Told(state, calls, repeats, who, n, k) ==
    /\ k \in 0..Len(calls) /\ Slotted(state, k)
    /\ \A i \in 1..Len(calls) : i <= k <=> ToldOf(who, i, n) # 0
    /\ \A i \in 1..k : Heard(state.calls[i], calls[i], repeats, ToldOf(who, i, n))

\* The c-th delta of the i-th call.
DeltaOf(call, i, repeats, c) ==
    IF c = 1 THEN Delta(i, 1, call.id, call.tool, <<>>)
    ELSE Delta(i, 1, NoId, NoTool, Piece(call, repeats, c - 1))

LEMMA HeardMore ==
    ASSUME NEW call, MayBeStreamed(call), NEW repeats \in BOOLEAN,
           NEW c \in 1..Len(call.cut), NEW a \in Collecting, Heard(a, call, repeats, c),
           NEW text, AppendToolCallArgs(a.text, Piece(call, repeats, c)) = text
    PROVE  /\ text \in Seq(STRING)
           /\ Heard([id |-> a.id, tool |-> a.tool, text |-> text], call, repeats, c + 1)
<1>1. text \in Seq(STRING)
  <2>1. Piece(call, repeats, c) \in Seq(STRING)
    BY PieceTyped
  <2>2. a.text \in Seq(STRING)
    BY DEF Collecting
  <2> QED BY <2>1, <2>2, ArgumentsTyped
<1>2. ASSUME repeats \/ Distinct(call.cut) PROVE text = Joined(call.cut, c)
  <2>1. call.text \in Seq(STRING) /\ WholeObject(call.text) /\ call.text # <<>>
    BY DEF MayBeStreamed, WholeObject
  <2>2. PICK e : Ends(call.cut, call.text, e)
    BY <2>1, CutEnds DEF MayBeStreamed
  <2>3. a.text = Joined(call.cut, c - 1)
    BY <1>2 DEF Heard
  <2>4. /\ AppendToolCallArgs(Joined(call.cut, c - 1), Joined(call.cut, c)) = Joined(call.cut, c)
        /\ Distinct(call.cut) =>
              AppendToolCallArgs(Joined(call.cut, c - 1), call.cut[c]) = Joined(call.cut, c)
    BY <2>1, <2>2, PieceTaken
  <2> QED BY <1>2, <2>3, <2>4, Zenon DEF Piece
<1>3. PICK b : b = [id |-> a.id, tool |-> a.tool, text |-> text]
  OBVIOUS
<1>4. b.id = a.id /\ b.tool = a.tool /\ b.text = text
  BY <1>3
<1>5. (c + 1) - 1 = c
  <2>1. Len(call.cut) \in 1..MaxPieces
    BY PieceTyped
  <2> QED BY <2>1
<1>6. Heard(b, call, repeats, c + 1)
  BY <1>2, <1>4, <1>5, Zenon DEF Heard
<1> QED BY <1>1, <1>3, <1>6

LEMMA ToldStep ==
    ASSUME NEW calls, NEW m \in Nat, Len(calls) = m,
           \A i \in 1..m : MayBeStreamed(calls[i]) /\ CallTyped(calls[i]),
           NEW repeats \in BOOLEAN, NEW L \in Nat, NEW who, InOrder(who, calls, L),
           NEW n \in 0..(L - 1), NEW state, NEW k, Told(state, calls, repeats, who, n, k),
           NEW d, d = DeltaOf(calls[who[n + 1]], who[n + 1], repeats, ToldOf(who, who[n + 1], n + 1))
    PROVE  \E j : Told(Collected(state, d), calls, repeats, who, n + 1, j)
<1>0. n \in Nat /\ n + 1 \in 1..L /\ n + 1 \in Nat /\ k \in 0..m /\ k \in Nat
  BY DEF Told
<1>1. PICK i : i = who[n + 1]
  OBVIOUS
<1>2. i \in 1..m
  BY <1>0, <1>1 DEF InOrder
<1>3. PICK call : call = calls[i]
  OBVIOUS
<1>4. MayBeStreamed(call) /\ CallTyped(call)
  BY <1>2, <1>3
<1>5. PICK c : c = ToldOf(who, i, n)
  OBVIOUS
<1>6. /\ c \in Nat /\ ToldOf(who, i, n + 1) = c + 1
      /\ \A j \in 1..m : j # i => ToldOf(who, j, n + 1) = ToldOf(who, j, n)
  <2>1. \A j \in 1..m : ToldOf(who, j, n + 1) =
            IF who[n + 1] = j THEN ToldOf(who, j, n) + 1 ELSE ToldOf(who, j, n)
    BY <1>0, ToldCounts
  <2>2. ToldOf(who, i, n) \in Nat
    BY <1>0, ToldCounts
  <2> QED BY <2>1, <2>2, <1>1, <1>2, <1>5
<1>7. c \in 0..Len(call.cut)
  <2>1. n + 1 \in 0..L
    BY <1>0
  <2>2. ToldOf(who, i, n + 1) <= ToldOf(who, i, L)
    BY <2>1, ToldCounts
  <2>3. ToldOf(who, i, L) = Len(call.cut) + 1
    BY <1>2, <1>3 DEF InOrder
  <2>4. Len(call.cut) \in 1..MaxPieces
    BY <1>4, PieceTyped
  <2> QED BY <2>2, <2>3, <2>4, <1>6
<1>8. d = DeltaOf(call, i, repeats, c + 1)
  BY <1>1, <1>3, <1>6
<1>9. CASE c = 0
  <2>1. i = k + 1
    <3>1. ~(i <= k)
      BY <1>2, <1>5, <1>9 DEF Told
    <3>2. ASSUME k + 1 < i PROVE FALSE
      <4>1. k + 1 \in 1..m
        BY <1>2, <3>2, <1>0
      <4>2. PICK t \in 1..L : who[t] = k + 1 /\ \A u \in 1..L : who[u] = i => t < u
        BY <1>2, <3>2, <4>1 DEF InOrder
      <4>3. t < n + 1
        BY <4>2, <1>0, <1>1
      <4>4. t \in 1..n
        BY <4>3, <1>0
      <4>5. ToldOf(who, k + 1, n) # 0
        BY <1>0, <4>2, <4>4, ToldCounts
      <4>6. k + 1 <= k
        BY <4>1, <4>5 DEF Told
      <4> QED BY <4>6, <1>0
    <3> QED BY <3>1, <3>2, <1>2, <1>0
  <2>2. d = [index |-> i, place |-> 1, id |-> call.id, tool |-> call.tool, part |-> <<>>]
    BY <1>8, <1>9 DEF DeltaOf, Delta
  <2>3. Position(d) = k + 1 /\ d.id = call.id /\ d.tool = call.tool /\ d.part = <<>>
    BY <2>1, <2>2, <1>0 DEF Position, NoIndex
  <2>4. d.id # NoId /\ d.tool # NoTool
    BY <2>3, <1>4 DEF MayBeStreamed
  <2>5. AppendToolCallArgs(<<>>, d.part) = <<>>
    BY <2>3 DEF AppendToolCallArgs
  <2>6. PICK after : after = Collected(state, d)
    OBVIOUS
  <2>7. PICK fresh : fresh = [id |-> call.id, tool |-> call.tool, text |-> <<>>]
    OBVIOUS
  <2>8. /\ Slotted(after, k + 1)
        /\ \A j \in 1..k : after.calls[j] = state.calls[j]
        /\ after.calls[k + 1] = fresh
    <3>1. <<>> \in Seq(STRING) /\ Slotted(state, k)
      BY DEF Told
    <3>2. /\ Slotted(Collected(state, d), k + 1)
          /\ \A j \in 1..k : Collected(state, d).calls[j] = state.calls[j]
          /\ Collected(state, d).calls[k + 1] = [id |-> call.id, tool |-> call.tool, text |-> <<>>]
      <4>1. PICK none : none = <<>>
        OBVIOUS
      <4>2. none \in Seq(STRING) /\ AppendToolCallArgs(<<>>, d.part) = none
        BY <3>1, <4>1, <2>5
      <4>3. /\ Slotted(Collected(state, d), k + 1)
            /\ \A j \in 1..k : Collected(state, d).calls[j] = state.calls[j]
            /\ Collected(state, d).calls[k + 1] = [id |-> call.id, tool |-> call.tool, text |-> none]
        <5>1. k \in Nat /\ Position(d) = k + 1 /\ Slotted(state, k)
          BY <1>0, <2>3, <3>1
        <5>2. CallTyped(d)
          BY <1>4, <2>3 DEF CallTyped
        <5>3. /\ Slotted(Collected(state, d), k + 1)
              /\ \A j \in 1..k : Collected(state, d).calls[j] = state.calls[j]
              /\ Collected(state, d).calls[k + 1] = [id |-> d.id, tool |-> d.tool, text |-> none]
          BY <5>1, <5>2, <2>4, <4>2, NewCall
        <5> QED BY <5>3, <2>3
      <4> QED BY <4>1, <4>3, Zenon
    <3> QED BY <3>2, <2>6, <2>7
  <2>9. Heard(fresh, call, repeats, 1)
    <3>1. Joined(call.cut, 0) = <<>>
      BY <1>4, PieceTyped
    <3>2. fresh.id = call.id /\ fresh.tool = call.tool /\ fresh.text = <<>> /\ 1 - 1 = 0
      BY <2>7
    <3> QED BY <3>1, <3>2, Zenon DEF Heard
  <2>10. \A j \in 1..(k + 1) : Heard(after.calls[j], calls[j], repeats, ToldOf(who, j, n + 1))
    <3>1. ASSUME NEW j \in 1..(k + 1), j # k + 1
          PROVE  Heard(after.calls[j], calls[j], repeats, ToldOf(who, j, n + 1))
      <4>1. j \in 1..k /\ j \in 1..m /\ j # i
        BY <1>0, <2>1, <3>1
      <4>2. Heard(state.calls[j], calls[j], repeats, ToldOf(who, j, n))
        BY <4>1 DEF Told
      <4> QED BY <4>1, <4>2, <2>8, <1>6
    <3>2. Heard(after.calls[k + 1], calls[k + 1], repeats, ToldOf(who, k + 1, n + 1))
      <4>1. c + 1 = 1
        BY <1>9
      <4> QED BY <2>1, <2>8, <2>9, <1>3, <1>6, <4>1
    <3> QED BY <3>1, <3>2, Zenon
  <2>11. \A j \in 1..m : j <= k + 1 <=> ToldOf(who, j, n + 1) # 0
    <3>1. ASSUME NEW j \in 1..m PROVE j <= k + 1 <=> ToldOf(who, j, n + 1) # 0
      <4>1. j <= k <=> ToldOf(who, j, n) # 0
        BY DEF Told
      <4>2. CASE j = i
        BY <4>2, <2>1, <1>6, <1>9
      <4>3. CASE j # i
        <5>1. ToldOf(who, j, n + 1) = ToldOf(who, j, n)
          BY <4>3, <1>6
        <5>2. j <= k + 1 <=> j <= k
          BY <4>3, <2>1, <1>0
        <5> QED BY <5>1, <5>2, <4>1
      <4> QED BY <4>2, <4>3
    <3> QED BY <3>1
  <2>12. k + 1 \in 0..m
    BY <1>2, <2>1, <1>0
  <2>13. Told(after, calls, repeats, who, n + 1, k + 1)
    BY <2>8, <2>10, <2>11, <2>12, Zenon DEF Told
  <2> QED BY <2>6, <2>13
<1>10. CASE c # 0
  <2>1. i \in 1..k
    <3>1. i <= k
      BY <1>2, <1>5, <1>10 DEF Told
    <3> QED BY <3>1, <1>2, <1>0
  <2>2. d = [index |-> i, place |-> 1, id |-> NoId, tool |-> NoTool, part |-> Piece(call, repeats, c)]
    <3>1. c + 1 # 1 /\ (c + 1) - 1 = c
      BY <1>6, <1>10
    <3> QED BY <3>1, <1>8 DEF DeltaOf, Delta
  <2>3. Position(d) = i /\ d.id = NoId /\ d.tool = NoTool /\ d.part = Piece(call, repeats, c)
    BY <1>2, <2>2 DEF Position, NoIndex
  <2>4. PICK old : old = state.calls[i]
    OBVIOUS
  <2>5. old \in Collecting /\ Heard(old, call, repeats, c)
    <3>1. state.calls \in Seq(Collecting) /\ Len(state.calls) = k
      BY DEF Told, Slotted
    <3>2. old \in Collecting
      BY <3>1, <2>1, <2>4, ElementOfSeq
    <3> QED BY <3>2, <2>1, <2>4, <1>3, <1>5 DEF Told
  <2>6. PICK text : text = AppendToolCallArgs(old.text, Piece(call, repeats, c))
    OBVIOUS
  <2>7. c \in 1..Len(call.cut)
    BY <1>6, <1>7, <1>10
  <2>8. PICK more : more = [id |-> old.id, tool |-> old.tool, text |-> text]
    OBVIOUS
  <2>9. text \in Seq(STRING) /\ Heard(more, call, repeats, c + 1)
    BY <2>5, <2>6, <2>7, <2>8, <1>4, HeardMore
  <2>10. PICK after : after = Collected(state, d)
    OBVIOUS
  <2>11. /\ Slotted(after, k)
         /\ \A j \in 1..k : j # i => after.calls[j] = state.calls[j]
         /\ after.calls[i] = more
    <3>1. AppendToolCallArgs(state.calls[i].text, d.part) = text
      BY <2>3, <2>4, <2>6
    <3>2. Slotted(state, k)
      BY DEF Told
    <3>3. /\ Slotted(Collected(state, d), k)
          /\ \A j \in 1..k : j # i => Collected(state, d).calls[j] = state.calls[j]
          /\ Collected(state, d).calls[i] =
                [id |-> state.calls[i].id, tool |-> state.calls[i].tool, text |-> text]
      BY <1>0, <2>1, <2>3, <2>9, <3>1, <3>2, SeenCall
    <3> QED BY <3>3, <2>4, <2>8, <2>10
  <2>12. \A j \in 1..k : Heard(after.calls[j], calls[j], repeats, ToldOf(who, j, n + 1))
    <3>1. ASSUME NEW j \in 1..k, j # i
          PROVE  Heard(after.calls[j], calls[j], repeats, ToldOf(who, j, n + 1))
      <4>1. j \in 1..m
        BY <1>0
      <4>2. Heard(state.calls[j], calls[j], repeats, ToldOf(who, j, n))
        BY DEF Told
      <4> QED BY <4>1, <4>2, <2>11, <1>6, <3>1
    <3>2. Heard(after.calls[i], calls[i], repeats, ToldOf(who, i, n + 1))
      BY <2>9, <2>11, <1>3, <1>6
    <3> QED BY <3>1, <3>2, Zenon
  <2>13. \A j \in 1..m : j <= k <=> ToldOf(who, j, n + 1) # 0
    <3>1. ASSUME NEW j \in 1..m PROVE j <= k <=> ToldOf(who, j, n + 1) # 0
      <4>1. j <= k <=> ToldOf(who, j, n) # 0
        BY DEF Told
      <4>2. CASE j = i
        BY <4>2, <2>1, <1>6, <1>0
      <4>3. CASE j # i
        BY <4>1, <4>3, <1>6
      <4> QED BY <4>2, <4>3
    <3> QED BY <3>1
  <2>14. Told(after, calls, repeats, who, n + 1, k)
    BY <2>11, <2>12, <2>13, <1>0, Zenon DEF Told
  <2> QED BY <2>10, <2>14
<1> QED BY <1>9, <1>10

\* What is put together is what was written.
AllHeard(taken, calls, repeats) ==
    /\ taken \in Seq(Collecting) /\ Len(taken) = Len(calls)
    /\ \A i \in 1..Len(calls) :
          /\ taken[i].id = calls[i].id /\ taken[i].tool = calls[i].tool
          /\ repeats \/ Distinct(calls[i].cut) => taken[i].text = calls[i].text

\* However the deltas of the calls are mixed, each call ends up with its own
\* pieces, and the calls stand in the order they were written.
LEMMA Interleaved ==
    ASSUME NEW calls, NEW m \in Nat, Len(calls) = m,
           \A i \in 1..m : MayBeStreamed(calls[i]) /\ CallTyped(calls[i]),
           NEW repeats \in BOOLEAN, NEW L \in Nat, NEW who, InOrder(who, calls, L),
           NEW stream, Len(stream) = L,
           \A n \in 1..L : stream[n] = DeltaOf(calls[who[n]], who[n], repeats, ToldOf(who, who[n], n))
    PROVE  AllHeard(CollectStreamToolCalls(stream), calls, repeats)
<1> DEFINE T == {n \in 0..L : \E k : Told(CollectedUpTo(stream)[n], calls, repeats, who, n, k)}
<1>1. 0 \in T
  <2>1. PICK state : state = CollectedUpTo(stream)[0]
    OBVIOUS
  <2>2. state = [slots |-> <<>>, calls |-> <<>>]
    BY <2>1, CollectedSteps
  <2>3. state.slots = <<>> /\ state.calls = <<>>
    BY <2>2
  <2>4. Slotted(state, 0)
    <3>1. state = [slots |-> state.slots, calls |-> state.calls]
      BY <2>2, <2>3
    <3>2. DOMAIN state.slots = 1..0 /\ \A p \in 1..0 : state.slots[p] = p
      BY <2>3
    <3>3. state.calls \in Seq(Collecting) /\ Len(state.calls) = 0
      BY <2>3
    <3> QED BY <3>1, <3>2, <3>3, Zenon DEF Slotted
  <2>5. \A i \in 1..m : i <= 0 <=> ToldOf(who, i, 0) # 0
    <3>1. \A i \in 1..m : ToldOf(who, i, 0) = 0
      <4>1. 0 \in Nat
        OBVIOUS
      <4> QED BY <4>1, ToldCounts
    <3> QED BY <3>1
  <2>6. Told(state, calls, repeats, who, 0, 0)
    BY <2>4, <2>5 DEF Told
  <2> QED BY <2>1, <2>6
<1>2. ASSUME NEW n \in 0..(L - 1), n \in T PROVE n + 1 \in T
  <2>1. PICK k : Told(CollectedUpTo(stream)[n], calls, repeats, who, n, k)
    BY <1>2
  <2>2. n + 1 \in 1..L /\ n + 1 \in 0..L /\ (n + 1) - 1 = n
    OBVIOUS
  <2>3. PICK d : d = stream[n + 1]
    OBVIOUS
  <2>4. d = DeltaOf(calls[who[n + 1]], who[n + 1], repeats, ToldOf(who, who[n + 1], n + 1))
    BY <2>2, <2>3
  <2>5. PICK state : state = CollectedUpTo(stream)[n]
    OBVIOUS
  <2>6. \E j : Told(Collected(state, d), calls, repeats, who, n + 1, j)
    BY <2>1, <2>4, <2>5, ToldStep
  <2>7. CollectedUpTo(stream)[n + 1] = Collected(state, d)
    <3>1. CollectedUpTo(stream)[n + 1] = Collected(CollectedUpTo(stream)[(n + 1) - 1], stream[n + 1])
      BY <2>2, CollectedSteps
    <3> QED BY <3>1, <2>2, <2>3, <2>5
  <2> QED BY <2>2, <2>6, <2>7
<1>3. L \in T
  <2> HIDE DEF T
  <2>1. 0..L \subseteq T
    BY <1>1, <1>2, UpToInduction
  <2> QED BY <2>1
<1>4. PICK k : Told(CollectedUpTo(stream)[L], calls, repeats, who, L, k)
  BY <1>3
<1>5. PICK taken : taken = CollectStreamToolCalls(stream)
  OBVIOUS
<1>6. taken = CollectedUpTo(stream)[L].calls
  BY <1>5 DEF CollectStreamToolCalls
<1>7. ASSUME NEW i \in 1..m
      PROVE  ToldOf(who, i, L) = Len(calls[i].cut) + 1 /\ Len(calls[i].cut) \in 1..MaxPieces
  <2>1. ToldOf(who, i, L) = Len(calls[i].cut) + 1
    BY DEF InOrder
  <2>2. Len(calls[i].cut) \in 1..MaxPieces
    BY PieceTyped
  <2> QED BY <2>1, <2>2
<1>8. k = m
  <2>1. k \in 0..m /\ \A i \in 1..m : i <= k <=> ToldOf(who, i, L) # 0
    BY <1>4 DEF Told
  <2>2. m # 0 => m <= k
    <3>1. ASSUME m # 0 PROVE m <= k
      <4>1. m \in 1..m
        BY <3>1
      <4>2. ToldOf(who, m, L) # 0
        BY <4>1, <1>7
      <4> QED BY <4>1, <4>2, <2>1
    <3> QED BY <3>1
  <2> QED BY <2>1, <2>2
<1>9. taken \in Seq(Collecting) /\ Len(taken) = m
  BY <1>4, <1>6, <1>8 DEF Told, Slotted
<1>10. ASSUME NEW i \in 1..m
       PROVE  /\ taken[i].id = calls[i].id /\ taken[i].tool = calls[i].tool
              /\ repeats \/ Distinct(calls[i].cut) => taken[i].text = calls[i].text
  <2>1. Heard(taken[i], calls[i], repeats, ToldOf(who, i, L))
    BY <1>4, <1>6, <1>8 DEF Told
  <2>2. PICK call, c : call = calls[i] /\ c = Len(call.cut)
    OBVIOUS
  <2>3. (c + 1) - 1 = c /\ ToldOf(who, i, L) = c + 1
    BY <1>7, <2>2
  <2>4. Joined(call.cut, c) = call.text
    BY <2>2, PieceTyped
  <2>5. Heard(taken[i], call, repeats, c + 1)
    BY <2>1, <2>2, <2>3
  <2>6. /\ taken[i].id = call.id /\ taken[i].tool = call.tool
        /\ repeats \/ Distinct(call.cut) => taken[i].text = call.text
    BY <2>3, <2>4, <2>5, Zenon DEF Heard
  <2> QED BY <2>2, <2>6
<1> QED BY <1>5, <1>9, <1>10 DEF AllHeard

\* Calls that come whole in one chunk, without indexes, are kept apart by their
\* places in it.
LEMMA AtOnce ==
    ASSUME NEW calls, NEW m \in Nat, Len(calls) = m,
           \A i \in 1..m : MayBeStreamed(calls[i]) /\ CallTyped(calls[i]),
           NEW repeats \in BOOLEAN, NEW stream, Len(stream) = m,
           \A n \in 1..m : stream[n] = Delta(NoIndex, n, calls[n].id, calls[n].tool, calls[n].text)
    PROVE  AllHeard(CollectStreamToolCalls(stream), calls, repeats)
<1> DEFINE Whole(i) == [id |-> calls[i].id, tool |-> calls[i].tool, text |-> calls[i].text]
           Good(state, n) == Slotted(state, n) /\ \A i \in 1..n : state.calls[i] = Whole(i)
           T == {n \in 0..m : Good(CollectedUpTo(stream)[n], n)}
<1>1. 0 \in T
  <2>1. PICK state : state = CollectedUpTo(stream)[0]
    OBVIOUS
  <2>2. state = [slots |-> <<>>, calls |-> <<>>]
    BY <2>1, CollectedSteps
  <2>3. state.slots = <<>> /\ state.calls = <<>>
    BY <2>2
  <2>4. Slotted(state, 0)
    <3>1. state = [slots |-> state.slots, calls |-> state.calls]
      BY <2>2, <2>3
    <3>2. DOMAIN state.slots = 1..0 /\ \A p \in 1..0 : state.slots[p] = p
      BY <2>3
    <3>3. state.calls \in Seq(Collecting) /\ Len(state.calls) = 0
      BY <2>3
    <3> QED BY <3>1, <3>2, <3>3, Zenon DEF Slotted
  <2> QED BY <2>1, <2>4
<1>2. ASSUME NEW n \in 0..(m - 1), n \in T PROVE n + 1 \in T
  <2>1. PICK state : state = CollectedUpTo(stream)[n]
    OBVIOUS
  <2>2. Slotted(state, n) /\ \A i \in 1..n : state.calls[i] = Whole(i)
    BY <1>2, <2>1
  <2>3. n + 1 \in 1..m /\ n + 1 \in 0..m /\ (n + 1) - 1 = n /\ n \in Nat
    OBVIOUS
  <2>4. PICK call : call = calls[n + 1]
    OBVIOUS
  <2>5. MayBeStreamed(call) /\ CallTyped(call)
    BY <2>3, <2>4
  <2>6. PICK d : d = stream[n + 1]
    OBVIOUS
  <2>7. d = [index |-> NoIndex, place |-> n + 1, id |-> call.id, tool |-> call.tool, part |-> call.text]
    BY <2>3, <2>4, <2>6 DEF Delta
  <2>8. Position(d) = n + 1 /\ d.id = call.id /\ d.tool = call.tool /\ d.part = call.text
    BY <2>7 DEF Position
  <2>9. d.id # NoId /\ d.tool # NoTool /\ CallTyped(d)
    BY <2>5, <2>8 DEF MayBeStreamed, CallTyped
  <2>10. PICK text : text = call.text
    OBVIOUS
  <2>11. text \in Seq(STRING) /\ AppendToolCallArgs(<<>>, d.part) = text
    <3>1. text \in Seq(STRING) /\ text # <<>>
      BY <2>5, <2>10 DEF MayBeStreamed, WholeObject
    <3> QED BY <3>1, <2>8, <2>10 DEF AppendToolCallArgs
  <2>12. PICK after : after = Collected(state, d)
    OBVIOUS
  <2>13. /\ Slotted(Collected(state, d), n + 1)
         /\ \A i \in 1..n : Collected(state, d).calls[i] = state.calls[i]
         /\ Collected(state, d).calls[n + 1] = [id |-> d.id, tool |-> d.tool, text |-> text]
    BY <2>2, <2>3, <2>8, <2>9, <2>11, NewCall
  <2>14. after.calls[n + 1] = Whole(n + 1)
    BY <2>4, <2>8, <2>10, <2>12, <2>13
  <2>15. Good(after, n + 1)
    <3>1. \A i \in 1..n : after.calls[i] = Whole(i)
      BY <2>2, <2>12, <2>13
    <3>2. \A i \in 1..(n + 1) : i \in 1..n \/ i = n + 1
      BY <2>3
    <3>3. Slotted(after, n + 1)
      BY <2>12, <2>13
    <3> HIDE DEF Whole
    <3> QED BY <3>1, <3>2, <3>3, <2>14
  <2>16. CollectedUpTo(stream)[n + 1] = after
    <3>1. CollectedUpTo(stream)[n + 1] = Collected(CollectedUpTo(stream)[(n + 1) - 1], stream[n + 1])
      BY <2>3, CollectedSteps
    <3> QED BY <3>1, <2>1, <2>3, <2>6, <2>12
  <2> HIDE DEF Good
  <2> QED BY <2>3, <2>15, <2>16
<1>3. m \in T
  <2> HIDE DEF T
  <2>1. 0..m \subseteq T
    BY <1>1, <1>2, UpToInduction
  <2> QED BY <2>1
<1>4. PICK taken : taken = CollectStreamToolCalls(stream)
  OBVIOUS
<1>5. taken = CollectedUpTo(stream)[m].calls
  BY <1>4 DEF CollectStreamToolCalls
<1>6. taken \in Seq(Collecting) /\ Len(taken) = m
  BY <1>3, <1>5 DEF Slotted
<1>7. ASSUME NEW i \in 1..m
      PROVE  taken[i].id = calls[i].id /\ taken[i].tool = calls[i].tool /\ taken[i].text = calls[i].text
  <2>1. taken[i] = Whole(i)
    BY <1>3, <1>5
  <2>2. PICK w : w = Whole(i)
    OBVIOUS
  <2>3. w.id = calls[i].id /\ w.tool = calls[i].tool /\ w.text = calls[i].text
    BY <2>2
  <2> QED BY <2>1, <2>2, <2>3
<1> QED BY <1>4, <1>6, <1>7 DEF AllHeard

LEMMA ListOf ==
    ASSUME NEW n \in Nat, NEW f, f = [i \in 1..n |-> f[i]]
    PROVE  Len(f) = n /\ DOMAIN f = 1..n /\ f \in Seq({f[i] : i \in 1..n})
<1> DEFINE S == {f[i] : i \in 1..n}
<1>1. f \in [1..n -> S]
  OBVIOUS
<1> HIDE DEF S
<1>2. f \in Seq(S) /\ Len(f) = n
  BY <1>1, ListTyped
<1>3. DOMAIN f = 1..n
  BY <1>1
<1> QED BY <1>2, <1>3 DEF S

\* The pieces of a call, as the upstream sends them.
LEMMA PiecesTyped ==
    ASSUME NEW call, MayBeStreamed(call), NEW repeats \in BOOLEAN,
           NEW p, p = IF repeats THEN Snapshots(call.cut) ELSE call.cut
    PROVE  /\ p \in Seq(Seq(STRING)) /\ Len(p) = Len(call.cut)
           /\ \A n \in 1..Len(p) : p[n] = Piece(call, repeats, n)
<1>1. Len(call.cut) \in 1..MaxPieces /\ DOMAIN call.cut = 1..Len(call.cut)
  BY PieceTyped
<1>2. \A n \in 1..Len(call.cut) : Piece(call, repeats, n) \in Seq(STRING)
  BY PieceTyped
<1>3. Len(call.cut) \in Nat
  BY <1>1 DEF MaxPieces
<1>4. CASE repeats
  <2>1. p = [n \in 1..Len(call.cut) |-> Joined(call.cut, n)]
    BY <1>1, <1>4 DEF Snapshots
  <2>2. \A n \in 1..Len(call.cut) : p[n] = Piece(call, repeats, n)
    BY <2>1, <1>4 DEF Piece
  <2>3. p \in [1..Len(call.cut) -> Seq(STRING)]
    BY <2>1, <2>2, <1>2
  <2>4. p \in Seq(Seq(STRING)) /\ Len(p) = Len(call.cut)
    BY <2>3, <1>3, ListTyped
  <2> QED BY <2>2, <2>4
<1>5. CASE ~repeats
  <2>1. p = call.cut
    BY <1>5
  <2>2. call.text # <<>> /\ call.text \in Seq(STRING)
    BY DEF MayBeStreamed, WholeObject
  <2>3. p \in Seq(Seq(STRING))
    BY <2>1, <2>2, CutEnds DEF MayBeStreamed, Ends
  <2>4. \A n \in 1..Len(p) : p[n] = Piece(call, repeats, n)
    BY <2>1, <1>5 DEF Piece
  <2> QED BY <2>1, <2>3, <2>4
<1> QED BY <1>4, <1>5

LEMMA StreamsHeard ==
    ASSUME NEW calls, NEW m \in 0..MaxCalls, Len(calls) = m, DOMAIN calls = 1..m,
           \A i \in 1..m : MayBeStreamed(calls[i]) /\ CallTyped(calls[i]),
           NEW repeats \in BOOLEAN,
           NEW pieces, pieces = [i \in DOMAIN calls |->
                                   IF repeats THEN Snapshots(calls[i].cut) ELSE calls[i].cut],
           NEW stream \in Streams(calls, pieces)
    PROVE  AllHeard(CollectStreamToolCalls(stream), calls, repeats)
<1>1. m \in Nat
  BY MaxCallsAssumption
<1>2. ASSUME NEW i \in 1..m
      PROVE  /\ pieces[i] \in Seq(Seq(STRING)) /\ Len(pieces[i]) = Len(calls[i].cut)
             /\ \A n \in 1..Len(pieces[i]) : pieces[i][n] = Piece(calls[i], repeats, n)
             /\ Len(calls[i].cut) \in 1..MaxPieces
  <2>1. pieces[i] = IF repeats THEN Snapshots(calls[i].cut) ELSE calls[i].cut
    OBVIOUS
  <2>2. Len(calls[i].cut) \in 1..MaxPieces
    BY PieceTyped
  <2> QED BY <2>1, <2>2, PiecesTyped
<1>3. PICK sizes : sizes = [i \in DOMAIN calls |-> Len(pieces[i]) + 1]
  OBVIOUS
<1>4. /\ DOMAIN sizes = 1..m
      /\ \A i \in 1..m : sizes[i] = Len(calls[i].cut) + 1 /\ sizes[i] \in 2..(MaxPieces + 1)
  <2>1. DOMAIN sizes = 1..m
    BY <1>3
  <2>2. ASSUME NEW i \in 1..m
        PROVE  sizes[i] = Len(calls[i].cut) + 1 /\ sizes[i] \in 2..(MaxPieces + 1)
    <3>1. sizes[i] = Len(pieces[i]) + 1
      BY <1>3
    <3>2. Len(pieces[i]) = Len(calls[i].cut) /\ Len(calls[i].cut) \in 1..MaxPieces
      BY <1>2
    <3>3. PICK c : c = Len(calls[i].cut)
      OBVIOUS
    <3>4. c \in 1..3 /\ sizes[i] = c + 1
      BY <3>1, <3>2, <3>3 DEF MaxPieces
    <3>5. sizes[i] \in 2..(3 + 1)
      BY <3>4
    <3> QED BY <3>3, <3>4, <3>5 DEF MaxPieces
  <2> QED BY <2>1, <2>2
<1>5. OrdersOf[sizes] = Orders(sizes)
  <2>1. sizes \in [1..m -> 2..(MaxPieces + 1)]
    BY <1>3, <1>4
  <2>2. sizes \in UNION {[1..n -> 2..(MaxPieces + 1)] : n \in 0..MaxCalls}
    BY <2>1
  <2> QED BY <2>2 DEF OrdersOf
<1>6. CASE stream = [i \in DOMAIN calls |-> Delta(NoIndex, i, calls[i].id, calls[i].tool, calls[i].text)]
  <2>1. \A n \in 1..m : stream[n] = Delta(NoIndex, n, calls[n].id, calls[n].tool, calls[n].text)
    BY <1>6
  <2>2. Len(stream) = m
    BY <1>1, <1>6, ListOf
  <2> QED BY <1>1, <2>1, <2>2, AtOnce
<1>7. ASSUME NEW who \in Orders(sizes),
             stream = [t \in DOMAIN who |->
                          CallDeltas(calls[who[t]], who[t], pieces[who[t]])
                              [Cardinality({u \in 1..t : who[u] = who[t]})]]
      PROVE  AllHeard(CollectStreamToolCalls(stream), calls, repeats)
  <2>0. /\ who \in UNION {[1..n -> DOMAIN sizes] : n \in 0..((MaxPieces + 1) * Len(sizes))}
        /\ \A i \in DOMAIN sizes : Cardinality({t \in DOMAIN who : who[t] = i}) = sizes[i]
        /\ \A i, j \in DOMAIN sizes : i < j =>
              \E t \in DOMAIN who : who[t] = i /\ \A u \in DOMAIN who : who[u] = j => t < u
    BY Zenon DEF Orders
  <2>1. PICK L \in Nat : who \in [1..L -> 1..m]
    <3>1. PICK n \in 0..((MaxPieces + 1) * Len(sizes)) : who \in [1..n -> DOMAIN sizes]
      BY <2>0, Zenon
    <3>2. n \in Nat
      <4>1. PICK q : q = (MaxPieces + 1) * Len(sizes)
        OBVIOUS
      <4> QED BY <3>1, <4>1
    <3> QED BY <3>1, <3>2, <1>4
  <2>2. DOMAIN who = 1..L
    BY <2>1
  <2>3. \A i \in 1..m : ToldOf(who, i, L) = Len(calls[i].cut) + 1
    BY <2>0, <2>2, <1>4 DEF ToldOf
  <2>4. \A i, j \in 1..m : i < j =>
            \E t \in 1..L : who[t] = i /\ \A u \in 1..L : who[u] = j => t < u
    <3>1. ASSUME NEW i \in 1..m, NEW j \in 1..m, i < j
          PROVE  \E t \in 1..L : who[t] = i /\ \A u \in 1..L : who[u] = j => t < u
      <4>1. i \in DOMAIN sizes /\ j \in DOMAIN sizes
        BY <1>4
      <4>2. PICK t \in DOMAIN who : who[t] = i /\ \A u \in DOMAIN who : who[u] = j => t < u
        BY <2>0, <3>1, <4>1, Zenon
      <4> QED BY <4>2, <2>2
    <3> QED BY <3>1
  <2>5. InOrder(who, calls, L)
    BY <2>1, <2>3, <2>4, Zenon DEF InOrder
  <2>6. Len(stream) = L
    BY <2>1, <2>2, <1>7, ListOf
  <2>7. ASSUME NEW n \in 1..L
        PROVE  stream[n] = DeltaOf(calls[who[n]], who[n], repeats, ToldOf(who, who[n], n))
    <3>1. PICK i, c, call : i = who[n] /\ c = ToldOf(who, i, n) /\ call = calls[i]
      OBVIOUS
    <3>2. i \in 1..m
      BY <2>1, <3>1
    <3>3. PICK p : p = pieces[i]
      OBVIOUS
    <3>4. stream[n] = CallDeltas(call, i, p)[c]
      <4>1. Cardinality({u \in 1..n : who[u] = who[n]}) = c
        BY <3>1 DEF ToldOf
      <4> QED BY <4>1, <2>2, <3>1, <3>3, <1>7
    <3>5. /\ p \in Seq(Seq(STRING)) /\ Len(p) = Len(call.cut)
          /\ \A q \in 1..Len(p) : p[q] = Piece(call, repeats, q)
          /\ Len(call.cut) \in 1..MaxPieces
      BY <1>2, <3>1, <3>2, <3>3
    <3>6. c \in 1..(Len(p) + 1)
      <4>1. n \in 0..L /\ n \in Nat
        BY <2>1
      <4>2. c \in Nat /\ c # 0
        <5>1. n \in 1..n /\ who[n] = i
          BY <3>1
        <5> QED BY <5>1, <4>1, <3>1, ToldCounts
      <4>3. c <= ToldOf(who, i, L)
        BY <4>1, <2>1, <3>1, ToldCounts
      <4>4. ToldOf(who, i, L) = Len(p) + 1
        BY <2>3, <3>1, <3>2, <3>5
      <4>5. Len(p) \in Nat
        BY <3>5 DEF MaxPieces
      <4> QED BY <4>2, <4>3, <4>4, <4>5
    <3>7. CallDeltas(call, i, p)[c] = DeltaOf(call, i, repeats, c)
      <4>1. CallDeltas(call, i, p)[c] = IF c = 1 THEN Delta(i, 1, call.id, call.tool, <<>>)
                                         ELSE Delta(i, 1, NoId, NoTool, p[c - 1])
        BY <3>5, <3>6, DeltaAt
      <4>2. c # 1 => p[c - 1] = Piece(call, repeats, c - 1)
        <5>1. Len(p) \in Nat
          BY <3>5 DEF MaxPieces
        <5>2. c # 1 => c - 1 \in 1..Len(p)
          BY <5>1, <3>6
        <5> QED BY <5>2, <3>5
      <4> QED BY <4>1, <4>2, Zenon DEF DeltaOf
    <3> QED BY <3>1, <3>4, <3>7
  <2> QED BY <1>1, <2>1, <2>5, <2>6, <2>7, Interleaved
<1>8. \/ stream = [i \in DOMAIN calls |-> Delta(NoIndex, i, calls[i].id, calls[i].tool, calls[i].text)]
      \/ \E who \in Orders(sizes) :
            stream = [t \in DOMAIN who |->
                         CallDeltas(calls[who[t]], who[t], pieces[who[t]])
                             [Cardinality({u \in 1..t : who[u] = who[t]})]]
  <2> DEFINE delta(i, k) == CallDeltas(calls[i], i, pieces[i])[k]
             told(who, t) == Cardinality({u \in 1..t : who[u] = who[t]})
  <2>1. \/ stream \in {[i \in DOMAIN calls |->
                            Delta(NoIndex, i, calls[i].id, calls[i].tool, calls[i].text)]}
        \/ stream \in {[t \in DOMAIN who |-> delta(who[t], told(who, t))] : who \in OrdersOf[sizes]}
    BY <1>3, Zenon DEF Streams
  <2>2. ASSUME stream \in {[t \in DOMAIN who |-> delta(who[t], told(who, t))] : who \in OrdersOf[sizes]}
        PROVE  \E who \in Orders(sizes) : stream = [t \in DOMAIN who |-> delta(who[t], told(who, t))]
    <3>1. PICK who \in OrdersOf[sizes] : stream = [t \in DOMAIN who |-> delta(who[t], told(who, t))]
      BY <2>2
    <3> QED BY <3>1, <1>5
  <2> QED BY <2>1, <2>2
<1> QED BY <1>6, <1>7, <1>8, Zenon

---------------------------------------------------------------------------
(* The tokens of a list of rounds *)

Summed(before, rounds, n) == IF n = 0 THEN 0 ELSE before[n - 1] + rounds[n].tokens

IsSum(g, rounds, L) == g = [n \in 0..L |-> Summed(g, rounds, n)]

LEMMA SumExists ==
    ASSUME NEW rounds, NEW L \in Nat
    PROVE  \E g : IsSum(g, rounds, L)
<1> DEFINE T == {l \in Nat : \E g : IsSum(g, rounds, l)}
<1>1. 0 \in T
  <2> DEFINE g == [n \in 0..0 |-> 0]
  <2>1. IsSum(g, rounds, 0)
    BY DEF IsSum, Summed
  <2> HIDE DEF g
  <2> QED BY <2>1
<1>2. ASSUME NEW l \in Nat, l \in T PROVE l + 1 \in T
  <2>1. PICK g : IsSum(g, rounds, l)
    BY <1>2
  <2> DEFINE k == [n \in 0..(l + 1) |-> IF n = l + 1 THEN Summed(g, rounds, n) ELSE g[n]]
  <2>2. ASSUME NEW n \in 0..(l + 1) PROVE k[n] = Summed(k, rounds, n)
    <3>1. n # 0 => k[n - 1] = g[n - 1]
      OBVIOUS
    <3>2. Summed(k, rounds, n) = Summed(g, rounds, n)
      BY <3>1 DEF Summed
    <3>3. n # l + 1 => g[n] = Summed(g, rounds, n)
      BY <2>1 DEF IsSum
    <3> QED BY <3>2, <3>3
  <2>3. IsSum(k, rounds, l + 1)
    BY <2>2 DEF IsSum
  <2> HIDE DEF k
  <2>4. l + 1 \in Nat
    OBVIOUS
  <2> QED BY <2>3, <2>4
<1> HIDE DEF T
<1>3. Nat \subseteq T
  BY <1>1, <1>2, NatSetInduction
<1> QED BY <1>3 DEF T

LEMMA TokensIsSum ==
    ASSUME NEW rounds, Len(rounds) \in Nat
    PROVE  \E g : IsSum(g, rounds, Len(rounds)) /\ Tokens(rounds) = g[Len(rounds)]
<1> DEFINE g == CHOOSE f : IsSum(f, rounds, Len(rounds))
<1>1. Tokens(rounds) = g[Len(rounds)]
  BY Zenon DEF Tokens, IsSum, Summed
<1>2. \E f : IsSum(f, rounds, Len(rounds))
  BY SumExists
<1>3. IsSum(g, rounds, Len(rounds))
  BY <1>2, Zenon
<1> QED BY <1>1, <1>3

\* A round more costs its tokens more.
LEMMA TokensAppend ==
    ASSUME NEW S, \A round \in S : round.tokens \in Nat, NEW rounds \in Seq(S), NEW x \in S
    PROVE  /\ Tokens(rounds) \in Nat
           /\ Tokens(Append(rounds, x)) = Tokens(rounds) + x.tokens
<1> DEFINE n == Len(rounds)
           u == Append(rounds, x)
<1>1. /\ n \in Nat /\ Len(u) = n + 1 /\ u[n + 1] = x
      /\ \A i \in 1..n : u[i] = rounds[i] /\ rounds[i] \in S
  BY LenProperties, ElementOfSeq, AppendProperties
<1>2. PICK f : IsSum(f, rounds, n) /\ Tokens(rounds) = f[n]
  BY <1>1, TokensIsSum
<1>3. PICK g : IsSum(g, u, n + 1) /\ Tokens(u) = g[n + 1]
  <2>1. Len(u) \in Nat
    BY <1>1
  <2>2. \E g : IsSum(g, u, Len(u)) /\ Tokens(u) = g[Len(u)]
    BY <2>1, TokensIsSum
  <2> QED BY <2>2, <1>1
<1> DEFINE T == {i \in 0..n : f[i] = g[i] /\ f[i] \in Nat}
<1>4. 0 \in T
  <2>0. 0 \in 0..n /\ 0 \in 0..(n + 1)
    BY <1>1
  <2>1. f[0] = Summed(f, rounds, 0) /\ g[0] = Summed(g, u, 0)
    <3> HIDE DEF n, u
    <3> QED BY <2>0, <1>2, <1>3 DEF IsSum
  <2> QED BY <2>1, <1>1 DEF Summed
<1>5. ASSUME NEW i \in 0..(n - 1), i \in T PROVE i + 1 \in T
  <2>1. i + 1 \in 1..n /\ i + 1 \in 0..n /\ i + 1 \in 0..(n + 1) /\ (i + 1) - 1 = i /\ i + 1 # 0
    BY <1>1
  <2>2. f[i + 1] = Summed(f, rounds, i + 1) /\ g[i + 1] = Summed(g, u, i + 1)
    BY <1>2, <1>3, <2>1 DEF IsSum
  <2>3. f[i + 1] = f[i] + rounds[i + 1].tokens /\ g[i + 1] = g[i] + rounds[i + 1].tokens
    BY <1>1, <2>1, <2>2 DEF Summed
  <2>4. rounds[i + 1].tokens \in Nat
    BY <1>1, <2>1
  <2> QED BY <2>1, <2>3, <2>4, <1>5
<1>6. n \in T
  <2> HIDE DEF T
  <2>1. 0..n \subseteq T
    BY <1>1, <1>4, <1>5, UpToInduction
  <2> QED BY <2>1, <1>1
<1>7. g[n + 1] = g[n] + x.tokens
  <2>1. n + 1 \in 0..(n + 1) /\ n + 1 # 0 /\ (n + 1) - 1 = n
    BY <1>1
  <2>2. g[n + 1] = Summed(g, u, n + 1)
    BY <1>3, <2>1 DEF IsSum
  <2> QED BY <2>1, <2>2, <1>1 DEF Summed
<1> QED BY <1>2, <1>3, <1>6, <1>7

LEMMA TokensNone == Tokens(<<>>) = 0
<1>1. Len(<<>>) = 0
  OBVIOUS
<1>2. PICK none, n : none = <<>> /\ n = 0
  OBVIOUS
<1>3. \E g : IsSum(g, none, Len(none)) /\ Tokens(none) = g[Len(none)]
  BY <1>1, <1>2, TokensIsSum
<1>4. PICK g : IsSum(g, none, n) /\ Tokens(none) = g[n]
  BY <1>1, <1>2, <1>3
<1>5. g[0] = Summed(g, none, 0)
  BY <1>2, <1>4 DEF IsSum
<1> QED BY <1>2, <1>4, <1>5 DEF Summed

---------------------------------------------------------------------------
(* The calls of an answer that a loop runs *)

\* What the model's operators say of the loop that was chosen, of any loop.
ServedBy(l) == CASE l = "visual" -> VisualTools
                 [] l = "direct" -> {}
                 [] OTHER        -> SearchTools
OursBy(l, calls) == Selected(calls, {c \in ToSet(calls) : c.tool \in ServedBy(l)})
OthersBy(l, calls) == Selected(calls, {c \in ToSet(calls) : c.tool \notin ServedBy(l)})
DueBy(l, round) ==
    IF l \in {"messages", "visual"} /\ round.stop # "tool_use" THEN <<>>
    ELSE OursBy(l, round.calls)
Dues(l, rounds) == FlattenSeq([r \in DOMAIN rounds |-> DueBy(l, rounds[r])])

Tools == SearchTools \union VisualTools \union {"lookup"}
WholeCalls == [id : Nat \X Nat, tool : Tools, text : {<<>>}, cut : {<<>>}, ref : Nat]
ToldCalls == WholeCalls \union [id : Nat \X Nat, tool : Tools, text : Seq(STRING), distinct : BOOLEAN]
TakenCalls == WholeCalls \union Collecting

\* a stands for the call b that the model wrote.
SameCall(l, a, b) ==
    /\ a.id = b.id /\ a.tool = b.tool
    /\ l = "chat stream" => (b.distinct => a.text = b.text)
Alike(l, s, t) == Len(s) = Len(t) /\ \A i \in 1..Len(s) : SameCall(l, s[i], t[i])

LEMMA Chosen ==
    /\ Serves = ServedBy(loop)
    /\ \A calls : Ours(calls) = OursBy(loop, calls) /\ Others(calls) = OthersBy(loop, calls)
    /\ \A round : Due(round) = DueBy(loop, round)
<1>1. Serves = ServedBy(loop)
  BY Zenon DEF Serves, ServedBy
<1>2. \A calls : Ours(calls) = OursBy(loop, calls) /\ Others(calls) = OthersBy(loop, calls)
  BY <1>1, Zenon DEF Ours, Others, OursBy, OthersBy
<1>3. \A round : Due(round) = DueBy(loop, round)
  BY <1>2, Zenon DEF Due, DueBy
<1> QED BY <1>1, <1>2, <1>3

LEMMA InList ==
    ASSUME NEW S, NEW s \in Seq(S)
    PROVE  \A i \in 1..Len(s) : s[i] \in ToSet(s)
BY LenProperties DEF ToSet

LEMMA OursTyped ==
    ASSUME NEW l, NEW S, NEW calls \in Seq(S)
    PROVE  /\ OursBy(l, calls) \in Seq(S) /\ OthersBy(l, calls) \in Seq(S)
           /\ \A i \in 1..Len(OursBy(l, calls)) : OursBy(l, calls)[i].tool \in ServedBy(l)
           /\ \A i \in 1..Len(OthersBy(l, calls)) : OthersBy(l, calls)[i].tool \notin ServedBy(l)
           /\ OursBy(l, calls) = <<>> <=> \A i \in 1..Len(calls) : calls[i].tool \notin ServedBy(l)
           /\ OthersBy(l, calls) = <<>> <=> \A i \in 1..Len(calls) : calls[i].tool \in ServedBy(l)
<1>1. PICK A, B : /\ A = {c \in ToSet(calls) : c.tool \in ServedBy(l)}
                  /\ B = {c \in ToSet(calls) : c.tool \notin ServedBy(l)}
  OBVIOUS
<1> DEFINE ours == Selected(calls, A)
           others == Selected(calls, B)
<1>3. OursBy(l, calls) = ours /\ OthersBy(l, calls) = others
  BY <1>1 DEF OursBy, OthersBy
<1>4. /\ ours \in Seq(S) /\ others \in Seq(S)
      /\ \A i \in 1..Len(ours) : ours[i] \in A
      /\ \A i \in 1..Len(others) : others[i] \in B
      /\ \A i \in 1..Len(calls) : calls[i] \in A => \E j \in 1..Len(ours) : ours[j] = calls[i]
      /\ \A i \in 1..Len(calls) : calls[i] \in B => \E j \in 1..Len(others) : others[j] = calls[i]
      /\ \A i \in 1..Len(ours) : \E j \in 1..Len(calls) : ours[i] = calls[j]
      /\ \A i \in 1..Len(others) : \E j \in 1..Len(calls) : others[i] = calls[j]
  <2>1. /\ ours \in Seq(S)
        /\ \A i \in 1..Len(ours) : ours[i] \in A
        /\ \A i \in 1..Len(calls) : calls[i] \in A => \E j \in 1..Len(ours) : ours[j] = calls[i]
        /\ \A i \in 1..Len(ours) : \E j \in 1..Len(calls) : ours[i] = calls[j]
    BY SelectedFacts
  <2>2. /\ others \in Seq(S)
        /\ \A i \in 1..Len(others) : others[i] \in B
        /\ \A i \in 1..Len(calls) : calls[i] \in B => \E j \in 1..Len(others) : others[j] = calls[i]
        /\ \A i \in 1..Len(others) : \E j \in 1..Len(calls) : others[i] = calls[j]
    BY SelectedFacts
  <2> QED BY <2>1, <2>2
<1> HIDE DEF ours, others
<1>5. \A i \in 1..Len(calls) : /\ calls[i] \in A <=> calls[i].tool \in ServedBy(l)
                               /\ calls[i] \in B <=> calls[i].tool \notin ServedBy(l)
  BY <1>1, InList
<1>6. /\ ours = <<>> <=> \A j \in 1..Len(ours) : FALSE
      /\ others = <<>> <=> \A j \in 1..Len(others) : FALSE
  <2>1. /\ Len(ours) \in Nat /\ (ours = <<>> <=> Len(ours) = 0)
        /\ Len(others) \in Nat /\ (others = <<>> <=> Len(others) = 0)
    BY <1>4, EmptySeq, LenProperties
  <2>2. \A n \in Nat : n = 0 <=> \A j \in 1..n : FALSE
    <3>1. ASSUME NEW n \in Nat, n # 0 PROVE n \in 1..n
      BY <3>1
    <3> QED BY <3>1
  <2> QED BY <2>1, <2>2
<1>7. ours = <<>> <=> \A i \in 1..Len(calls) : calls[i].tool \notin ServedBy(l)
  BY <1>4, <1>5, <1>6, Zenon
<1>8. others = <<>> <=> \A i \in 1..Len(calls) : calls[i].tool \in ServedBy(l)
  <2>1. ASSUME others = <<>>, NEW i \in 1..Len(calls) PROVE calls[i].tool \in ServedBy(l)
    BY <1>4, <1>5, <1>6, <2>1, Zenon
  <2>2. ASSUME \A i \in 1..Len(calls) : calls[i].tool \in ServedBy(l) PROVE others = <<>>
    BY <1>4, <1>5, <1>6, <2>2, Zenon
  <2> QED BY <2>1, <2>2
<1>9. /\ \A i \in 1..Len(ours) : ours[i].tool \in ServedBy(l)
      /\ \A i \in 1..Len(others) : others[i].tool \notin ServedBy(l)
  BY <1>1, <1>4
<1> QED BY <1>3, <1>4, <1>7, <1>8, <1>9

LEMMA OursAlike ==
    ASSUME NEW l, NEW taken \in Seq(TakenCalls), NEW told \in Seq(ToldCalls), Alike(l, taken, told)
    PROVE  Alike(l, OursBy(l, taken), OursBy(l, told))
<1> DEFINE R == {p \in TakenCalls \X ToldCalls : SameCall(l, p[1], p[2])}
<1>1. PICK A, B : /\ A = {c \in ToSet(taken) : c.tool \in ServedBy(l)}
                  /\ B = {c \in ToSet(told) : c.tool \in ServedBy(l)}
  OBVIOUS
<1>2. Len(taken) = Len(told)
  BY DEF Alike
<1>3. ASSUME NEW i \in 1..Len(taken)
      PROVE  (taken[i] \in A <=> told[i] \in B) /\ <<taken[i], told[i]>> \in R
  <2>1. taken[i] \in ToSet(taken) /\ told[i] \in ToSet(told)
    BY <1>2, InList
  <2>2. SameCall(l, taken[i], told[i])
    BY DEF Alike
  <2>3. taken[i].tool = told[i].tool
    BY <2>2 DEF SameCall
  <2>4. taken[i] \in TakenCalls /\ told[i] \in ToldCalls
    BY <1>2, ElementOfSeq
  <2> QED BY <1>1, <2>1, <2>2, <2>3, <2>4
<1> HIDE DEF R
<1>4. /\ Len(Selected(taken, A)) = Len(Selected(told, B))
      /\ \A i \in 1..Len(Selected(taken, A)) : <<Selected(taken, A)[i], Selected(told, B)[i]>> \in R
  BY <1>2, <1>3, SelectedAlike
<1>5. PICK s, t : s = Selected(taken, A) /\ t = Selected(told, B)
  OBVIOUS
<1>6. Len(s) = Len(t) /\ \A i \in 1..Len(s) : <<s[i], t[i]>> \in R
  BY <1>4, <1>5
<1>7. \A i \in 1..Len(s) : SameCall(l, s[i], t[i])
  <2>1. ASSUME NEW a, NEW b, <<a, b>> \in R PROVE SameCall(l, a, b)
    <3>1. PICK p : p = <<a, b>>
      OBVIOUS
    <3>2. SameCall(l, p[1], p[2]) /\ p[1] = a /\ p[2] = b
      BY <2>1, <3>1 DEF R
    <3> QED BY <3>2
  <2> QED BY <1>6, <2>1
<1>8. OursBy(l, taken) = s /\ OursBy(l, told) = t
  BY <1>1, <1>5 DEF OursBy
<1> QED BY <1>6, <1>7, <1>8 DEF Alike

LEMMA OthersEmpty ==
    ASSUME NEW l, NEW taken \in Seq(TakenCalls), NEW told \in Seq(ToldCalls), Alike(l, taken, told)
    PROVE  OthersBy(l, taken) = <<>> <=> OthersBy(l, told) = <<>>
<1>1. /\ OthersBy(l, taken) = <<>> <=> \A i \in 1..Len(taken) : taken[i].tool \in ServedBy(l)
      /\ OthersBy(l, told) = <<>> <=> \A i \in 1..Len(told) : told[i].tool \in ServedBy(l)
  BY OursTyped
<1>2. Len(taken) = Len(told) /\ \A i \in 1..Len(taken) : taken[i].tool = told[i].tool
  BY DEF Alike, SameCall
<1> QED BY <1>1, <1>2

LEMMA AlikeIds ==
    ASSUME NEW l, NEW S, NEW T, NEW s \in Seq(S), NEW t \in Seq(T), Alike(l, s, t)
    PROVE  IdOf(s) = IdOf(t)
<1>1. Len(s) = Len(t) /\ DOMAIN s = 1..Len(s) /\ DOMAIN t = 1..Len(s)
  BY LenProperties DEF Alike
<1>2. \A i \in 1..Len(s) : s[i].id = t[i].id
  BY DEF Alike, SameCall
<1> QED BY <1>1, <1>2 DEF IdOf

LEMMA AlikeConcat ==
    ASSUME NEW l, NEW S, NEW T, NEW a \in Seq(S), NEW b \in Seq(S), NEW c \in Seq(T), NEW d \in Seq(T),
           Alike(l, a, c), Alike(l, b, d)
    PROVE  Alike(l, a \o b, c \o d)
<1>1. PICK s, t : s = a \o b /\ t = c \o d
  OBVIOUS
<1>2. /\ Len(a) \in Nat /\ Len(b) \in Nat /\ Len(a) = Len(c) /\ Len(b) = Len(d)
  BY LenProperties DEF Alike
<1>3. /\ Len(s) = Len(a) + Len(b)
      /\ \A i \in 1..(Len(a) + Len(b)) : s[i] = IF i <= Len(a) THEN a[i] ELSE b[i - Len(a)]
  BY <1>1, ConcatProperties
<1>4. /\ Len(t) = Len(a) + Len(b)
      /\ \A i \in 1..(Len(a) + Len(b)) : t[i] = IF i <= Len(a) THEN c[i] ELSE d[i - Len(a)]
  <2>1. /\ Len(t) = Len(c) + Len(d)
        /\ \A i \in 1..(Len(c) + Len(d)) : t[i] = IF i <= Len(c) THEN c[i] ELSE d[i - Len(c)]
    BY <1>1, ConcatProperties
  <2> QED BY <1>2, <2>1
<1>5. ASSUME NEW i \in 1..Len(s) PROVE SameCall(l, s[i], t[i])
  <2>1. CASE i <= Len(a)
    <3>1. i \in 1..Len(a) /\ s[i] = a[i] /\ t[i] = c[i]
      BY <1>2, <1>3, <1>4, <2>1
    <3>2. SameCall(l, a[i], c[i])
      BY <3>1 DEF Alike
    <3> QED BY <3>1, <3>2
  <2>2. CASE ~(i <= Len(a))
    <3>1. i - Len(a) \in 1..Len(b) /\ s[i] = b[i - Len(a)] /\ t[i] = d[i - Len(a)]
      BY <1>2, <1>3, <1>4, <2>2
    <3>2. SameCall(l, b[i - Len(a)], d[i - Len(a)])
      BY <3>1 DEF Alike
    <3> QED BY <3>1, <3>2
  <2> QED BY <2>1, <2>2
<1> QED BY <1>1, <1>3, <1>4, <1>5 DEF Alike

Rounds == [calls : Seq(ToldCalls), stop : {"end_turn", "tool_use", "max_tokens"}, tokens : Nat]

LEMMA DueTyped ==
    ASSUME NEW l, NEW round \in Rounds
    PROVE  DueBy(l, round) \in Seq(ToldCalls)
<1>1. PICK calls : calls = round.calls
  OBVIOUS
<1>2. calls \in Seq(ToldCalls)
  BY <1>1 DEF Rounds
<1>3. OursBy(l, calls) \in Seq(ToldCalls)
  BY <1>2, OursTyped
<1>4. <<>> \in Seq(ToldCalls)
  OBVIOUS
<1> QED BY <1>1, <1>3, <1>4, Zenon DEF DueBy

LEMMA DuesAppend ==
    ASSUME NEW l, NEW rounds \in Seq(Rounds), NEW x \in Rounds
    PROVE  /\ Dues(l, rounds) \in Seq(ToldCalls)
           /\ Dues(l, Append(rounds, x)) = Dues(l, rounds) \o DueBy(l, x)
<1> DEFINE n == Len(rounds)
           u == Append(rounds, x)
<1>1. /\ n \in Nat /\ DOMAIN rounds = 1..n /\ DOMAIN u = 1..(n + 1) /\ u[n + 1] = x
      /\ \A i \in 1..n : u[i] = rounds[i] /\ rounds[i] \in Rounds
  BY LenProperties, ElementOfSeq, AppendProperties
<1> HIDE DEF n, u
<1>2. PICK s, t, y : /\ s = [r \in DOMAIN rounds |-> DueBy(l, rounds[r])]
                     /\ t = [r \in DOMAIN u |-> DueBy(l, u[r])]
                     /\ y = DueBy(l, x)
  OBVIOUS
<1>3. y \in Seq(ToldCalls)
  BY <1>2, DueTyped
<1>4. s \in Seq(Seq(ToldCalls)) /\ Len(s) = n /\ \A r \in 1..n : s[r] = DueBy(l, rounds[r])
  <2>1. \A r \in 1..n : s[r] = DueBy(l, rounds[r]) /\ DueBy(l, rounds[r]) \in Seq(ToldCalls)
    BY <1>1, <1>2, DueTyped
  <2>2. s \in [1..n -> Seq(ToldCalls)]
    BY <1>1, <1>2, <2>1
  <2> QED BY <1>1, <2>1, <2>2, ListTyped
<1>5. t = Append(s, y)
  <2>1. PICK v : v = Append(s, y)
    OBVIOUS
  <2>2. v \in Seq(Seq(ToldCalls)) /\ Len(v) = n + 1 /\ v[n + 1] = y /\ \A r \in 1..n : v[r] = s[r]
    BY <1>3, <1>4, <2>1, AppendProperties
  <2>3. DOMAIN v = 1..(n + 1)
    BY <2>2, LenProperties
  <2>4. v = [r \in 1..(n + 1) |-> v[r]]
    BY <2>2, <2>3
  <2>5. t = [r \in 1..(n + 1) |-> DueBy(l, u[r])]
    BY <1>1, <1>2
  <2>6. ASSUME NEW r \in 1..(n + 1) PROVE v[r] = DueBy(l, u[r])
    <3>1. CASE r = n + 1
      BY <3>1, <2>2, <1>1, <1>2
    <3>2. CASE r # n + 1
      <4>1. r \in 1..n
        BY <3>2, <1>1
      <4> QED BY <4>1, <2>2, <1>1, <1>4
    <3> QED BY <3>1, <3>2
  <2> QED BY <2>1, <2>4, <2>5, <2>6
<1>6. FlattenSeq(s) \in Seq(ToldCalls) /\ FlattenSeq(Append(s, y)) = FlattenSeq(s) \o y
  BY <1>3, <1>4, FlattenAppend
<1> QED BY <1>2, <1>5, <1>6 DEF Dues, u

LEMMA DuesNone == \A l : Dues(l, <<>>) = <<>>
<1>1. ASSUME NEW l PROVE Dues(l, <<>>) = <<>>
  <2>1. [r \in DOMAIN <<>> |-> DueBy(l, <<>>[r])] = <<>>
    OBVIOUS
  <2> QED BY <2>1, FlattenNone DEF Dues
<1> QED BY <1>1

---------------------------------------------------------------------------
(* The inductive invariant *)

Ids == {NoId} \union (Nat \X Nat)
Turns == [calls : Seq(TakenCalls), results : Seq(Ids)]
Executions == {Execution(call) : call \in TakenCalls}
Outcomes == [kind : {"none", "answer", "exceeded", "error"}, calls : Seq(TakenCalls), usage : Nat]
Usages == [told : BOOLEAN, tokens : Nat]

Typed ==
    /\ setting \in Settings /\ phase \in {"start", "ask", "done"} /\ loop \in Loops
    /\ asked \in Seq(Rounds) /\ turns \in Seq(Turns) /\ ran \in Seq(Executions)
    /\ outcome \in Outcomes /\ spent \in Usages

AllDue == \A r \in 1..Len(asked) : DueBy(loop, asked[r]) # <<>>

\* While the upstream is asked, every round was spent on calls of the loop, has
\* its turn, and one more is left.
Paced ==
    /\ Len(turns) <= Len(asked) /\ Len(asked) <= setting.rounds
    /\ phase = "start" => asked = <<>> /\ ran = <<>>
    /\ phase = "ask" => Len(turns) = Len(asked) /\ Len(asked) < setting.rounds /\ AllDue
    /\ phase = "done" <=> outcome.kind # "none"
    /\ outcome.kind = "exceeded" => Len(asked) = setting.rounds /\ AllDue

TurnOf(turn, l, round) ==
    /\ IdOf(turn.calls) = IdOf(round.calls)
    /\ turn.results = IdOf(OursBy(l, round.calls))

Followed == \A r \in 1..Len(turns) : TurnOf(turns[r], loop, asked[r])

\* A search loop goes on from no round with a call of the client's.
RoundsWhole ==
    loop # "visual" =>
        \A r \in 1..Len(asked) :
            r < Len(asked) \/ outcome.kind # "answer" => OthersBy(loop, asked[r].calls) = <<>>

\* What a client may get of the last round.
GivenOf(calls, l, last) ==
    /\ IdOf(calls) = IdOf(IF l = "messages" /\ last.stop = "tool_use"
                          THEN OthersBy(l, last.calls) ELSE last.calls)
    /\ l \in {"chat", "chat stream", "google"} =>
           OursBy(l, last.calls) = <<>> \/ OthersBy(l, last.calls) # <<>>
    /\ l = "visual" /\ last.stop = "tool_use" => OursBy(l, last.calls) = <<>>

Handed == outcome.kind = "answer" => GivenOf(outcome.calls, loop, asked[Len(asked)])

\* The visual loop's sum is that of its rounds, and there is one once a round told its usage.
SpentIs(sum, rounds) == sum.tokens = Tokens(rounds) /\ (sum.told <=> sum.tokens > 0)
SpentWhole == loop = "visual" \/ phase = "start" => SpentIs(spent, asked)

Paid == (loop = "visual" /\ outcome.kind = "answer") => outcome.usage = Tokens(asked)

IInv ==
    /\ Typed /\ Paced /\ Alike(loop, ran, Dues(loop, asked)) /\ Followed
    /\ RoundsWhole /\ Handed /\ SpentWhole /\ Paid

---------------------------------------------------------------------------
(* What an answer does *)

RoundOf(answer, told) == [calls |-> told, stop |-> answer.stop, tokens |-> answer.tokens]

IsAnswer(answer, told) ==
    /\ answer.calls \in Seq(TakenCalls) /\ told \in Seq(ToldCalls)
    /\ answer.stop \in {"end_turn", "tool_use", "max_tokens"} /\ answer.tokens \in Nat
    /\ Alike(loop, answer.calls, told)
    /\ loop # "chat stream" => answer.calls = told

\* The answer is the client's, and nothing of it was the loop's to run ...
HandedOn(answer, told) ==
    /\ DueBy(loop, RoundOf(answer, told)) = <<>>
    /\ turns' = turns /\ ran' = ran /\ phase' = "done"
    /\ \E usage \in Nat :
          /\ outcome' = [kind |-> "answer", calls |-> answer.calls, usage |-> usage]
          /\ loop = "visual" => usage = Tokens(asked) + answer.tokens
    /\ GivenOf(answer.calls, loop, RoundOf(answer, told))

\* ... or some of it was, and the client gets what its loop leaves it ...
Mixed(answer, told) ==
    /\ DueBy(loop, RoundOf(answer, told)) = OursBy(loop, told)
    /\ Run(answer.calls) /\ phase' = "done" /\ loop # "visual"
    /\ turns' = turns \/ turns' = Append(turns, Round(answer.calls))
    /\ \E calls :
          /\ outcome' = [kind |-> "answer", calls |-> calls, usage |-> answer.tokens]
          /\ calls \in Seq(TakenCalls) /\ GivenOf(calls, loop, RoundOf(answer, told))

\* ... or the upstream has to be asked again.
AskedAgain(answer, told) ==
    /\ DueBy(loop, RoundOf(answer, told)) = OursBy(loop, told)
    /\ OursBy(loop, answer.calls) # <<>>
    /\ loop # "visual" => OthersBy(loop, told) = <<>>
    /\ AskAgain(answer.calls)

LEMMA AlikeEmpty ==
    ASSUME NEW l, NEW S, NEW a \in Seq(S), NEW T, NEW b \in Seq(T), Alike(l, a, b)
    PROVE  a = <<>> <=> b = <<>>
<1>1. (a = <<>> <=> Len(a) = 0) /\ (b = <<>> <=> Len(b) = 0)
  BY EmptySeq
<1> QED BY <1>1 DEF Alike

LEMMA AskedGrows ==
    ASSUME asked \in Seq(Rounds), NEW answer, NEW told, IsAnswer(answer, told),
           NEW after, after = Append(asked, RoundOf(answer, told))
    PROVE  /\ after \in Seq(Rounds) /\ Len(after) = Len(asked) + 1 /\ Len(asked) \in Nat
           /\ after[Len(after)] = RoundOf(answer, told)
           /\ \A r \in 1..Len(asked) : after[r] = asked[r]
           /\ Dues(loop, asked) \in Seq(ToldCalls)
           /\ Dues(loop, after) = Dues(loop, asked) \o DueBy(loop, RoundOf(answer, told))
           /\ Tokens(asked) \in Nat /\ Tokens(after) = Tokens(asked) + answer.tokens
<1>1. PICK round : round = RoundOf(answer, told)
  OBVIOUS
<1>2. round \in Rounds /\ round.tokens = answer.tokens
  BY <1>1 DEF IsAnswer, RoundOf, Rounds
<1>3. /\ after \in Seq(Rounds) /\ Len(after) = Len(asked) + 1 /\ Len(asked) \in Nat
      /\ after[Len(asked) + 1] = round
      /\ \A r \in 1..Len(asked) : after[r] = asked[r]
  BY <1>1, <1>2, AppendProperties, LenProperties
<1>4. /\ Dues(loop, asked) \in Seq(ToldCalls)
      /\ Dues(loop, after) = Dues(loop, asked) \o DueBy(loop, round)
  BY <1>1, <1>2, DuesAppend
<1>5. Tokens(asked) \in Nat /\ Tokens(after) = Tokens(asked) + round.tokens
  <2>1. \A r \in Rounds : r.tokens \in Nat
    BY DEF Rounds
  <2> QED BY <1>1, <1>2, <2>1, TokensAppend
<1> QED BY <1>1, <1>2, <1>3, <1>4, <1>5

LEMMA AskedSum ==
    ASSUME asked \in Seq(Rounds)
    PROVE  Tokens(asked) \in Nat
<1>1. \A r \in Rounds : r.tokens \in Nat
  BY DEF Rounds
<1>2. PICK x : x = [calls |-> <<>>, stop |-> "end_turn", tokens |-> 0]
  OBVIOUS
<1>3. x \in Rounds
  BY <1>2 DEF Rounds
<1> QED BY <1>1, <1>3, TokensAppend

\* An answer adds what it tells, and shows the sum of its rounds.
LEMMA SpentGrows ==
    ASSUME Typed, SpentWhole, NEW answer, NEW told, IsAnswer(answer, told), Answer(answer, told)
    PROVE  /\ spent' \in Usages
           /\ loop = "visual" => /\ SpentIs(spent', asked')
                                 /\ Applied(answer) = Tokens(asked) + answer.tokens
<1>1. PICK total, cost : total = Tokens(asked) /\ cost = answer.tokens
  OBVIOUS
<1>2. total \in Nat /\ cost \in Nat
  BY <1>1, AskedSum DEF Typed, IsAnswer
<1>3. Tokens(asked') = total + cost
  <2>1. asked' = Append(asked, RoundOf(answer, told))
    BY DEF Answer, RoundOf
  <2>2. PICK after : after = asked'
    OBVIOUS
  <2>3. Tokens(after) = Tokens(asked) + answer.tokens
    BY <2>1, <2>2, AskedGrows DEF Typed
  <2> QED BY <1>1, <2>2, <2>3
<1>4. PICK known, sum : known = spent.told /\ sum = spent.tokens
  OBVIOUS
<1>5. known \in BOOLEAN /\ sum \in Nat /\ spent \in Usages
  BY <1>4 DEF Typed, Usages
<1>6. CASE loop # "visual"
  BY <1>5, <1>6 DEF Answer
<1>7. CASE loop = "visual"
  <2>1. sum = total /\ (known <=> sum > 0)
    BY <1>1, <1>4, <1>7 DEF SpentWhole, SpentIs
  <2>2. CASE cost > 0
    <3>1. spent' = [told |-> TRUE, tokens |-> sum + cost]
      BY <1>1, <1>4, <1>7, <2>2 DEF Answer, Aggregated
    <3>2. spent'.told = TRUE /\ spent'.tokens = sum + cost /\ sum + cost \in Nat /\ sum + cost > 0
      BY <3>1, <1>2, <1>5, <2>2
    <3>3. spent' \in Usages
      BY <3>1, <3>2 DEF Usages
    <3>4. SpentIs(spent', asked')
      BY <3>2, <1>3, <2>1 DEF SpentIs
    <3>5. Applied(answer) = sum + cost
      BY <3>2 DEF Applied
    <3> QED BY <1>1, <2>1, <3>3, <3>4, <3>5
  <2>3. CASE ~(cost > 0)
    <3>1. spent' = spent
      BY <1>1, <1>7, <2>3 DEF Answer, Aggregated
    <3>2. cost = 0 /\ total + cost = total
      BY <1>2, <2>3
    <3>3. SpentIs(spent', asked')
      BY <3>1, <3>2, <1>3, <1>4, <2>1 DEF SpentIs
    <3>4. Applied(answer) = total + cost
      <4>1. CASE known
        BY <4>1, <3>1, <3>2, <1>4, <2>1 DEF Applied
      <4>2. CASE ~known
        <5>1. total = 0
          BY <4>2, <2>1, <1>2
        <5>2. Applied(answer) = cost
          BY <4>2, <3>1, <1>1, <1>4 DEF Applied
        <5> QED BY <5>1, <5>2, <3>2
      <4> QED BY <4>1, <4>2
    <3> QED BY <1>1, <1>5, <3>1, <3>3, <3>4
  <2> QED BY <2>2, <2>3, <1>2
<1> QED BY <1>6, <1>7

LEMMA AnswerCases ==
    ASSUME Typed, SpentWhole, NEW answer, NEW told, IsAnswer(answer, told), Answer(answer, told)
    PROVE  HandedOn(answer, told) \/ Mixed(answer, told) \/ AskedAgain(answer, told)
<1>1. PICK calls, round : calls = answer.calls /\ round = RoundOf(answer, told)
  OBVIOUS
<1>2. round.calls = told /\ round.stop = answer.stop /\ round.tokens = answer.tokens
  BY <1>1 DEF RoundOf
<1>3. /\ calls \in Seq(TakenCalls) /\ told \in Seq(ToldCalls) /\ Alike(loop, calls, told)
      /\ answer.tokens \in Nat /\ (loop # "chat stream" => calls = told)
  BY <1>1 DEF IsAnswer
<1>4. Alike(loop, OursBy(loop, calls), OursBy(loop, told))
  BY <1>3, OursAlike
<1>5. OursBy(loop, calls) \in Seq(TakenCalls) /\ OursBy(loop, told) \in Seq(ToldCalls)
  BY <1>3, OursTyped
<1>6. /\ OursBy(loop, calls) = <<>> <=> OursBy(loop, told) = <<>>
      /\ OthersBy(loop, calls) = <<>> <=> OthersBy(loop, told) = <<>>
  BY <1>3, <1>4, <1>5, AlikeEmpty, OthersEmpty
<1>7. Ours(calls) = OursBy(loop, calls) /\ Others(calls) = OthersBy(loop, calls)
  BY Chosen
<1>8. DueBy(loop, round) = IF loop \in {"messages", "visual"} /\ answer.stop # "tool_use" THEN <<>>
                            ELSE OursBy(loop, told)
  BY <1>2 DEF DueBy
<1>9. calls = <<>> => OursBy(loop, calls) = <<>> /\ OthersBy(loop, calls) = <<>>
  <2>1. ASSUME calls = <<>>
        PROVE  \A i \in 1..Len(calls) : calls[i].tool \notin ServedBy(loop) /\ calls[i].tool \in ServedBy(loop)
    BY <2>1
  <2> QED BY <2>1, <1>3, OursTyped
<1>10. IdOf(calls) = IdOf(told)
  <2>1. PICK S, T, l : S = TakenCalls /\ T = ToldCalls /\ l = loop
    OBVIOUS
  <2>2. calls \in Seq(S) /\ told \in Seq(T) /\ Alike(l, calls, told)
    BY <1>3, <2>1
  <2> QED BY <2>2, AlikeIds
<1>11. ASSUME loop # "visual", Hand(answer, calls), DueBy(loop, round) = <<>>,
              GivenOf(calls, loop, round)
       PROVE  HandedOn(answer, told)
  BY <1>1, <1>3, <1>11 DEF HandedOn, Hand, Report
<1>12. CASE Direct(answer)
  <2>1. loop = "direct" /\ Hand(answer, calls)
    BY <1>1, <1>12 DEF Direct
  <2>2. OursBy(loop, calls) = <<>>
    <3>1. ServedBy(loop) = {}
      BY <2>1 DEF ServedBy
    <3>2. \A i \in 1..Len(calls) : calls[i].tool \notin ServedBy(loop)
      BY <3>1
    <3> QED BY <3>2, <1>3, OursTyped
  <2>3. DueBy(loop, round) = <<>>
    BY <2>2, <1>6, <1>8
  <2>4. GivenOf(calls, loop, round)
    BY <2>1, <1>2, <1>10 DEF GivenOf
  <2> QED BY <2>1, <2>3, <2>4, <1>11
<1>13. CASE SearchMessages(answer)
  <2>1. loop = "messages" /\ calls = told
    BY <1>3, <1>13 DEF SearchMessages
  <2>2. CASE (answer.stop # "tool_use" \/ calls = <<>>) /\ Hand(answer, calls)
    <3>1. DueBy(loop, round) = <<>>
      BY <2>1, <2>2, <1>6, <1>8, <1>9
    <3>2. GivenOf(calls, loop, round)
      <4>1. calls = <<>> => OthersBy(loop, told) = calls
        BY <2>1, <1>9
      <4> QED BY <2>1, <2>2, <4>1, <1>2 DEF GivenOf
    <3> QED BY <2>1, <2>2, <3>1, <3>2, <1>11
  <2>3. CASE /\ answer.stop = "tool_use" /\ Others(calls) # <<>>
             /\ Run(calls) /\ Report("answer", Others(calls), answer.tokens) /\ turns' = turns
    <3>1. DueBy(loop, round) = OursBy(loop, told)
      BY <2>3, <1>8
    <3>2. PICK kept : kept = OthersBy(loop, calls)
      OBVIOUS
    <3>3. phase' = "done" /\ outcome' = [kind |-> "answer", calls |-> kept, usage |-> answer.tokens]
      BY <2>3, <3>2, <1>7 DEF Report
    <3>4. kept \in Seq(TakenCalls) /\ GivenOf(kept, loop, round)
      <4>1. kept \in Seq(TakenCalls)
        BY <3>2, <1>3, OursTyped
      <4>2. kept = OthersBy(loop, told)
        BY <2>1, <3>2
      <4>3. GivenOf(kept, loop, round)
        BY <2>1, <2>3, <4>2, <1>2 DEF GivenOf
      <4> QED BY <4>1, <4>3
    <3> QED BY <1>1, <2>1, <2>3, <3>1, <3>3, <3>4 DEF Mixed
  <2>4. CASE answer.stop = "tool_use" /\ AllOurs(calls) /\ AskAgain(calls)
    <3>1. /\ DueBy(loop, round) = OursBy(loop, told) /\ OursBy(loop, calls) # <<>>
          /\ OthersBy(loop, told) = <<>>
      BY <2>4, <1>6, <1>7, <1>8 DEF AllOurs
    <3> QED BY <1>1, <2>4, <3>1 DEF AskedAgain
  <2> QED BY <1>1, <1>13, <2>2, <2>3, <2>4 DEF SearchMessages
<1>14. CASE SearchCalls(answer)
  <2>1. loop \in {"chat", "chat stream", "google"}
    BY <1>14 DEF SearchCalls
  <2>2. DueBy(loop, round) = OursBy(loop, told)
    BY <2>1, <1>8
  <2>0. OursBy(loop, told) = <<>> \/ OthersBy(loop, told) # <<>> => GivenOf(calls, loop, round)
    BY <2>1, <1>2, <1>10 DEF GivenOf
  <2>3. CASE Ours(calls) = <<>> /\ Hand(answer, calls)
    BY <2>0, <2>1, <2>2, <2>3, <1>6, <1>7, <1>11
  <2>4. CASE /\ Ours(calls) # <<>> /\ Others(calls) # <<>> /\ Run(calls)
             /\ turns' = Append(turns, Round(calls)) /\ Report("answer", calls, answer.tokens)
    <3>1. phase' = "done" /\ outcome' = [kind |-> "answer", calls |-> calls, usage |-> answer.tokens]
      BY <2>4 DEF Report
    <3>2. GivenOf(calls, loop, round)
      BY <2>0, <2>4, <1>6, <1>7
    <3> QED BY <1>1, <1>3, <2>1, <2>2, <2>4, <3>1, <3>2 DEF Mixed
  <2>5. CASE AllOurs(calls) /\ AskAgain(calls)
    BY <1>1, <1>6, <1>7, <2>2, <2>5 DEF AskedAgain, AllOurs
  <2> QED BY <1>1, <1>14, <2>3, <2>4, <2>5 DEF SearchCalls
<1>15. CASE VisualRound(answer)
  <2>1. loop = "visual"
    BY <1>15 DEF VisualRound
  <2>2. CASE (answer.stop # "tool_use" \/ Ours(calls) = <<>>) /\ Return(answer)
    <3>1. DueBy(loop, round) = <<>>
      BY <2>1, <2>2, <1>6, <1>7, <1>8
    <3>2. PICK usage : usage = Tokens(asked) + answer.tokens
      OBVIOUS
    <3>3. usage \in Nat
      <4>1. Tokens(asked) \in Nat /\ answer.tokens \in Nat
        BY <1>3, AskedSum DEF Typed
      <4>2. PICK a, b : a = Tokens(asked) /\ b = answer.tokens
        OBVIOUS
      <4> QED BY <4>1, <4>2, <3>2
    <3>4. phase' = "done" /\ outcome' = [kind |-> "answer", calls |-> calls, usage |-> usage]
      <4>1. Applied(answer) = usage
        BY <2>1, <3>2, SpentGrows
      <4> QED BY <1>1, <2>2, <4>1 DEF Report, Return
    <3>5. GivenOf(calls, loop, round)
      BY <2>1, <2>2, <1>2, <1>6, <1>7, <1>10 DEF GivenOf
    <3> QED BY <1>1, <2>2, <3>1, <3>2, <3>3, <3>4, <3>5 DEF HandedOn, Return
  <2>3. CASE answer.stop = "tool_use" /\ Ours(calls) # <<>> /\ AskAgain(calls)
    <3>1. DueBy(loop, round) = OursBy(loop, told)
      BY <2>3, <1>8
    <3> QED BY <1>1, <1>7, <2>1, <2>3, <3>1 DEF AskedAgain
  <2>4. calls = <<>> => Ours(calls) = <<>>
    BY <1>7, <1>9
  <2> QED BY <1>1, <1>15, <2>2, <2>3, <2>4 DEF VisualRound
<1> QED BY <1>12, <1>13, <1>14, <1>15 DEF Answer

\* What is run in a round is what the round was due.
LEMMA RunGrows ==
    ASSUME ran \in Seq(Executions), NEW due \in Seq(ToldCalls), Alike(loop, ran, due),
           NEW calls \in Seq(TakenCalls), NEW told \in Seq(ToldCalls), Alike(loop, calls, told),
           Run(calls)
    PROVE  ran' \in Seq(Executions) /\ Alike(loop, ran', due \o OursBy(loop, told))
<1>1. PICK ours, theirs : ours = OursBy(loop, calls) /\ theirs = OursBy(loop, told)
  OBVIOUS
<1>2. ours \in Seq(TakenCalls) /\ theirs \in Seq(ToldCalls) /\ Alike(loop, ours, theirs)
  BY <1>1, OursTyped, OursAlike
<1>3. PICK more : more = [i \in DOMAIN ours |-> Execution(ours[i])]
  OBVIOUS
<1>4. Len(ours) \in Nat /\ DOMAIN ours = 1..Len(ours) /\ \A i \in 1..Len(ours) : ours[i] \in TakenCalls
  BY <1>2, LenProperties, ElementOfSeq
<1>5. \A i \in 1..Len(ours) : more[i] = Execution(ours[i]) /\ more[i] \in Executions
  BY <1>3, <1>4 DEF Executions
<1>6. more \in Seq(Executions) /\ Len(more) = Len(ours)
  <2>1. more \in [1..Len(ours) -> Executions]
    BY <1>3, <1>4, <1>5
  <2> QED BY <1>4, <2>1, ListTyped
<1>7. Alike(loop, more, theirs)
  <2>1. ASSUME NEW i \in 1..Len(more) PROVE SameCall(loop, more[i], theirs[i])
    <3>1. PICK call, other, run : call = ours[i] /\ other = theirs[i] /\ run = Execution(call)
      OBVIOUS
    <3>2. run.id = call.id /\ run.tool = call.tool /\ run.text = call.text
      BY <3>1 DEF Execution
    <3>3. SameCall(loop, call, other)
      BY <1>2, <1>6, <3>1 DEF Alike
    <3>4. SameCall(loop, run, other)
      BY <3>2, <3>3, Zenon DEF SameCall
    <3> QED BY <3>1, <3>4, <1>5, <1>6
  <2>2. Len(more) = Len(theirs)
    BY <1>2, <1>6 DEF Alike
  <2> QED BY <2>1, <2>2 DEF Alike
<1>8. ran' = ran \o more
  <2>1. Ours(calls) = ours
    BY <1>1, Chosen
  <2> QED BY <1>3, <2>1, Zenon DEF Run
<1>9. Alike(loop, ran \o more, due \o theirs)
  BY <1>2, <1>6, <1>7, AlikeConcat
<1>10. ran \o more \in Seq(Executions)
  BY <1>6, ConcatProperties
<1> QED BY <1>1, <1>8, <1>9, <1>10

\* The turn that is added answers the calls that were run, in their order.
LEMMA TurnAdded ==
    ASSUME NEW answer, NEW told, IsAnswer(answer, told)
    PROVE  /\ Round(answer.calls) \in Turns
           /\ TurnOf(Round(answer.calls), loop, RoundOf(answer, told))
<1>1. PICK calls : calls = answer.calls
  OBVIOUS
<1>2. calls \in Seq(TakenCalls) /\ told \in Seq(ToldCalls) /\ Alike(loop, calls, told)
  BY <1>1 DEF IsAnswer
<1>3. PICK ours, theirs : ours = OursBy(loop, calls) /\ theirs = OursBy(loop, told)
  OBVIOUS
<1>4. ours \in Seq(TakenCalls) /\ theirs \in Seq(ToldCalls) /\ Alike(loop, ours, theirs)
  BY <1>2, <1>3, OursTyped, OursAlike
<1>5. PICK turn : turn = [calls |-> calls, results |-> [i \in DOMAIN ours |-> ours[i].id]]
  OBVIOUS
<1>6. Round(calls) = turn
  <2>1. Ours(calls) = ours
    BY <1>3, Chosen
  <2> QED BY <2>1, <1>5, Zenon DEF Round
<1>8. IdOf(calls) = IdOf(told) /\ IdOf(ours) = IdOf(theirs)
  BY <1>2, <1>4, AlikeIds
<1>9. turn.calls = calls /\ turn.results = IdOf(ours)
  BY <1>5 DEF IdOf
<1>10. IdOf(ours) \in Seq(Ids)
  <2>1. Len(ours) \in Nat /\ DOMAIN ours = 1..Len(ours) /\ \A i \in 1..Len(ours) : ours[i] \in TakenCalls
    BY <1>4, LenProperties, ElementOfSeq
  <2>2. \A call \in TakenCalls : call.id \in Ids
    BY DEF TakenCalls, WholeCalls, Collecting, Ids
  <2>3. PICK ids : ids = IdOf(ours)
    OBVIOUS
  <2>4. ids \in [1..Len(ours) -> Ids]
    BY <2>1, <2>2, <2>3 DEF IdOf
  <2> QED BY <2>1, <2>3, <2>4, ListTyped
<1>11. turn \in Turns
  <2>1. PICK ids : ids = IdOf(ours)
    OBVIOUS
  <2>2. turn = [calls |-> calls, results |-> ids]
    BY <1>5, <2>1 DEF IdOf
  <2> QED BY <1>2, <1>10, <2>1, <2>2 DEF Turns
<1>12. RoundOf(answer, told).calls = told
  BY DEF RoundOf
<1>13. TurnOf(turn, loop, RoundOf(answer, told))
  BY <1>3, <1>8, <1>9, <1>12 DEF TurnOf
<1> QED BY <1>1, <1>6, <1>11, <1>13

---------------------------------------------------------------------------
(* Every step keeps the invariant *)

LEMMA ExecutionsSame ==
    ASSUME images' = images
    PROVE  Executions' = Executions
BY DEF Executions, Execution, Looked

\* While the upstream is asked, no round of a search loop had a call of the client's.
LEMMA WholeSoFar ==
    ASSUME IInv, phase = "ask"
    PROVE  loop # "visual" => \A r \in 1..Len(asked) : OthersBy(loop, asked[r].calls) = <<>>
<1>1. outcome.kind # "answer"
  BY DEF IInv, Paced
<1> QED BY <1>1, Zenon DEF IInv, RoundsWhole

LEMMA HandedOnKeeps ==
    ASSUME IInv, phase = "ask", NEW answer, NEW told, IsAnswer(answer, told),
           asked' = Append(asked, RoundOf(answer, told)),
           setting' = setting, loop' = loop, images' = images, HandedOn(answer, told),
           spent' \in Usages, loop = "visual" => SpentIs(spent', asked')
    PROVE  IInv'
<1>1. PICK round, usage : /\ round = RoundOf(answer, told) /\ usage \in Nat
                          /\ outcome' = [kind |-> "answer", calls |-> answer.calls, usage |-> usage]
                          /\ loop = "visual" => usage = Tokens(asked) + answer.tokens
  BY DEF HandedOn
<1>2. /\ asked' \in Seq(Rounds) /\ Len(asked') = Len(asked) + 1 /\ Len(asked) \in Nat
      /\ asked'[Len(asked')] = round
      /\ \A r \in 1..Len(asked) : asked'[r] = asked[r]
      /\ Dues(loop, asked) \in Seq(ToldCalls)
      /\ Dues(loop, asked') = Dues(loop, asked) \o DueBy(loop, round)
      /\ Tokens(asked') = Tokens(asked) + answer.tokens
  BY <1>1, AskedGrows DEF IInv, Typed
<1>3. /\ turns' = turns /\ ran' = ran /\ phase' = "done" /\ DueBy(loop, round) = <<>>
      /\ GivenOf(answer.calls, loop, round)
  BY <1>1 DEF HandedOn
<1>4. outcome'.kind = "answer" /\ outcome'.calls = answer.calls /\ outcome'.usage = usage
  BY <1>1
<1>5. Typed'
  <2>1. outcome' \in Outcomes
    BY <1>1 DEF IsAnswer, Outcomes
  <2> QED BY <1>2, <1>3, <2>1, ExecutionsSame DEF IInv, Typed
<1>6. Paced'
  <2>1. Len(turns) <= Len(asked) /\ Len(asked) < setting.rounds /\ Len(turns) \in Nat /\ setting.rounds \in Nat
    BY SettingsAssumption, LenProperties DEF IInv, Typed, Paced
  <2> QED BY <1>2, <1>3, <1>4, <2>1 DEF Paced
<1>7. Dues(loop', asked') = Dues(loop, asked)
  BY <1>2, <1>3, ConcatEmptySeq
<1>8. Alike(loop', ran', Dues(loop', asked'))
  BY <1>3, <1>7 DEF IInv
<1>9. Followed'
  <2>1. Len(turns) <= Len(asked) /\ Len(turns) \in Nat /\ \A r \in 1..Len(turns) : TurnOf(turns[r], loop, asked[r])
    BY LenProperties DEF IInv, Typed, Paced, Followed
  <2>2. \A r \in 1..Len(turns) : asked'[r] = asked[r]
    BY <1>2, <2>1
  <2> QED BY <1>3, <2>1, <2>2 DEF Followed
<1>10. Handed'
  BY <1>2, <1>3, <1>4, Zenon DEF Handed
<1>11. Paid'
  BY <1>1, <1>2, <1>4 DEF Paid
<1>12. RoundsWhole'
  BY <1>2, <1>4, WholeSoFar DEF RoundsWhole
<1>13. SpentWhole'
  BY <1>3 DEF SpentWhole
<1> QED BY <1>5, <1>6, <1>8, <1>9, <1>10, <1>11, <1>12, <1>13 DEF IInv

LEMMA MixedKeeps ==
    ASSUME IInv, phase = "ask", NEW answer, NEW told, IsAnswer(answer, told),
           asked' = Append(asked, RoundOf(answer, told)),
           setting' = setting, loop' = loop, images' = images, Mixed(answer, told),
           spent' \in Usages, loop = "visual" => SpentIs(spent', asked')
    PROVE  IInv'
<1>1. PICK round, calls :
          /\ round = RoundOf(answer, told)
          /\ outcome' = [kind |-> "answer", calls |-> calls, usage |-> answer.tokens]
          /\ calls \in Seq(TakenCalls) /\ GivenOf(calls, loop, round)
  BY DEF Mixed
<1>2. /\ asked' \in Seq(Rounds) /\ Len(asked') = Len(asked) + 1 /\ Len(asked) \in Nat
      /\ asked'[Len(asked')] = round
      /\ \A r \in 1..Len(asked) : asked'[r] = asked[r]
      /\ Dues(loop, asked) \in Seq(ToldCalls)
      /\ Dues(loop, asked') = Dues(loop, asked) \o DueBy(loop, round)
  BY <1>1, AskedGrows, ZenonT(60) DEF IInv, Typed
<1>3. /\ turns' = turns \/ turns' = Append(turns, Round(answer.calls))
      /\ Run(answer.calls) /\ phase' = "done" /\ DueBy(loop, round) = OursBy(loop, told)
      /\ loop # "visual"
  BY <1>1 DEF Mixed
<1>4. outcome'.kind = "answer" /\ outcome'.calls = calls /\ outcome'.usage = answer.tokens
  BY <1>1
<1>5. PICK all : all = answer.calls
  OBVIOUS
<1>6. all \in Seq(TakenCalls) /\ told \in Seq(ToldCalls) /\ Alike(loop, all, told)
  BY <1>5 DEF IsAnswer
<1>7. ran' \in Seq(Executions) /\ Alike(loop, ran', Dues(loop, asked) \o OursBy(loop, told))
  <2>1. ran \in Seq(Executions) /\ Alike(loop, ran, Dues(loop, asked)) /\ Run(all)
    BY <1>3, <1>5 DEF IInv, Typed
  <2> QED BY <1>2, <1>6, <2>1, RunGrows
<1>9. /\ turns' \in Seq(Turns) /\ Len(turns') <= Len(asked')
      /\ \A r \in 1..Len(turns') : TurnOf(turns'[r], loop, asked'[r])
  <2>1. /\ turns \in Seq(Turns) /\ Len(turns) \in Nat /\ Len(turns) = Len(asked)
        /\ \A r \in 1..Len(turns) : TurnOf(turns[r], loop, asked[r])
    BY LenProperties DEF IInv, Typed, Paced, Followed
  <2>2. CASE turns' = turns
    BY <1>2, <2>1, <2>2
  <2>3. CASE turns' = Append(turns, Round(answer.calls))
    <3>1. PICK turn : turn = Round(answer.calls)
      OBVIOUS
    <3>2. turn \in Turns /\ TurnOf(turn, loop, round)
      BY <1>1, <3>1, TurnAdded
    <3>3. /\ turns' \in Seq(Turns) /\ Len(turns') = Len(turns) + 1 /\ turns'[Len(turns) + 1] = turn
          /\ \A r \in 1..Len(turns) : turns'[r] = turns[r]
      BY <2>1, <2>3, <3>1, <3>2, AppendProperties
    <3>4. ASSUME NEW r \in 1..Len(turns') PROVE TurnOf(turns'[r], loop, asked'[r])
      <4>1. CASE r = Len(turns) + 1
        BY <4>1, <3>2, <3>3, <2>1, <1>2
      <4>2. CASE r # Len(turns) + 1
        <5>1. r \in 1..Len(turns)
          BY <4>2, <3>3, <2>1
        <5> QED BY <5>1, <3>3, <2>1, <1>2
      <4> QED BY <4>1, <4>2
    <3> QED BY <3>3, <3>4, <2>1, <1>2
  <2> QED BY <1>3, <2>2, <2>3
<1>10. Typed'
  <2>1. outcome' \in Outcomes
    BY <1>1 DEF IsAnswer, Outcomes
  <2> QED BY <1>2, <1>3, <1>7, <1>9, <2>1, ExecutionsSame DEF IInv, Typed
<1>11. Paced'
  <2>1. Len(asked) < setting.rounds /\ setting.rounds \in Nat
    BY SettingsAssumption DEF IInv, Typed, Paced
  <2> QED BY <1>2, <1>3, <1>4, <1>9, <2>1 DEF Paced
<1>12. Alike(loop', ran', Dues(loop', asked'))
  BY <1>2, <1>3, <1>7
<1>13. Followed'
  BY <1>9 DEF Followed
<1>14. Handed'
  BY <1>1, <1>2, <1>3, <1>4, Zenon DEF Handed
<1>15. Paid'
  BY <1>3 DEF Paid
<1>16. RoundsWhole'
  BY <1>2, <1>4, WholeSoFar DEF RoundsWhole
<1>17. SpentWhole'
  BY <1>3 DEF SpentWhole
<1> QED BY <1>10, <1>11, <1>12, <1>13, <1>14, <1>15, <1>16, <1>17 DEF IInv

LEMMA AskedAgainKeeps ==
    ASSUME IInv, phase = "ask", NEW answer, NEW told, IsAnswer(answer, told),
           asked' = Append(asked, RoundOf(answer, told)),
           setting' = setting, loop' = loop, images' = images, AskedAgain(answer, told),
           spent' \in Usages, loop = "visual" => SpentIs(spent', asked')
    PROVE  IInv'
<1>1. PICK round, all : round = RoundOf(answer, told) /\ all = answer.calls
  OBVIOUS
<1>2. /\ asked' \in Seq(Rounds) /\ Len(asked') = Len(asked) + 1 /\ Len(asked) \in Nat
      /\ asked'[Len(asked')] = round
      /\ \A r \in 1..Len(asked) : asked'[r] = asked[r]
      /\ Dues(loop, asked) \in Seq(ToldCalls)
      /\ Dues(loop, asked') = Dues(loop, asked) \o DueBy(loop, round)
  BY <1>1, AskedGrows, ZenonT(60) DEF IInv, Typed
<1>3. /\ turns' = Append(turns, Round(answer.calls)) /\ Run(all)
      /\ DueBy(loop, round) = OursBy(loop, told) /\ OursBy(loop, all) # <<>>
      /\ IF Len(turns') < setting.rounds THEN phase' = phase /\ outcome' = outcome
         ELSE phase' = "done" /\ outcome' = [kind |-> "exceeded", calls |-> <<>>, usage |-> 0]
  BY <1>1 DEF AskedAgain, AskAgain, Report
<1>4. all \in Seq(TakenCalls) /\ told \in Seq(ToldCalls) /\ Alike(loop, all, told)
  BY <1>1 DEF IsAnswer
<1>5. ran' \in Seq(Executions) /\ Alike(loop, ran', Dues(loop, asked) \o OursBy(loop, told))
  <2>1. ran \in Seq(Executions) /\ Alike(loop, ran, Dues(loop, asked)) /\ Run(all)
    BY <1>3 DEF IInv, Typed
  <2> QED BY <1>2, <1>4, <2>1, RunGrows
<1>6. DueBy(loop, round) # <<>>
  <2>1. OursBy(loop, all) \in Seq(TakenCalls) /\ OursBy(loop, told) \in Seq(ToldCalls)
    BY <1>4, OursTyped
  <2>2. Alike(loop, OursBy(loop, all), OursBy(loop, told))
    BY <1>4, OursAlike
  <2>3. OursBy(loop, told) # <<>>
    BY <1>3, <2>1, <2>2, AlikeEmpty
  <2> QED BY <1>3, <2>3
<1>7. /\ turns \in Seq(Turns) /\ Len(turns) \in Nat /\ Len(turns) = Len(asked)
      /\ \A r \in 1..Len(turns) : TurnOf(turns[r], loop, asked[r])
      /\ Len(asked) < setting.rounds /\ setting.rounds \in Nat /\ AllDue
      /\ outcome.kind = "none"
  BY LenProperties, SettingsAssumption DEF IInv, Typed, Paced, Followed, Outcomes
<1>8. PICK turn : turn = Round(answer.calls)
  OBVIOUS
<1>9. turn \in Turns /\ TurnOf(turn, loop, round)
  BY <1>1, <1>8, TurnAdded
<1>10. /\ turns' \in Seq(Turns) /\ Len(turns') = Len(asked') /\ turns'[Len(turns) + 1] = turn
       /\ \A r \in 1..Len(turns) : turns'[r] = turns[r]
  BY <1>2, <1>3, <1>7, <1>8, <1>9, AppendProperties
<1>11. \A r \in 1..Len(asked') : r = Len(asked) + 1 \/ r \in 1..Len(asked)
  BY <1>2
<1>12. \A r \in 1..Len(turns') : TurnOf(turns'[r], loop, asked'[r])
  <2>1. ASSUME NEW r \in 1..Len(turns') PROVE TurnOf(turns'[r], loop, asked'[r])
    <3>1. CASE r = Len(asked) + 1
      BY <3>1, <1>2, <1>7, <1>9, <1>10
    <3>2. CASE r \in 1..Len(asked)
      BY <3>2, <1>2, <1>7, <1>10
    <3> QED BY <3>1, <3>2, <1>10, <1>11
  <2> QED BY <2>1
<1>13. \A r \in 1..Len(asked') : DueBy(loop, asked'[r]) # <<>>
  <2>1. ASSUME NEW r \in 1..Len(asked') PROVE DueBy(loop, asked'[r]) # <<>>
    <3>1. CASE r = Len(asked) + 1
      BY <3>1, <1>2, <1>6
    <3>2. CASE r \in 1..Len(asked)
      BY <3>2, <1>2, <1>7 DEF AllDue
    <3> QED BY <3>1, <3>2, <1>11
  <2> QED BY <2>1
<1>14. AllDue'
  BY <1>13 DEF AllDue
<1>15. \/ Len(asked') < setting.rounds /\ phase' = "ask" /\ outcome' = outcome
       \/ /\ Len(asked') = setting.rounds /\ phase' = "done"
          /\ outcome' = [kind |-> "exceeded", calls |-> <<>>, usage |-> 0]
  BY <1>2, <1>3, <1>7, <1>10
<1>16. Typed'
  <2>1. outcome' \in Outcomes
    <3>1. outcome \in Outcomes
      BY DEF IInv, Typed
    <3>2. [kind |-> "exceeded", calls |-> <<>>, usage |-> 0] \in Outcomes
      BY DEF Outcomes
    <3> QED BY <1>15, <3>1, <3>2, Zenon
  <2> QED BY <1>2, <1>5, <1>10, <1>15, <2>1, ExecutionsSame DEF IInv, Typed
<1>17. \/ outcome'.kind = "none" /\ phase' = "ask"
       \/ outcome'.kind = "exceeded" /\ phase' = "done"
  BY <1>7, <1>15
<1>18. Paced'
  <2>1. outcome'.kind = "exceeded" => Len(asked') = setting.rounds
    BY <1>7, <1>15
  <2>2. phase' = "ask" => Len(asked') < setting.rounds
    BY <1>15
  <2>3. Len(asked') <= setting.rounds /\ Len(turns') <= Len(asked')
    BY <1>2, <1>7, <1>10
  <2> QED BY <1>10, <1>14, <1>17, <2>1, <2>2, <2>3 DEF Paced
<1>19. Alike(loop', ran', Dues(loop', asked'))
  BY <1>2, <1>3, <1>5
<1>20. Followed'
  BY <1>12 DEF Followed
<1>21. Handed'
  BY <1>17 DEF Handed
<1>22. Paid'
  BY <1>17 DEF Paid
<1>23. RoundsWhole'
  <2>1. ASSUME loop # "visual", NEW r \in 1..Len(asked') PROVE OthersBy(loop, asked'[r].calls) = <<>>
    <3>1. CASE r = Len(asked) + 1
      <4>1. round.calls = told
        BY <1>1 DEF RoundOf
      <4>2. OthersBy(loop, told) = <<>>
        BY <2>1 DEF AskedAgain
      <4> QED BY <3>1, <4>1, <4>2, <1>2
    <3>2. CASE r \in 1..Len(asked)
      <4>1. OthersBy(loop, asked[r].calls) = <<>>
        BY <2>1, <3>2, WholeSoFar
      <4> QED BY <3>2, <4>1, <1>2
    <3> QED BY <2>1, <3>1, <3>2, <1>11
  <2> QED BY <2>1 DEF RoundsWhole
<1>24. SpentWhole'
  BY <1>17 DEF SpentWhole
<1> QED BY <1>16, <1>18, <1>19, <1>20, <1>21, <1>22, <1>23, <1>24 DEF IInv

LEMMA AnswerKeeps ==
    ASSUME IInv, phase = "ask", NEW answer, NEW told, IsAnswer(answer, told), Answer(answer, told)
    PROVE  IInv'
<1>1. /\ asked' = Append(asked, RoundOf(answer, told))
      /\ setting' = setting /\ loop' = loop /\ images' = images
  BY DEF Answer, RoundOf
<1>2. HandedOn(answer, told) \/ Mixed(answer, told) \/ AskedAgain(answer, told)
  BY AnswerCases DEF IInv
<1>3. spent' \in Usages /\ (loop = "visual" => SpentIs(spent', asked'))
  BY SpentGrows DEF IInv
<1> QED BY <1>1, <1>2, <1>3, HandedOnKeeps, MixedKeeps, AskedAgainKeeps

---------------------------------------------------------------------------
(* What the upstream writes *)

LEMMA OfferedTools == ASSUME NEW s PROVE Offered(s) \subseteq Tools
BY DEF Offered, Tools, SearchTools, VisualTools

LEMMA WrittenTyped ==
    ASSUME asked \in Seq(Rounds), NEW arguments, NEW calls \in Written(arguments)
    PROVE  \E n \in 0..MaxCalls :
              /\ calls = [i \in 1..n |-> calls[i]]
              /\ \A i \in 1..n : \E argument \in arguments :
                    /\ calls[i] = [id |-> calls[i].id, tool |-> calls[i].tool,
                                   text |-> argument.text, cut |-> argument.cut,
                                   ref |-> calls[i].ref]
                    /\ calls[i].id \in Nat \X Nat /\ calls[i].tool \in Tools /\ calls[i].ref \in Nat
<1> DEFINE Picks == {p \in Offered(setting) \X arguments \X (0 .. Len(images) + 1) : p[3] \in Refs(p[1])}
<1>0. PICK n \in 0..MaxCalls :
          calls \in {[i \in 1..n |-> Call(i, pick[i][1], pick[i][2], pick[i][3])] : pick \in [1..n -> Picks]}
  BY Zenon DEF Written
<1>1. PICK pick \in [1..n -> Picks] :
          calls = [i \in 1..n |-> Call(i, pick[i][1], pick[i][2], pick[i][3])]
  BY <1>0
<1>2. ASSUME NEW i \in 1..n
      PROVE  \E argument \in arguments :
                /\ calls[i] = [id |-> calls[i].id, tool |-> calls[i].tool,
                               text |-> argument.text, cut |-> argument.cut, ref |-> calls[i].ref]
                /\ calls[i].id \in Nat \X Nat /\ calls[i].tool \in Tools /\ calls[i].ref \in Nat
  <2>1. PICK tool, argument, ref : tool = pick[i][1] /\ argument = pick[i][2] /\ ref = pick[i][3]
    OBVIOUS
  <2>2. pick[i] \in Picks
    BY <1>1
  <2>3. tool \in Offered(setting) /\ argument \in arguments /\ ref \in 0..(Len(images) + 1)
    BY <2>1, <2>2
  <2>4. ref \in Nat
    <3>1. PICK x : x = Len(images) + 1
      OBVIOUS
    <3> QED BY <2>3, <3>1
  <2>5. PICK id : id = <<Len(asked) + 1, i>>
    OBVIOUS
  <2>6. id \in Nat \X Nat
    BY <2>5, LenProperties
  <2>7. calls[i] = [id |-> id, tool |-> tool, text |-> argument.text, cut |-> argument.cut, ref |-> ref]
    <3>1. calls[i] = Call(i, pick[i][1], pick[i][2], pick[i][3])
      BY <1>1
    <3> QED BY <3>1, <2>1, <2>5, Zenon DEF Call
  <2>8. calls[i].id = id /\ calls[i].tool = tool /\ calls[i].ref = ref
    BY <2>7
  <2>9. tool \in Tools
    BY <2>3, OfferedTools
  <2>10. calls[i] = [id |-> calls[i].id, tool |-> calls[i].tool, text |-> argument.text,
                     cut |-> argument.cut, ref |-> calls[i].ref]
    BY <2>7, <2>8
  <2> QED BY <2>3, <2>4, <2>6, <2>8, <2>9, <2>10
<1>3. calls = [i \in 1..n |-> calls[i]]
  BY <1>1
<1> QED BY <1>2, <1>3

LEMMA StopsTyped ==
    /\ \A calls : Stops(calls) \subseteq {"end_turn", "tool_use", "max_tokens"}
    /\ Costs \subseteq Nat
BY DEF Stops, Costs

LEMMA AnswerWholeKeeps ==
    ASSUME IInv, AnswerWhole
    PROVE  IInv'
<1>0. PICK calls \in Written({[text |-> <<>>, cut |-> <<>>]}) : Answers(calls, calls)
  BY Zenon DEF AnswerWhole
<1>1. PICK stop \in Stops(calls), tokens \in Costs :
          /\ phase = "ask" /\ loop # "chat stream"
          /\ Answer([calls |-> calls, stop |-> stop, tokens |-> tokens], calls)
  BY <1>0, Zenon DEF AnswerWhole, Answers
<1>2. PICK n \in 0..MaxCalls :
          /\ calls = [i \in 1..n |-> calls[i]]
          /\ \A i \in 1..n : \E argument \in {[text |-> <<>>, cut |-> <<>>]} :
                /\ calls[i] = [id |-> calls[i].id, tool |-> calls[i].tool,
                               text |-> argument.text, cut |-> argument.cut, ref |-> calls[i].ref]
                /\ calls[i].id \in Nat \X Nat /\ calls[i].tool \in Tools /\ calls[i].ref \in Nat
  BY WrittenTyped, ZenonT(60) DEF IInv, Typed
<1>3. n \in Nat
  BY MaxCallsAssumption
<1>4. ASSUME NEW i \in 1..n PROVE calls[i] \in WholeCalls
  <2>1. PICK a, b, c : a = calls[i].id /\ b = calls[i].tool /\ c = calls[i].ref
    OBVIOUS
  <2>2. a \in Nat \X Nat /\ b \in Tools /\ c \in Nat
    BY <1>2, <2>1
  <2>3. PICK argument \in {[text |-> <<>>, cut |-> <<>>]} :
            calls[i] = [id |-> a, tool |-> b, text |-> argument.text, cut |-> argument.cut, ref |-> c]
    BY <1>2, <2>1
  <2>4. argument.text = <<>> /\ argument.cut = <<>>
    BY <2>3
  <2>5. calls[i] = [id |-> a, tool |-> b, text |-> <<>>, cut |-> <<>>, ref |-> c]
    BY <2>3, <2>4
  <2> QED BY <2>2, <2>5 DEF WholeCalls
<1>5. calls \in Seq(WholeCalls) /\ Len(calls) = n
  <2>1. calls \in [1..n -> WholeCalls]
    BY <1>2, <1>4
  <2> QED BY <1>3, <2>1, ListTyped
<1>6. calls \in Seq(TakenCalls) /\ calls \in Seq(ToldCalls)
  BY <1>5 DEF TakenCalls, ToldCalls
<1>7. Alike(loop, calls, calls)
  BY <1>1 DEF Alike, SameCall
<1>8. PICK answer : answer = [calls |-> calls, stop |-> stop, tokens |-> tokens]
  OBVIOUS
<1>9. stop \in {"end_turn", "tool_use", "max_tokens"} /\ tokens \in Nat
  BY <1>1, StopsTyped
<1>10. IsAnswer(answer, calls)
  BY <1>6, <1>7, <1>8, <1>9 DEF IsAnswer
<1> QED BY <1>1, <1>8, <1>10, AnswerKeeps

LEMMA AnswerStreamedKeeps ==
    ASSUME IInv, AnswerStreamed
    PROVE  IInv'
<1>1. PICK calls \in Written(Arguments), repeats \in BOOLEAN :
          LET pieces == [i \in DOMAIN calls |->
                            IF repeats THEN Snapshots(calls[i].cut) ELSE calls[i].cut]
              told   == [i \in DOMAIN calls |->
                            [id |-> calls[i].id, tool |-> calls[i].tool, text |-> calls[i].text,
                             distinct |-> repeats \/ Distinct(calls[i].cut)]]
          IN  \E stream \in Streams(calls, pieces) :
                 Answers(CollectStreamToolCalls(stream), told)
  BY Zenon DEF AnswerStreamed
<1>2. PICK pieces, told :
          /\ pieces = [i \in DOMAIN calls |->
                          IF repeats THEN Snapshots(calls[i].cut) ELSE calls[i].cut]
          /\ told = [i \in DOMAIN calls |->
                        [id |-> calls[i].id, tool |-> calls[i].tool, text |-> calls[i].text,
                         distinct |-> repeats \/ Distinct(calls[i].cut)]]
  OBVIOUS
<1>3. PICK stream \in Streams(calls, pieces) : Answers(CollectStreamToolCalls(stream), told)
  BY <1>1, <1>2, Zenon
<1>4. PICK taken : taken = CollectStreamToolCalls(stream)
  OBVIOUS
<1>5. PICK stop \in Stops(told), tokens \in Costs :
          Answer([calls |-> taken, stop |-> stop, tokens |-> tokens], told)
  BY <1>3, <1>4, Zenon DEF Answers
<1>6. PICK n \in 0..MaxCalls :
          /\ calls = [i \in 1..n |-> calls[i]]
          /\ \A i \in 1..n : \E argument \in Arguments :
                /\ calls[i] = [id |-> calls[i].id, tool |-> calls[i].tool,
                               text |-> argument.text, cut |-> argument.cut, ref |-> calls[i].ref]
                /\ calls[i].id \in Nat \X Nat /\ calls[i].tool \in Tools /\ calls[i].ref \in Nat
  BY <1>1, WrittenTyped, ZenonT(60) DEF IInv, Typed
<1>7. n \in Nat
  BY MaxCallsAssumption
<1>8. Len(calls) = n /\ DOMAIN calls = 1..n
  BY <1>6, <1>7, ListOf
<1>9. ASSUME NEW i \in 1..n PROVE MayBeStreamed(calls[i]) /\ CallTyped(calls[i])
  <2>1. PICK call : call = calls[i]
    OBVIOUS
  <2>2. PICK argument \in Arguments :
            call = [id |-> call.id, tool |-> call.tool, text |-> argument.text,
                    cut |-> argument.cut, ref |-> call.ref]
    BY <1>6, <2>1
  <2>3. call.id \in Nat \X Nat /\ call.tool \in Tools
    BY <1>6, <2>1
  <2>4. call.text = argument.text /\ call.cut = argument.cut
    BY <2>2
  <2>a. PICK t \in setting.texts : argument \in {[text |-> t, cut |-> c] : c \in Cuts(t)}
    BY Zenon DEF Arguments
  <2>5. PICK c \in Cuts(t) : argument = [text |-> t, cut |-> c]
    BY <2>a
  <2>6. call.text = t /\ call.cut = c
    BY <2>4, <2>5
  <2>7. t \in Seq(STRING) /\ WholeObject(t)
    BY SettingsAssumption DEF IInv, Typed
  <2>8. call.id # NoId /\ call.tool # NoTool
    <3>1. PICK a \in Nat, b \in Nat : call.id = <<a, b>>
      BY <2>3
    <3>2. Len(<<a, b>>) = 2 /\ Len(<<>>) = 0
      OBVIOUS
    <3>3. <<a, b>> # <<>>
      BY <3>2
    <3>4. call.id # NoId
      BY <3>1, <3>3 DEF NoId
    <3>5. call.tool # NoTool
      BY <2>3 DEF NoTool, Tools, SearchTools, VisualTools
    <3> QED BY <3>4, <3>5
  <2>9. MayBeStreamed(call)
    BY <2>5, <2>6, <2>7, <2>8 DEF MayBeStreamed
  <2> QED BY <2>1, <2>3, <2>9 DEF CallTyped, Tools
<1>10. AllHeard(taken, calls, repeats)
  BY <1>2, <1>3, <1>4, <1>8, <1>9, StreamsHeard
<1>11. /\ Len(told) = n /\ told \in Seq(ToldCalls)
       /\ \A i \in 1..n : told[i] = [id |-> calls[i].id, tool |-> calls[i].tool, text |-> calls[i].text,
                                     distinct |-> repeats \/ Distinct(calls[i].cut)]
  <2>1. ASSUME NEW i \in 1..n
        PROVE  /\ told[i] = [id |-> calls[i].id, tool |-> calls[i].tool, text |-> calls[i].text,
                             distinct |-> repeats \/ Distinct(calls[i].cut)]
               /\ told[i] \in ToldCalls
    <3>1. PICK id, tool, text, distinct :
              /\ id = calls[i].id /\ tool = calls[i].tool /\ text = calls[i].text
              /\ distinct = (repeats \/ Distinct(calls[i].cut))
      OBVIOUS
    <3>2. id \in Nat \X Nat /\ tool \in Tools /\ text \in Seq(STRING) /\ distinct \in BOOLEAN
      BY <1>6, <1>9, <3>1 DEF MayBeStreamed
    <3>3. told[i] = [id |-> id, tool |-> tool, text |-> text, distinct |-> distinct]
      BY <1>2, <1>8, <3>1
    <3>4. told[i] \in ToldCalls
      BY <3>2, <3>3 DEF ToldCalls
    <3> QED BY <3>1, <3>3, <3>4
  <2>2. told \in [1..n -> ToldCalls]
    BY <1>2, <1>8, <2>1
  <2> QED BY <1>7, <2>1, <2>2, ListTyped
<1>12. Alike(loop, taken, told)
  <2>1. Len(taken) = n
    BY <1>8, <1>10 DEF AllHeard
  <2>2. ASSUME NEW i \in 1..n PROVE SameCall(loop, taken[i], told[i])
    <3>1. /\ taken[i].id = calls[i].id /\ taken[i].tool = calls[i].tool
          /\ repeats \/ Distinct(calls[i].cut) => taken[i].text = calls[i].text
      BY <1>8, <1>10 DEF AllHeard
    <3>2. PICK one, other : one = taken[i] /\ other = told[i]
      OBVIOUS
    <3>3. /\ other.id = calls[i].id /\ other.tool = calls[i].tool /\ other.text = calls[i].text
          /\ other.distinct = (repeats \/ Distinct(calls[i].cut))
      BY <1>11, <3>2
    <3> QED BY <3>1, <3>2, <3>3 DEF SameCall
  <2> QED BY <1>11, <2>1, <2>2 DEF Alike
<1>13. PICK answer : answer = [calls |-> taken, stop |-> stop, tokens |-> tokens]
  OBVIOUS
<1>14. stop \in {"end_turn", "tool_use", "max_tokens"} /\ tokens \in Nat
  BY <1>5, StopsTyped
<1>15. taken \in Seq(TakenCalls)
  BY <1>10 DEF AllHeard, TakenCalls
<1>17. phase = "ask" /\ loop = "chat stream"
  BY DEF AnswerStreamed
<1>16. IsAnswer(answer, told)
  BY <1>11, <1>12, <1>13, <1>14, <1>15, <1>17 DEF IsAnswer
<1> QED BY <1>5, <1>13, <1>16, <1>17, AnswerKeeps

LEMMA LoopChosen ==
    ASSUME NEW s \in Settings
    PROVE  ChosenLoop(s) \in Loops
<1>1. s.protocol \in Protocols
  BY SettingsAssumption
<1>2. CreateLoop(s) \in Loops
  BY <1>1 DEF CreateLoop, Loops, Protocols
<1>3. StreamLoop(s) \in Loops
  BY <1>1 DEF StreamLoop, Loops, Protocols
<1> QED BY <1>2, <1>3 DEF ChosenLoop

LEMMA InitHolds ==
    ASSUME Init
    PROVE  IInv
<1>1. /\ setting \in Settings /\ phase = "start" /\ loop = "direct"
      /\ turns = <<>> /\ asked = <<>> /\ ran = <<>>
      /\ outcome = [kind |-> "none", calls |-> <<>>, usage |-> 0]
      /\ spent = [told |-> FALSE, tokens |-> 0]
  BY DEF Init
<1>2. Typed
  BY <1>1 DEF Typed, Loops, Outcomes, Usages
<1>3. setting.rounds \in Nat \ {0} /\ outcome.kind = "none"
  BY <1>1, SettingsAssumption
<1>4. Paced
  <2>1. Len(turns) = 0 /\ Len(asked) = 0
    BY <1>1
  <2> QED BY <1>1, <1>3, <2>1 DEF Paced
<1>5. Alike(loop, ran, Dues(loop, asked))
  <2>1. Dues(loop, asked) = <<>>
    BY <1>1, DuesNone
  <2> QED BY <1>1, <2>1 DEF Alike
<1>6. Followed /\ RoundsWhole /\ Handed /\ Paid
  BY <1>1, <1>3 DEF Followed, RoundsWhole, Handed, Paid
<1>7. SpentWhole
  <2>1. spent.tokens = 0 /\ spent.told = FALSE
    BY <1>1
  <2>2. Tokens(asked) = 0
    BY <1>1, TokensNone
  <2> QED BY <2>1, <2>2 DEF SpentWhole, SpentIs
<1> QED BY <1>2, <1>4, <1>5, <1>6, <1>7 DEF IInv

LEMMA DispatchKeeps ==
    ASSUME IInv, Dispatch
    PROVE  IInv'
<1>1. /\ phase = "start" /\ phase' = "ask" /\ loop' = ChosenLoop(setting)
      /\ setting' = setting /\ turns' = turns /\ asked' = asked /\ ran' = ran /\ outcome' = outcome
      /\ spent' = spent
  BY DEF Dispatch
<1>2. /\ asked = <<>> /\ ran = <<>> /\ turns = <<>> /\ outcome.kind = "none"
      /\ setting \in Settings /\ outcome \in Outcomes /\ spent \in Usages
  <2>1. asked = <<>> /\ ran = <<>> /\ outcome.kind = "none" /\ Len(turns) <= 0
    BY <1>1 DEF IInv, Typed, Paced, Outcomes
  <2>2. turns \in Seq(Turns)
    BY DEF IInv, Typed
  <2>3. turns = <<>>
    BY <2>1, <2>2, EmptySeq, LenProperties
  <2> QED BY <2>1, <2>3 DEF IInv, Typed
<1>3. setting.rounds \in Nat \ {0}
  BY <1>2, SettingsAssumption
<1>4. Typed'
  <2>1. loop' \in Loops
    BY <1>1, <1>2, LoopChosen
  <2>2. ran' \in Seq(Executions')
    BY <1>1, <1>2
  <2> QED BY <1>1, <1>2, <2>1, <2>2 DEF Typed
<1>5. Paced'
  <2>1. Len(turns') = 0 /\ Len(asked') = 0
    BY <1>1, <1>2
  <2>2. AllDue'
    BY <2>1 DEF AllDue
  <2> QED BY <1>1, <1>2, <1>3, <2>1, <2>2 DEF Paced
<1>6. Alike(loop', ran', Dues(loop', asked'))
  <2>1. Dues(loop', <<>>) = <<>>
    BY DuesNone
  <2> QED BY <1>1, <1>2, <2>1 DEF Alike
<1>7. Followed' /\ RoundsWhole' /\ Handed' /\ Paid'
  BY <1>1, <1>2 DEF Followed, RoundsWhole, Handed, Paid
<1>8. SpentWhole'
  BY <1>1 DEF IInv, SpentWhole
<1> QED BY <1>4, <1>5, <1>6, <1>7, <1>8 DEF IInv

LEMMA UpstreamFailsKeeps ==
    ASSUME IInv, UpstreamFails
    PROVE  IInv'
<1>1. /\ phase = "ask" /\ phase' = "done" /\ outcome' = [kind |-> "error", calls |-> <<>>, usage |-> 0]
      /\ setting' = setting /\ loop' = loop /\ images' = images
      /\ turns' = turns /\ asked' = asked /\ ran' = ran /\ spent' = spent
  BY DEF UpstreamFails, Report
<1>2. outcome' \in Outcomes /\ outcome'.kind = "error"
  BY <1>1 DEF Outcomes
<1>3. Typed'
  BY <1>1, <1>2, ExecutionsSame DEF IInv, Typed
<1>4. Paced'
  BY <1>1, <1>2 DEF IInv, Paced
<1>5. Alike(loop', ran', Dues(loop', asked'))
  BY <1>1 DEF IInv
<1>6. Followed' /\ Handed' /\ SpentWhole' /\ Paid'
  BY <1>1, <1>2 DEF IInv, Followed, Handed, SpentWhole, Paid
<1>7. RoundsWhole'
  BY <1>1, WholeSoFar DEF RoundsWhole
<1> QED BY <1>3, <1>4, <1>5, <1>6, <1>7 DEF IInv

LEMMA StutterKeeps ==
    ASSUME IInv, UNCHANGED vars
    PROVE  IInv'
<1>1. /\ setting' = setting /\ phase' = phase /\ loop' = loop /\ images' = images
      /\ turns' = turns /\ asked' = asked /\ ran' = ran /\ outcome' = outcome /\ spent' = spent
  BY DEF vars
<1>2. Typed'
  BY <1>1, ExecutionsSame DEF IInv, Typed
<1>3. /\ Paced' /\ Followed' /\ RoundsWhole' /\ Handed' /\ SpentWhole' /\ Paid'
      /\ Alike(loop', ran', Dues(loop', asked'))
  BY <1>1 DEF IInv, Paced, AllDue, Followed, RoundsWhole, Handed, SpentWhole, Paid
<1> QED BY <1>2, <1>3 DEF IInv

---------------------------------------------------------------------------
(* Lists of what each element gives *)

FlatMap(F, s) == FlattenSeq([i \in DOMAIN s |-> F[s[i]]])

LEMMA FlatMapNone == \A F : FlatMap(F, <<>>) = <<>>
<1>1. ASSUME NEW F PROVE FlatMap(F, <<>>) = <<>>
  <2>1. [i \in DOMAIN <<>> |-> F[<<>>[i]]] = <<>>
    OBVIOUS
  <2> QED BY <2>1, FlattenNone DEF FlatMap
<1> QED BY <1>1

LEMMA FlatMapAppend ==
    ASSUME NEW S, NEW T, NEW F \in [S -> Seq(T)], NEW s \in Seq(S), NEW x \in S
    PROVE  /\ FlatMap(F, s) \in Seq(T)
           /\ FlatMap(F, Append(s, x)) = FlatMap(F, s) \o F[x]
<1>1. PICK n, u, a, b, y : /\ n = Len(s) /\ u = Append(s, x) /\ y = F[x]
                           /\ a = [i \in DOMAIN s |-> F[s[i]]]
                           /\ b = [i \in DOMAIN u |-> F[u[i]]]
  OBVIOUS
<1>2. /\ n \in Nat /\ DOMAIN s = 1..n /\ DOMAIN u = 1..(n + 1) /\ u[n + 1] = x
      /\ \A i \in 1..n : u[i] = s[i] /\ s[i] \in S
  BY <1>1, LenProperties, ElementOfSeq, AppendProperties
<1>3. y \in Seq(T)
  BY <1>1
<1>4. a \in Seq(Seq(T)) /\ Len(a) = n /\ \A i \in 1..n : a[i] = F[s[i]]
  <2>1. a \in [1..n -> Seq(T)]
    BY <1>1, <1>2
  <2> QED BY <1>1, <1>2, <2>1, ListTyped
<1>5. b = Append(a, y)
  <2>1. PICK v : v = Append(a, y)
    OBVIOUS
  <2>2. v \in Seq(Seq(T)) /\ Len(v) = n + 1 /\ v[n + 1] = y /\ \A i \in 1..n : v[i] = a[i]
    BY <1>3, <1>4, <2>1, AppendProperties
  <2>3. DOMAIN v = 1..(n + 1)
    BY <2>2, LenProperties
  <2>4. v = [i \in 1..(n + 1) |-> v[i]]
    BY <2>2, <2>3
  <2>5. b = [i \in 1..(n + 1) |-> F[u[i]]]
    BY <1>1, <1>2
  <2>6. ASSUME NEW i \in 1..(n + 1) PROVE v[i] = F[u[i]]
    <3>1. CASE i = n + 1
      BY <3>1, <2>2, <1>1, <1>2
    <3>2. CASE i # n + 1
      <4>1. i \in 1..n
        BY <3>2, <1>2
      <4> QED BY <4>1, <2>2, <1>2, <1>4
    <3> QED BY <3>1, <3>2
  <2> QED BY <2>1, <2>4, <2>5, <2>6
<1>6. FlattenSeq(a) \in Seq(T) /\ FlattenSeq(Append(a, y)) = FlattenSeq(a) \o y
  BY <1>3, <1>4, FlattenAppend
<1>7. FlatMap(F, s) = FlattenSeq(a) /\ FlatMap(F, u) = FlattenSeq(b)
  BY <1>1 DEF FlatMap
<1> QED BY <1>1, <1>5, <1>6, <1>7

---------------------------------------------------------------------------
(* The numbers on labels *)

Span(a, b) == [k \in 1..(b - a) |-> a + k]

LEMMA SpanFacts ==
    ASSUME NEW a \in Nat, NEW b \in Nat, a <= b
    PROVE  Span(a, b) \in Seq(Nat) /\ Len(Span(a, b)) = b - a /\ Span(a, a) = <<>>
<1>1. PICK m : m = b - a
  OBVIOUS
<1>2. m \in Nat
  BY <1>1
<1>3. PICK s : s = Span(a, b)
  OBVIOUS
<1>4. s \in [1..m -> Nat]
  BY <1>1, <1>3 DEF Span
<1>5. s \in Seq(Nat) /\ Len(s) = m
  BY <1>2, <1>4, ListTyped
<1>6. Span(a, a) = <<>>
  BY DEF Span
<1> QED BY <1>1, <1>3, <1>5, <1>6

LEMMA SpanJoins ==
    ASSUME NEW a \in Nat, NEW b \in Nat, NEW c \in Nat, a <= b, b <= c
    PROVE  Span(a, b) \o Span(b, c) = Span(a, c)
<1>1. PICK s, t, u : s = Span(a, b) /\ t = Span(b, c) /\ u = Span(a, c)
  OBVIOUS
<1>2. /\ s \in Seq(Nat) /\ Len(s) = b - a /\ t \in Seq(Nat) /\ Len(t) = c - b
      /\ u \in Seq(Nat) /\ Len(u) = c - a
  <2>1. s \in Seq(Nat) /\ Len(s) = b - a
    BY <1>1, SpanFacts
  <2>2. t \in Seq(Nat) /\ Len(t) = c - b
    BY <1>1, SpanFacts
  <2>3. a <= c
    OBVIOUS
  <2>4. u \in Seq(Nat) /\ Len(u) = c - a
    BY <1>1, <2>3, SpanFacts
  <2> QED BY <2>1, <2>2, <2>4
<1>3. PICK v : v = s \o t
  OBVIOUS
<1>4. /\ v \in Seq(Nat) /\ Len(v) = c - a
      /\ \A i \in 1..(c - a) : v[i] = IF i <= b - a THEN s[i] ELSE t[i - (b - a)]
  <2>1. v \in Seq(Nat) /\ Len(v) = Len(s) + Len(t)
    BY <1>2, <1>3, ConcatProperties
  <2>2. \A i \in 1..(Len(s) + Len(t)) : v[i] = IF i <= Len(s) THEN s[i] ELSE t[i - Len(s)]
    BY <1>2, <1>3, ConcatProperties
  <2>3. Len(s) + Len(t) = c - a
    BY <1>2
  <2> QED BY <1>2, <2>1, <2>2, <2>3
<1>5. ASSUME NEW i \in 1..(c - a) PROVE v[i] = u[i]
  <2>1. u[i] = a + i
    BY <1>1 DEF Span
  <2>2. CASE i <= b - a
    <3>1. s[i] = a + i
      BY <1>1, <2>2 DEF Span
    <3> QED BY <1>4, <2>1, <2>2, <3>1
  <2>3. CASE ~(i <= b - a)
    <3>1. PICK j : j = i - (b - a)
      OBVIOUS
    <3>2. j \in 1..(c - b) /\ b + j = a + i
      BY <2>3, <3>1
    <3>3. t[j] = b + j
      BY <1>1, <3>2 DEF Span
    <3> QED BY <1>4, <2>1, <2>3, <3>1, <3>2, <3>3
  <2> QED BY <2>2, <2>3
<1>6. v = u
  <2>1. Len(v) = Len(u) /\ \A i \in 1..Len(v) : v[i] = u[i]
    BY <1>2, <1>4, <1>5
  <2> QED BY <1>2, <1>4, <2>1, SeqEqual
<1> QED BY <1>1, <1>3, <1>6

LEMMA SpanOne ==
    ASSUME NEW a \in Nat
    PROVE  Span(a, a + 1) = <<a + 1>>
<1>1. Span(a, a + 1) = [k \in 1..1 |-> a + 1]
  <2>1. (a + 1) - a = 1
    OBVIOUS
  <2>2. \A k \in 1..1 : k = 1
    OBVIOUS
  <2> QED BY <2>1, <2>2 DEF Span
<1> QED BY <1>1

LEMMA ConcatAppendOne ==
    ASSUME NEW S, NEW s \in Seq(S), NEW t \in Seq(S), NEW x \in S
    PROVE  s \o Append(t, x) = Append(s \o t, x)
<1>0. PICK w : w = <<x>>
  OBVIOUS
<1>1. w \in Seq(S)
  BY <1>0
<1>2. Append(t, x) = Join(t, w) /\ Join(s, t) \in Seq(S)
  BY <1>0, JoinAppend, JoinTyped
<1>3. Append(Join(s, t), x) = Join(Join(s, t), w)
  BY <1>0, <1>2, JoinAppend
<1>4. Join(Join(s, t), w) = Join(s, Join(t, w))
  BY <1>1, JoinAssociates
<1>5. Append(Join(s, t), x) = Join(s, Append(t, x))
  BY <1>2, <1>3, <1>4
<1> QED BY <1>5, Zenon DEF Join

---------------------------------------------------------------------------
(* What the visual loop makes of a tool's result *)

\* What the model may be shown: texts and labels, and results of tools with them.
ShownParts == {[type |-> "text"]} \union [type : {"label"}, number : Nat]
ShownBlocks == ShownParts \union [type : {"tool_result"}, content : Seq(ShownParts)]

Given == STRING \ {NoData}

NumberMap == [part \in ShownParts |-> NumberOn(part)]
NumbersMap == [block \in ShownBlocks |-> NumbersOn(block)]

LEMMA NumberMapTyped ==
    /\ NumberMap \in [ShownParts -> Seq(Nat)]
    /\ \A part \in ShownParts : NumberMap[part] = NumberOn(part) /\ NumberOn(part) \in Seq(Nat)
<1>1. ASSUME NEW part \in ShownParts PROVE NumberOn(part) \in Seq(Nat)
  BY DEF ShownParts, NumberOn
<1> QED BY <1>1 DEF NumberMap

LEMMA NumbersInMap ==
    ASSUME NEW parts \in Seq(ShownParts)
    PROVE  NumbersIn(parts) = FlatMap(NumberMap, parts)
<1>1. DOMAIN parts = 1..Len(parts) /\ \A j \in 1..Len(parts) : parts[j] \in ShownParts
  BY LenProperties, ElementOfSeq
<1>2. \A j \in DOMAIN parts : NumberOn(parts[j]) = NumberMap[parts[j]]
  BY <1>1, NumberMapTyped
<1>3. PICK a, b : /\ a = [j \in DOMAIN parts |-> NumberOn(parts[j])]
                  /\ b = [j \in DOMAIN parts |-> NumberMap[parts[j]]]
  OBVIOUS
<1>4. a = b
  BY <1>2, <1>3
<1> QED BY <1>3, <1>4 DEF NumbersIn, FlatMap

\* One more part is one more number, or none.
LEMMA NumbersInAppend ==
    ASSUME NEW parts \in Seq(ShownParts), NEW x \in ShownParts
    PROVE  /\ NumbersIn(parts) \in Seq(Nat)
           /\ NumbersIn(Append(parts, x)) = NumbersIn(parts) \o NumberOn(x)
<1>1. PICK u : u = Append(parts, x)
  OBVIOUS
<1>2. u \in Seq(ShownParts)
  BY <1>1, AppendProperties
<1>3. /\ FlatMap(NumberMap, parts) \in Seq(Nat)
      /\ FlatMap(NumberMap, u) = FlatMap(NumberMap, parts) \o NumberMap[x]
  <2>1. PICK F : F = NumberMap
    OBVIOUS
  <2>2. F \in [ShownParts -> Seq(Nat)]
    BY <2>1, NumberMapTyped
  <2>3. FlatMap(F, parts) \in Seq(Nat) /\ FlatMap(F, Append(parts, x)) = FlatMap(F, parts) \o F[x]
    <3>1. PICK S, T : S = ShownParts /\ T = Nat
      OBVIOUS
    <3>2. F \in [S -> Seq(T)] /\ parts \in Seq(S) /\ x \in S
      BY <2>2, <3>1
    <3>3. FlatMap(F, parts) \in Seq(T) /\ FlatMap(F, Append(parts, x)) = FlatMap(F, parts) \o F[x]
      BY <3>2, FlatMapAppend
    <3> QED BY <3>1, <3>3
  <2> QED BY <1>1, <2>1, <2>3
<1>4. NumberMap[x] = NumberOn(x)
  BY NumberMapTyped
<1>5. NumbersIn(parts) = FlatMap(NumberMap, parts) /\ NumbersIn(u) = FlatMap(NumberMap, u)
  BY <1>2, NumbersInMap
<1> QED BY <1>1, <1>3, <1>4, <1>5

Prepares(C) == [content : Seq(C), images : Seq(STRING)]
States == Prepares(ShownParts)

\* What one part adds: a label with the next number for an image that can be
\* read, and a text for any other.
HasPart(after, state, d, x) ==
    /\ after.content = Append(state.content, x)
    /\ \/ /\ d \in Given /\ after.images = Append(state.images, d)
          /\ NumberOn(x) = <<Len(state.images) + 1>>
       \/ d = NoData /\ after.images = state.images /\ NumberOn(x) = <<>>

LEMMA PartPrepared ==
    ASSUME NEW C, ShownParts \subseteq C, NEW state \in Prepares(C), NEW part \in Parts
    PROVE  /\ PrepareImage(state, part) \in Prepares(C)
           /\ \E x \in ShownParts : HasPart(PrepareImage(state, part), state, DataOf(part), x)
<1>0. PICK after : after = PrepareImage(state, part)
  OBVIOUS
<1>1. PICK content, taken : content = state.content /\ taken = state.images
  OBVIOUS
<1>2. /\ content \in Seq(C) /\ taken \in Seq(STRING)
      /\ state = [content |-> content, images |-> taken]
  BY <1>1 DEF Prepares
<1>3. Len(taken) \in Nat
  BY <1>2, LenProperties
<1>4. [type |-> "text"] \in ShownParts /\ NumberOn([type |-> "text"]) = <<>>
  BY DEF ShownParts, NumberOn
<1>5. ASSUME NEW x \in ShownParts PROVE Append(content, x) \in Seq(C)
  BY <1>2, AppendProperties
<1>6. CASE part = [type |-> "text"]
  <2>1. part.type # "image"
    BY <1>6
  <2>2. after = [content |-> Append(content, part), images |-> taken]
    BY <1>0, <1>2, <2>1 DEF PrepareImage
  <2>3. DataOf(part) = NoData
    BY <2>1 DEF DataOf
  <2>a. PICK more : more = Append(content, part)
    OBVIOUS
  <2>b. more \in Seq(C)
    BY <1>4, <1>5, <1>6, <2>a
  <2>c. after = [content |-> more, images |-> taken]
    BY <2>2, <2>a
  <2>4. after.content = Append(content, part) /\ after.images = taken /\ after \in Prepares(C)
    BY <1>2, <2>a, <2>b, <2>c DEF Prepares
  <2> QED BY <1>0, <1>1, <1>4, <1>6, <2>3, <2>4 DEF HasPart
<1>7. CASE part \in [type : {"image"}, data : STRING]
  <2>1. PICK data : data = part.data
    OBVIOUS
  <2>2. part.type = "image" /\ data \in STRING /\ DataOf(part) = data
    BY <1>7, <2>1 DEF DataOf
  <2>3. CASE data = NoData
    <3>1. PICK x : x = [type |-> "text"]
      OBVIOUS
    <3>2. after = [content |-> Append(content, x), images |-> taken]
      BY <1>2, <2>1, <2>2, <2>3, <3>1, <1>0 DEF PrepareImage, Text
    <3>a. PICK more : more = Append(content, x)
      OBVIOUS
    <3>b. more \in Seq(C)
      BY <1>4, <1>5, <3>1, <3>a
    <3>c. after = [content |-> more, images |-> taken]
      BY <3>2, <3>a
    <3>3. after.content = Append(content, x) /\ after.images = taken /\ after \in Prepares(C)
      BY <1>2, <3>a, <3>b, <3>c DEF Prepares
    <3> QED BY <1>0, <1>1, <1>4, <2>2, <2>3, <3>1, <3>3 DEF HasPart
  <2>4. CASE data # NoData
    <3>1. PICK m, x : m = Len(taken) + 1 /\ x = [type |-> "label", number |-> m]
      OBVIOUS
    <3>2. m \in Nat
      BY <1>3, <3>1
    <3>3. x \in ShownParts /\ NumberOn(x) = <<m>>
      BY <3>1, <3>2 DEF ShownParts, NumberOn
    <3>4. after = [content |-> Append(content, x), images |-> Append(taken, data)]
      BY <1>0, <1>1, <2>1, <2>2, <2>4, <3>1 DEF PrepareImage, Label
    <3>5. Append(taken, data) \in Seq(STRING)
      BY <1>2, <2>2, AppendProperties
    <3>6. after.content = Append(content, x) /\ after.images = Append(taken, data) /\ after \in Prepares(C)
      BY <1>5, <3>3, <3>4, <3>5 DEF Prepares
    <3>7. DataOf(part) \in Given
      BY <2>2, <2>4 DEF Given
    <3> QED BY <1>0, <1>1, <2>2, <3>1, <3>3, <3>6, <3>7 DEF HasPart
  <2> QED BY <2>3, <2>4
<1> QED BY <1>6, <1>7 DEF Parts

PartAfter(before, state, parts, n) ==
    IF n = 0 THEN state ELSE PrepareImage(before[n - 1], parts[n])

IsPreparation(g, state, parts, L) == g = [n \in 0..L |-> PartAfter(g, state, parts, n)]

LEMMA PreparationExists ==
    ASSUME NEW state, NEW parts, NEW L \in Nat
    PROVE  \E g : IsPreparation(g, state, parts, L)
<1> DEFINE T == {l \in Nat : \E g : IsPreparation(g, state, parts, l)}
<1>1. 0 \in T
  <2> DEFINE g == [n \in 0..0 |-> state]
  <2>1. IsPreparation(g, state, parts, 0)
    BY DEF IsPreparation, PartAfter
  <2> HIDE DEF g
  <2> QED BY <2>1
<1>2. ASSUME NEW l \in Nat, l \in T PROVE l + 1 \in T
  <2>1. PICK g : IsPreparation(g, state, parts, l)
    BY <1>2
  <2> DEFINE k == [n \in 0..(l + 1) |-> IF n = l + 1 THEN PartAfter(g, state, parts, n) ELSE g[n]]
  <2>2. ASSUME NEW n \in 0..(l + 1) PROVE k[n] = PartAfter(k, state, parts, n)
    <3>1. n # 0 => k[n - 1] = g[n - 1]
      OBVIOUS
    <3>2. PartAfter(k, state, parts, n) = PartAfter(g, state, parts, n)
      BY <3>1 DEF PartAfter
    <3>3. n # l + 1 => g[n] = PartAfter(g, state, parts, n)
      BY <2>1 DEF IsPreparation
    <3> QED BY <3>2, <3>3
  <2>3. IsPreparation(k, state, parts, l + 1)
    BY <2>2 DEF IsPreparation
  <2> HIDE DEF k
  <2>4. l + 1 \in Nat
    OBVIOUS
  <2> QED BY <2>3, <2>4
<1> HIDE DEF T
<1>3. Nat \subseteq T
  BY <1>1, <1>2, NatSetInduction
<1> QED BY <1>3 DEF T

LEMMA PartsSteps ==
    ASSUME NEW state, NEW parts, Len(parts) \in Nat
    PROVE  /\ PartsUpTo(state, parts)[0] = state
           /\ \A n \in 1..Len(parts) :
                 PartsUpTo(state, parts)[n] = PrepareImage(PartsUpTo(state, parts)[n - 1], parts[n])
<1> DEFINE g == CHOOSE f : IsPreparation(f, state, parts, Len(parts))
<1>1. PartsUpTo(state, parts) = g
  BY Zenon DEF PartsUpTo, IsPreparation, PartAfter
<1>2. \E f : IsPreparation(f, state, parts, Len(parts))
  BY PreparationExists
<1>3. IsPreparation(g, state, parts, Len(parts))
  BY <1>2, Zenon
<1> HIDE DEF g
<1>4. \A n \in 0..Len(parts) : g[n] = PartAfter(g, state, parts, n)
  BY <1>3 DEF IsPreparation
<1>5. g[0] = state
  BY <1>4 DEF PartAfter
<1>6. ASSUME NEW n \in 1..Len(parts) PROVE g[n] = PrepareImage(g[n - 1], parts[n])
  <2>1. n \in 0..Len(parts) /\ n # 0
    OBVIOUS
  <2> QED BY <2>1, <1>4 DEF PartAfter
<1> QED BY <1>1, <1>5, <1>6

\* The parts of a result leave no image; the images that can be read are taken
\* out in their order and their labels carry the next numbers.
LEMMA PartsPrepared ==
    ASSUME NEW parts \in Seq(Parts), NEW taken \in Seq(STRING), NEW data,
           data = [j \in DOMAIN parts |-> DataOf(parts[j])],
           NEW in, in = PrepareParts(parts, taken)
    PROVE  /\ in \in States
           /\ in.images = taken \o Selected(data, Given)
           /\ Len(taken) <= Len(in.images)
           /\ NumbersIn(in.content) = Span(Len(taken), Len(in.images))
<1>0. PICK start : start = [content |-> <<>>, images |-> taken]
  OBVIOUS
<1>1. PICK L : L = Len(parts)
  OBVIOUS
<1>2. L \in Nat /\ DOMAIN parts = 1..L /\ \A n \in 1..L : parts[n] \in Parts
  BY <1>1, LenProperties, ElementOfSeq
<1>3. /\ data \in Seq({NoData} \union STRING) /\ Len(data) = L /\ \A n \in 1..L : data[n] = DataOf(parts[n])
  <2>1. \A part \in Parts : DataOf(part) \in {NoData} \union STRING
    BY DEF Parts, DataOf
  <2>2. data \in [1..L -> {NoData} \union STRING]
    BY <1>2, <2>1
  <2> QED BY <1>2, <2>2, ListTyped
<1> DEFINE f == PartsUpTo(start, parts)
           k == SelectedUpTo(data, Given)
<1>4. /\ f[0] = start
      /\ \A n \in 1..L : f[n] = PrepareImage(f[n - 1], parts[n])
  BY <1>1, <1>2, PartsSteps
<1>5. /\ k[0] = <<>>
      /\ \A n \in 1..L : k[n] = IF data[n] \in Given THEN Append(k[n - 1], data[n]) ELSE k[n - 1]
  BY <1>2, <1>3, SelectedSteps
<1>6. in = f[L]
  BY <1>0, <1>1 DEF PrepareParts
<1>7. Selected(data, Given) = k[L]
  BY <1>3 DEF Selected
<1> HIDE DEF f, k
<1>8. PICK a : a = Len(taken)
  OBVIOUS
<1>9. a \in Nat
  BY <1>8, LenProperties
<1> DEFINE T == {n \in 0..L :
                   /\ f[n] \in States /\ k[n] \in Seq(STRING)
                   /\ f[n].images = taken \o k[n]
                   /\ NumbersIn(f[n].content) = Span(a, Len(f[n].images))}
<1>10. 0 \in T
  <2>1. start.content = <<>> /\ start.images = taken /\ start \in States
    BY <1>0 DEF States, Prepares
  <2>2. taken \o <<>> = taken
    BY ConcatEmptySeq
  <2>3. NumbersIn(<<>>) = <<>>
    <3>1. <<>> \in Seq(ShownParts)
      OBVIOUS
    <3> QED BY <3>1, NumbersInMap, FlatMapNone
  <2>4. Span(a, a) = <<>>
    BY <1>9, SpanFacts
  <2>5. 0 \in 0..L /\ f[0] = start /\ k[0] = <<>> /\ <<>> \in Seq(STRING)
    BY <1>2, <1>4, <1>5
  <2>6. NumbersIn(f[0].content) = Span(a, Len(f[0].images))
    BY <1>8, <2>1, <2>3, <2>4, <2>5
  <2>7. f[0].images = taken \o k[0]
    BY <2>1, <2>2, <2>5
  <2> QED BY <2>1, <2>5, <2>6, <2>7
<1>11. ASSUME NEW n \in 0..(L - 1), n \in T PROVE n + 1 \in T
  <2>1. PICK m : m = n + 1
    OBVIOUS
  <2>2. m \in 1..L /\ m \in 0..L /\ m - 1 = n
    BY <1>2, <2>1
  <2>3. PICK state, after, part, before : state = f[n] /\ after = f[m] /\ part = parts[m] /\ before = k[n]
    OBVIOUS
  <2>4. /\ state \in States /\ before \in Seq(STRING) /\ state.images = taken \o before
        /\ NumbersIn(state.content) = Span(a, Len(state.images))
    BY <1>11, <2>3
  <2>5. after = PrepareImage(state, part) /\ part \in Parts
    BY <1>2, <1>4, <2>2, <2>3
  <2>6. after \in States /\ \E x \in ShownParts : HasPart(after, state, DataOf(part), x)
    BY <2>4, <2>5, PartPrepared DEF States
  <2>7. PICK x \in ShownParts : HasPart(after, state, DataOf(part), x)
    BY <2>6
  <2>8. PICK c, i, b : c = state.content /\ i = state.images /\ b = Len(i)
    OBVIOUS
  <2>9. c \in Seq(ShownParts) /\ i \in Seq(STRING) /\ b \in Nat /\ b = a + Len(before) /\ Len(before) \in Nat
    <3>1. c \in Seq(ShownParts) /\ i \in Seq(STRING)
      BY <2>4, <2>8 DEF States, Prepares
    <3>2. Len(taken \o before) = Len(taken) + Len(before)
      BY <2>4, ConcatProperties
    <3>3. Len(before) \in Nat
      BY <2>4, LenProperties
    <3> QED BY <1>8, <1>9, <2>4, <2>8, <3>1, <3>2, <3>3
  <2>10. NumbersIn(after.content) = Span(a, b) \o NumberOn(x)
    BY <2>4, <2>7, <2>8, <2>9, NumbersInAppend DEF HasPart
  <2>11. data[m] = DataOf(part) /\ k[m] = IF data[m] \in Given THEN Append(before, data[m]) ELSE before
    BY <1>3, <1>5, <2>2, <2>3
  <2>12. CASE DataOf(part) \in Given /\ after.images = Append(i, DataOf(part)) /\ NumberOn(x) = <<b + 1>>
    <3>1. PICK d : d = DataOf(part)
      OBVIOUS
    <3>2. d \in STRING /\ d \in Given
      BY <2>12, <3>1 DEF Given
    <3>3. k[m] = Append(before, d) /\ k[m] \in Seq(STRING)
      <4>1. k[m] = Append(before, d)
        BY <2>11, <3>1, <3>2
      <4> QED BY <2>4, <3>2, <4>1, AppendProperties
    <3>4. taken \o Append(before, d) = Append(taken \o before, d)
      BY <2>4, <3>2, ConcatAppendOne
    <3>5. after.images = taken \o k[m]
      BY <2>4, <2>8, <2>12, <3>1, <3>3, <3>4
    <3>6. Len(after.images) = b + 1
      <4>1. Len(Append(i, d)) = Len(i) + 1
        BY <2>9, <3>2, AppendProperties
      <4> QED BY <2>8, <2>12, <3>1, <4>1
    <3>7. Span(a, b) \o <<b + 1>> = Span(a, b + 1)
      <4>1. a <= b /\ b <= b + 1 /\ b + 1 \in Nat
        BY <1>9, <2>9
      <4>2. Span(b, b + 1) = <<b + 1>>
        BY <2>9, SpanOne
      <4>3. Span(a, b) \o Span(b, b + 1) = Span(a, b + 1)
        BY <1>9, <2>9, <4>1, SpanJoins
      <4> QED BY <4>2, <4>3
    <3>8. NumbersIn(after.content) = Span(a, Len(after.images))
      BY <2>10, <2>12, <3>6, <3>7
    <3> QED BY <2>1, <2>2, <2>3, <2>6, <3>3, <3>5, <3>8
  <2>13. CASE DataOf(part) = NoData /\ after.images = i /\ NumberOn(x) = <<>>
    <3>1. k[m] = before
      BY <2>11, <2>13 DEF Given
    <3>2. Span(a, b) \in Seq(Nat)
      BY <1>9, <2>9, SpanFacts
    <3>3. Span(a, b) \o <<>> = Span(a, b)
      BY <3>2, ConcatEmptySeq
    <3>4. NumbersIn(after.content) = Span(a, Len(after.images))
      BY <2>8, <2>10, <2>13, <3>3
    <3>5. after.images = taken \o k[m]
      BY <2>4, <2>8, <2>13, <3>1
    <3> QED BY <2>1, <2>2, <2>3, <2>4, <2>6, <3>1, <3>4, <3>5
  <2> QED BY <2>7, <2>8, <2>12, <2>13 DEF HasPart
<1>12. L \in T
  <2> HIDE DEF T
  <2>1. 0..L \subseteq T
    BY <1>2, <1>10, <1>11, UpToInduction
  <2> QED BY <1>2, <2>1
<1>13. Len(taken) <= Len(in.images)
  <2>1. k[L] \in Seq(STRING) /\ in.images = taken \o k[L]
    BY <1>6, <1>12
  <2>2. Len(taken \o k[L]) = Len(taken) + Len(k[L]) /\ Len(k[L]) \in Nat
    <3>1. PICK z : z = k[L]
      OBVIOUS
    <3> QED BY <2>1, <3>1, ConcatProperties, LenProperties
  <2> QED BY <1>8, <1>9, <2>1, <2>2
<1> QED BY <1>6, <1>7, <1>8, <1>12, <1>13

---------------------------------------------------------------------------
(* What the visual loop makes of a message *)

AllData == {NoData} \union STRING

LEMMA FlattenSteps ==
    ASSUME NEW S, NEW seqs \in Seq(Seq(S))
    PROVE  \E h : /\ h[0] = <<>> /\ FlattenSeq(seqs) = h[Len(seqs)]
                  /\ \A n \in 0..Len(seqs) : h[n] \in Seq(S)
                  /\ \A n \in 1..Len(seqs) : h[n] = h[n - 1] \o seqs[n]
<1>1. PICK L : L = Len(seqs)
  OBVIOUS
<1>2. L \in Nat /\ \A n \in 1..L : seqs[n] \in Seq(S)
  BY <1>1, LenProperties, ElementOfSeq
<1>3. <<>> \in Seq(S)
  OBVIOUS
<1>4. CASE L = 0
  <2>1. seqs = <<>>
    BY <1>1, <1>4, EmptySeq
  <2>2. FlattenSeq(seqs) = <<>>
    BY <2>1, FlattenNone
  <2>3. PICK h : h = [n \in 0..0 |-> <<>>]
    OBVIOUS
  <2>4. h[0] = <<>> /\ \A n \in 0..L : n = 0
    BY <1>4, <2>3
  <2>5. FlattenSeq(seqs) = h[L]
    BY <1>4, <2>2, <2>4
  <2>6. \A n \in 0..L : h[n] \in Seq(S)
    BY <1>3, <2>4
  <2>7. \A n \in 1..L : h[n] = h[n - 1] \o seqs[n]
    BY <1>4
  <2> QED BY <1>1, <2>4, <2>5, <2>6, <2>7
<1>5. CASE L # 0
  <2>1. PICK g : IsFlat(g, seqs, L) /\ FlattenSeq(seqs) = g[L]
    BY <1>1, <1>2, <1>5, FlattenIsFlat
  <2>2. PICK h : h = [n \in 0..L |-> IF n = 0 THEN <<>> ELSE g[n]]
    OBVIOUS
  <2>3. h[0] = <<>> /\ h[L] = g[L]
    BY <1>2, <1>5, <2>2
  <2>4. ASSUME NEW n \in 1..L PROVE h[n] = h[n - 1] \o seqs[n]
    <3>0. n \in 0..L /\ n # 0
      BY <1>2
    <3>a. h[n] = g[n]
      BY <2>2, <3>0
    <3>b. g[n] = Flat(g, seqs, n)
      BY <2>1 DEF IsFlat
    <3>1. h[n] = Flat(g, seqs, n)
      BY <3>a, <3>b
    <3>2. CASE n = 1
      <4>1. h[n] = seqs[n] /\ h[n - 1] = <<>>
        BY <2>3, <3>1, <3>2 DEF Flat
      <4>2. <<>> \o seqs[n] = seqs[n]
        BY <1>2, ConcatEmptySeq
      <4> QED BY <4>1, <4>2
    <3>3. CASE n # 1
      <4>1. n - 1 \in 0..L /\ n - 1 # 0
        BY <1>2, <3>3
      <4>2. h[n - 1] = g[n - 1]
        BY <2>2, <4>1
      <4> QED BY <3>1, <3>3, <4>2 DEF Flat
    <3> QED BY <3>2, <3>3
  <2> DEFINE T == {n \in 0..L : h[n] \in Seq(S)}
  <2>5. 0 \in T
    <3>1. 0 \in 0..L /\ h[0] \in Seq(S)
      BY <1>2, <1>3, <2>3
    <3> QED BY <3>1
  <2>6. ASSUME NEW n \in 0..(L - 1), n \in T PROVE n + 1 \in T
    <3>1. PICK m, a, b : m = n + 1 /\ a = h[n] /\ b = seqs[m]
      OBVIOUS
    <3>2. m \in 1..L /\ m \in 0..L /\ m - 1 = n
      BY <1>2, <3>1
    <3>3. h[m] = a \o b /\ a \in Seq(S) /\ b \in Seq(S)
      BY <1>2, <2>4, <2>6, <3>1, <3>2
    <3>4. a \o b \in Seq(S)
      BY <3>3, ConcatProperties
    <3> QED BY <3>1, <3>2, <3>3, <3>4
  <2>7. \A n \in 0..L : h[n] \in Seq(S)
    <3> HIDE DEF T
    <3>1. 0..L \subseteq T
      BY <1>2, <2>5, <2>6, UpToInduction
    <3> QED BY <3>1 DEF T
  <2> QED BY <1>1, <2>1, <2>3, <2>4, <2>7
<1> QED BY <1>4, <1>5

LEMMA NumbersMapTyped ==
    /\ NumbersMap \in [ShownBlocks -> Seq(Nat)]
    /\ \A block \in ShownBlocks : NumbersMap[block] = NumbersOn(block) /\ NumbersOn(block) \in Seq(Nat)
<1>1. ASSUME NEW block \in ShownBlocks PROVE NumbersOn(block) \in Seq(Nat)
  <2>1. CASE block \in ShownParts
    <3>1. block.type # "tool_result"
      BY <2>1 DEF ShownParts
    <3> QED BY <2>1, <3>1, NumberMapTyped DEF NumbersOn
  <2>2. CASE block \in [type : {"tool_result"}, content : Seq(ShownParts)]
    <3>1. PICK parts, text : parts = block.content /\ text = [type |-> "text"]
      OBVIOUS
    <3>2. block.type = "tool_result" /\ parts \in Seq(ShownParts) /\ text \in ShownParts
      BY <2>2, <3>1 DEF ShownParts
    <3>3. NumbersIn(parts) \in Seq(Nat)
      BY <3>2, NumbersInAppend
    <3> QED BY <3>1, <3>2, <3>3 DEF NumbersOn
  <2> QED BY <2>1, <2>2 DEF ShownBlocks
<1> QED BY <1>1 DEF NumbersMap

LEMMA LabelsMap ==
    ASSUME NEW content \in Seq(ShownBlocks)
    PROVE  Labels(content) = FlatMap(NumbersMap, content)
<1>1. DOMAIN content = 1..Len(content) /\ \A j \in 1..Len(content) : content[j] \in ShownBlocks
  BY LenProperties, ElementOfSeq
<1>2. \A j \in DOMAIN content : NumbersOn(content[j]) = NumbersMap[content[j]]
  BY <1>1, NumbersMapTyped
<1>3. PICK a, b : /\ a = [j \in DOMAIN content |-> NumbersOn(content[j])]
                  /\ b = [j \in DOMAIN content |-> NumbersMap[content[j]]]
  OBVIOUS
<1>4. a = b
  BY <1>2, <1>3
<1> QED BY <1>3, <1>4 DEF Labels, FlatMap

LEMMA LabelsAppend ==
    ASSUME NEW content \in Seq(ShownBlocks), NEW x \in ShownBlocks
    PROVE  Labels(Append(content, x)) = Labels(content) \o NumbersOn(x)
<1>1. PICK u, F, S, T : u = Append(content, x) /\ F = NumbersMap /\ S = ShownBlocks /\ T = Nat
  OBVIOUS
<1>2. u \in Seq(ShownBlocks)
  BY <1>1, AppendProperties
<1>3. F \in [S -> Seq(T)] /\ content \in Seq(S) /\ x \in S
  BY <1>1, NumbersMapTyped
<1>4. FlatMap(F, Append(content, x)) = FlatMap(F, content) \o F[x]
  BY <1>3, FlatMapAppend
<1>5. F[x] = NumbersOn(x)
  BY <1>1, NumbersMapTyped
<1>6. Labels(content) = FlatMap(F, content) /\ Labels(u) = FlatMap(F, u)
  BY <1>1, <1>2, LabelsMap
<1> QED BY <1>1, <1>4, <1>5, <1>6

LEMMA NoImageShown ==
    ASSUME NEW content \in Seq(ShownBlocks)
    PROVE  ~HasImage(content)
<1>1. DOMAIN content = 1..Len(content) /\ \A i \in 1..Len(content) : content[i] \in ShownBlocks
  BY LenProperties, ElementOfSeq
<1>2. ASSUME NEW part \in ShownParts PROVE part.type # "image" /\ part.type # "tool_result"
  BY DEF ShownParts
<1>3. ASSUME NEW block \in ShownBlocks
      PROVE  /\ block.type # "image"
             /\ block.type = "tool_result" =>
                   \A j \in DOMAIN block.content : block.content[j].type # "image"
  <2>1. CASE block \in ShownParts
    BY <1>2, <2>1
  <2>2. CASE block \in [type : {"tool_result"}, content : Seq(ShownParts)]
    <3>1. PICK parts : parts = block.content
      OBVIOUS
    <3>2. parts \in Seq(ShownParts) /\ block.type = "tool_result"
      BY <2>2, <3>1
    <3>3. DOMAIN parts = 1..Len(parts) /\ \A j \in 1..Len(parts) : parts[j] \in ShownParts
      BY <3>2, LenProperties, ElementOfSeq
    <3>4. \A j \in DOMAIN parts : parts[j].type # "image"
      BY <1>2, <3>3
    <3> QED BY <3>1, <3>2, <3>4
  <2> QED BY <2>1, <2>2 DEF ShownBlocks
<1> QED BY <1>1, <1>3 DEF HasImage

HasBlock(after, state, data, x) ==
    /\ after.content = Append(state.content, x)
    /\ after.images = state.images \o Selected(data, Given)
    /\ NumbersOn(x) = Span(Len(state.images), Len(after.images))
    /\ Len(state.images) <= Len(after.images)

LEMMA BlockPrepared ==
    ASSUME NEW state \in Prepares(ShownBlocks), NEW block \in Blocks
    PROVE  /\ PrepareBlock(state, block) \in Prepares(ShownBlocks) /\ DataIn(block) \in Seq(AllData)
           /\ \E x \in ShownBlocks : HasBlock(PrepareBlock(state, block), state, DataIn(block), x)
<1>0. PICK after, data, content, taken, a :
          /\ after = PrepareBlock(state, block) /\ data = DataIn(block)
          /\ content = state.content /\ taken = state.images /\ a = Len(taken)
  OBVIOUS
<1>1. content \in Seq(ShownBlocks) /\ taken \in Seq(STRING)
  BY <1>0 DEF Prepares
<1>2. a \in Nat
  BY <1>0, <1>1, LenProperties
<1>3. ShownParts \subseteq ShownBlocks
  BY DEF ShownBlocks
<1>4. ASSUME NEW part \in Parts PROVE DataOf(part) \in AllData
  BY DEF Parts, DataOf, AllData
<1>5. CASE block \in Parts
  <2>1. block.type # "tool_result"
    BY <1>5 DEF Parts
  <2>2. after = PrepareImage(state, block)
    BY <1>0, <2>1 DEF PrepareBlock
  <2>3. PICK d : d = DataOf(block)
    OBVIOUS
  <2>4. data = <<d>> /\ d \in AllData
    BY <1>0, <1>4, <1>5, <2>1, <2>3 DEF DataIn
  <2>5. data \in Seq(AllData)
    BY <2>4
  <2>6. after \in Prepares(ShownBlocks) /\ \E x \in ShownParts : HasPart(after, state, d, x)
    BY <1>3, <1>5, <2>2, <2>3, PartPrepared
  <2>7. PICK x \in ShownParts : HasPart(after, state, d, x)
    BY <2>6
  <2>8. NumbersOn(x) = NumberOn(x)
    <3>1. x.type # "tool_result"
      BY DEF ShownParts
    <3> QED BY <3>1 DEF NumbersOn
  <2>9. Selected(data, Given) = IF d \in Given THEN <<d>> ELSE <<>>
    BY <2>4, SelectedOne
  <2>10. CASE d \in Given /\ after.images = Append(taken, d) /\ NumberOn(x) = <<a + 1>>
    <3>1. d \in STRING
      BY <2>10 DEF Given
    <3>2. after.images = taken \o <<d>>
      <4>1. Append(taken, d) = taken \o <<d>>
        BY <1>1, <3>1, AppendIsConcat
      <4> QED BY <2>10, <4>1
    <3>3. Len(after.images) = a + 1
      <4>1. Len(Append(taken, d)) = Len(taken) + 1
        BY <1>1, <3>1, AppendProperties
      <4> QED BY <1>0, <2>10, <4>1
    <3>4. Span(a, a + 1) = <<a + 1>>
      BY <1>2, SpanOne
    <3>5. Selected(data, Given) = <<d>>
      BY <2>9, <2>10
    <3>6. after.images = state.images \o Selected(data, Given)
      BY <1>0, <3>2, <3>5
    <3>7. NumbersOn(x) = Span(Len(state.images), Len(after.images)) /\ Len(state.images) <= Len(after.images)
      BY <1>0, <1>2, <2>8, <2>10, <3>3, <3>4
    <3>8. HasBlock(after, state, data, x)
      BY <2>7, <3>6, <3>7 DEF HasPart, HasBlock
    <3> QED BY <1>0, <1>3, <2>5, <2>6, <3>8
  <2>11. CASE d = NoData /\ after.images = taken /\ NumberOn(x) = <<>>
    <3>1. Selected(data, Given) = <<>>
      BY <2>9, <2>11 DEF Given
    <3>2. taken \o <<>> = taken
      BY <1>1, ConcatEmptySeq
    <3>3. Span(a, a) = <<>>
      BY <1>2, SpanFacts
    <3>4. after.images = state.images \o Selected(data, Given)
      BY <1>0, <2>11, <3>1, <3>2
    <3>5. NumbersOn(x) = Span(Len(state.images), Len(after.images)) /\ Len(state.images) <= Len(after.images)
      BY <1>0, <1>2, <2>8, <2>11, <3>3
    <3>6. HasBlock(after, state, data, x)
      BY <2>7, <3>4, <3>5 DEF HasPart, HasBlock
    <3> QED BY <1>0, <1>3, <2>5, <2>6, <3>6
  <2> QED BY <1>0, <2>7, <2>10, <2>11 DEF HasPart
<1>6. CASE block \in [type : {"tool_result"}, content : Seq(Parts)]
  <2>1. PICK parts : parts = block.content
    OBVIOUS
  <2>2. block.type = "tool_result" /\ parts \in Seq(Parts)
    BY <1>6, <2>1
  <2>3. PICK in : in = PrepareParts(parts, taken)
    OBVIOUS
  <2>4. data = [j \in DOMAIN parts |-> DataOf(parts[j])]
    BY <1>0, <2>1, <2>2 DEF DataIn
  <2>5. data \in Seq(AllData)
    <3>1. Len(parts) \in Nat /\ DOMAIN parts = 1..Len(parts) /\ \A j \in 1..Len(parts) : parts[j] \in Parts
      BY <2>2, LenProperties, ElementOfSeq
    <3>2. data \in [1..Len(parts) -> AllData]
      BY <1>4, <2>4, <3>1
    <3> QED BY <3>1, <3>2, ListTyped
  <2>6. /\ in \in States /\ in.images = taken \o Selected(data, Given)
        /\ Len(taken) <= Len(in.images)
        /\ NumbersIn(in.content) = Span(Len(taken), Len(in.images))
    BY <1>1, <2>2, <2>3, <2>4, PartsPrepared
  <2>7. PICK c, i : c = in.content /\ i = in.images
    OBVIOUS
  <2>8. c \in Seq(ShownParts) /\ i \in Seq(STRING)
    BY <2>6, <2>7 DEF States, Prepares
  <2>9. PICK x : x = [type |-> "tool_result", content |-> c]
    OBVIOUS
  <2>10. x \in ShownBlocks /\ NumbersOn(x) = NumbersIn(c)
    BY <2>8, <2>9 DEF ShownBlocks, NumbersOn
  <2>11. after = [content |-> Append(content, x), images |-> i]
    BY <1>0, <2>1, <2>2, <2>3, <2>7, <2>9 DEF PrepareBlock, Result
  <2>12. PICK more : more = Append(content, x)
    OBVIOUS
  <2>13. more \in Seq(ShownBlocks)
    BY <1>1, <2>10, <2>12, AppendProperties
  <2>14. after = [content |-> more, images |-> i]
    BY <2>11, <2>12
  <2>15. after.content = more /\ after.images = i /\ after \in Prepares(ShownBlocks)
    BY <2>8, <2>13, <2>14 DEF Prepares
  <2>16. HasBlock(after, state, data, x)
    BY <1>0, <2>6, <2>7, <2>10, <2>12, <2>15 DEF HasBlock
  <2> QED BY <1>0, <2>5, <2>10, <2>15, <2>16
<1> QED BY <1>5, <1>6 DEF Blocks

BlockAfter(before, content, n) ==
    IF n = 0 THEN [content |-> <<>>, images |-> <<>>] ELSE PrepareBlock(before[n - 1], content[n])

IsMessage(g, content, L) == g = [n \in 0..L |-> BlockAfter(g, content, n)]

LEMMA MessageExists ==
    ASSUME NEW content, NEW L \in Nat
    PROVE  \E g : IsMessage(g, content, L)
<1> DEFINE T == {l \in Nat : \E g : IsMessage(g, content, l)}
<1>1. 0 \in T
  <2> DEFINE g == [n \in 0..0 |-> [content |-> <<>>, images |-> <<>>]]
  <2>1. IsMessage(g, content, 0)
    BY DEF IsMessage, BlockAfter
  <2> HIDE DEF g
  <2> QED BY <2>1
<1>2. ASSUME NEW l \in Nat, l \in T PROVE l + 1 \in T
  <2>1. PICK g : IsMessage(g, content, l)
    BY <1>2
  <2> DEFINE k == [n \in 0..(l + 1) |-> IF n = l + 1 THEN BlockAfter(g, content, n) ELSE g[n]]
  <2>2. ASSUME NEW n \in 0..(l + 1) PROVE k[n] = BlockAfter(k, content, n)
    <3>1. n # 0 => k[n - 1] = g[n - 1]
      OBVIOUS
    <3>2. BlockAfter(k, content, n) = BlockAfter(g, content, n)
      BY <3>1 DEF BlockAfter
    <3>3. n # l + 1 => g[n] = BlockAfter(g, content, n)
      BY <2>1 DEF IsMessage
    <3> QED BY <3>2, <3>3
  <2>3. IsMessage(k, content, l + 1)
    BY <2>2 DEF IsMessage
  <2> HIDE DEF k
  <2>4. l + 1 \in Nat
    OBVIOUS
  <2> QED BY <2>3, <2>4
<1> HIDE DEF T
<1>3. Nat \subseteq T
  BY <1>1, <1>2, NatSetInduction
<1> QED BY <1>3 DEF T

LEMMA MessageSteps ==
    ASSUME NEW content, Len(content) \in Nat
    PROVE  /\ PreparedUpTo(content)[0] = [content |-> <<>>, images |-> <<>>]
           /\ \A n \in 1..Len(content) :
                 PreparedUpTo(content)[n] = PrepareBlock(PreparedUpTo(content)[n - 1], content[n])
<1> DEFINE g == CHOOSE f : IsMessage(f, content, Len(content))
<1>1. PreparedUpTo(content) = g
  BY Zenon DEF PreparedUpTo, IsMessage, BlockAfter
<1>2. \E f : IsMessage(f, content, Len(content))
  BY MessageExists
<1>3. IsMessage(g, content, Len(content))
  BY <1>2, Zenon
<1> HIDE DEF g
<1>4. \A n \in 0..Len(content) : g[n] = BlockAfter(g, content, n)
  BY <1>3 DEF IsMessage
<1>5. g[0] = [content |-> <<>>, images |-> <<>>]
  BY <1>4 DEF BlockAfter
<1>6. ASSUME NEW n \in 1..Len(content) PROVE g[n] = PrepareBlock(g[n - 1], content[n])
  <2>1. n \in 0..Len(content) /\ n # 0
    OBVIOUS
  <2> QED BY <2>1, <1>4 DEF BlockAfter
<1> QED BY <1>1, <1>5, <1>6

\* The visual loop's message has no image; the images are those that can be
\* read, and the labels count them.
LEMMA MessagePrepared ==
    ASSUME NEW content \in Seq(Blocks), NEW prepared, prepared = Prepared(content)
    PROVE  /\ prepared.images = Readable(content)
           /\ ~HasImage(prepared.content)
           /\ Labels(prepared.content) = [k \in DOMAIN prepared.images |-> k]
<1>1. PICK L, seqs : L = Len(content) /\ seqs = [i \in DOMAIN content |-> DataIn(content[i])]
  OBVIOUS
<1>2. L \in Nat /\ DOMAIN content = 1..L /\ \A n \in 1..L : content[n] \in Blocks
  BY <1>1, LenProperties, ElementOfSeq
<1>3. PICK none : none = [content |-> <<>>, images |-> <<>>]
  OBVIOUS
<1>4. none \in Prepares(ShownBlocks) /\ none.content = <<>> /\ none.images = <<>>
  <2>1. <<>> \in Seq(ShownBlocks) /\ <<>> \in Seq(STRING)
    OBVIOUS
  <2> QED BY <1>3, <2>1 DEF Prepares
<1>5. seqs \in Seq(Seq(AllData)) /\ Len(seqs) = L /\ \A n \in 1..L : seqs[n] = DataIn(content[n])
  <2>1. \A n \in 1..L : DataIn(content[n]) \in Seq(AllData)
    BY <1>2, <1>4, BlockPrepared
  <2>2. seqs \in [1..L -> Seq(AllData)]
    BY <1>1, <1>2, <2>1
  <2> QED BY <1>1, <1>2, <2>2, ListTyped
<1>6. PICK h : /\ h[0] = <<>> /\ FlattenSeq(seqs) = h[L]
               /\ \A n \in 0..L : h[n] \in Seq(AllData)
               /\ \A n \in 1..L : h[n] = h[n - 1] \o seqs[n]
  <2>1. \E h : /\ h[0] = <<>> /\ FlattenSeq(seqs) = h[Len(seqs)]
               /\ \A n \in 0..Len(seqs) : h[n] \in Seq(AllData)
               /\ \A n \in 1..Len(seqs) : h[n] = h[n - 1] \o seqs[n]
    BY <1>5, FlattenSteps
  <2> QED BY <1>5, <2>1
<1> DEFINE f == PreparedUpTo(content)
<1>7. f[0] = none /\ \A n \in 1..L : f[n] = PrepareBlock(f[n - 1], content[n])
  BY <1>1, <1>2, <1>3, MessageSteps
<1>8. prepared = f[L]
  BY <1>1 DEF Prepared
<1> HIDE DEF f
<1> DEFINE T == {n \in 0..L :
                   /\ f[n] \in Prepares(ShownBlocks)
                   /\ f[n].images = Selected(h[n], Given)
                   /\ Labels(f[n].content) = Span(0, Len(f[n].images))}
<1>9. 0 \in T
  <2>1. Labels(<<>>) = <<>>
    <3>1. <<>> \in Seq(ShownBlocks)
      OBVIOUS
    <3> QED BY <3>1, LabelsMap, FlatMapNone
  <2>2. Span(0, 0) = <<>> /\ Len(<<>>) = 0
    BY SpanFacts
  <2>3. Selected(h[0], Given) = <<>>
    BY <1>6, SelectedNone
  <2>4. 0 \in 0..L /\ f[0] = none
    BY <1>2, <1>7
  <2>5. Labels(f[0].content) = Span(0, Len(f[0].images))
    BY <1>4, <2>1, <2>2, <2>4
  <2> QED BY <1>4, <2>3, <2>4, <2>5
<1>10. ASSUME NEW n \in 0..(L - 1), n \in T PROVE n + 1 \in T
  <2>1. PICK m : m = n + 1
    OBVIOUS
  <2>2. m \in 1..L /\ m \in 0..L /\ m - 1 = n
    BY <1>2, <2>1
  <2>3. PICK state, after, block, data : /\ state = f[n] /\ after = f[m]
                                         /\ block = content[m] /\ data = DataIn(block)
    OBVIOUS
  <2>4. /\ state \in Prepares(ShownBlocks) /\ state.images = Selected(h[n], Given)
        /\ Labels(state.content) = Span(0, Len(state.images))
    BY <1>10, <2>3
  <2>5. after = PrepareBlock(state, block) /\ block \in Blocks
    BY <1>2, <1>7, <2>2, <2>3
  <2>6. /\ after \in Prepares(ShownBlocks) /\ data \in Seq(AllData)
        /\ \E x \in ShownBlocks : HasBlock(after, state, data, x)
    BY <2>3, <2>4, <2>5, BlockPrepared
  <2>7. PICK x \in ShownBlocks : HasBlock(after, state, data, x)
    BY <2>6
  <2>8. PICK a, b, c : a = Len(state.images) /\ b = Len(after.images) /\ c = state.content
    OBVIOUS
  <2>9. a \in Nat /\ b \in Nat /\ a <= b /\ c \in Seq(ShownBlocks)
    <3>1. PICK i, j : i = state.images /\ j = after.images
      OBVIOUS
    <3>2. i \in Seq(STRING) /\ j \in Seq(STRING) /\ c \in Seq(ShownBlocks)
      BY <2>4, <2>6, <2>8, <3>1 DEF Prepares
    <3>3. Len(i) \in Nat /\ Len(j) \in Nat
      BY <3>2, LenProperties
    <3> QED BY <2>7, <2>8, <3>1, <3>2, <3>3 DEF HasBlock
  <2>10. after.content = Append(c, x) /\ NumbersOn(x) = Span(a, b)
    BY <2>7, <2>8 DEF HasBlock
  <2>11. Labels(after.content) = Span(0, b)
    <3>1. Labels(Append(c, x)) = Labels(c) \o NumbersOn(x)
      BY <2>9, LabelsAppend
    <3>2. Labels(c) = Span(0, a)
      BY <2>4, <2>8
    <3>3. Span(0, a) \o Span(a, b) = Span(0, b)
      <4>1. 0 \in Nat /\ 0 <= a
        BY <2>9
      <4> QED BY <2>9, <4>1, SpanJoins
    <3> QED BY <2>10, <3>1, <3>2, <3>3
  <2>12. after.images = Selected(h[m], Given)
    <3>1. PICK p : p = h[n]
      OBVIOUS
    <3>2. p \in Seq(AllData)
      <4>1. n \in 0..L
        BY <1>2
      <4> QED BY <1>6, <3>1, <4>1
    <3>3. h[m] = p \o data
      BY <1>5, <1>6, <2>2, <2>3, <3>1
    <3>4. Selected(p \o data, Given) = Selected(p, Given) \o Selected(data, Given)
      BY <2>6, <3>2, SelectedConcat
    <3>5. after.images = Selected(p, Given) \o Selected(data, Given)
      BY <2>4, <2>7, <3>1 DEF HasBlock
    <3> QED BY <3>3, <3>4, <3>5
  <2> QED BY <2>1, <2>2, <2>3, <2>6, <2>8, <2>11, <2>12
<1>11. L \in T
  <2> HIDE DEF T
  <2>1. 0..L \subseteq T
    BY <1>2, <1>9, <1>10, UpToInduction
  <2> QED BY <1>2, <2>1
<1>12. PICK c, i : c = prepared.content /\ i = prepared.images
  OBVIOUS
<1>13. /\ c \in Seq(ShownBlocks) /\ i \in Seq(STRING) /\ i = Selected(h[L], Given)
       /\ Labels(c) = Span(0, Len(i))
  BY <1>8, <1>11, <1>12 DEF Prepares
<1>14. i = Readable(content)
  BY <1>1, <1>6, <1>13 DEF Readable, Given
<1>15. ~HasImage(c)
  BY <1>13, NoImageShown
<1>16. Labels(c) = [k \in DOMAIN i |-> k]
  <2>1. DOMAIN i = 1..Len(i) /\ Len(i) \in Nat
    BY <1>13, LenProperties
  <2>2. PICK m : m = Len(i)
    OBVIOUS
  <2>3. m - 0 = m /\ \A k \in 1..m : 0 + k = k
    BY <2>1, <2>2
  <2>4. Span(0, m) = [k \in 1..m |-> k]
    BY <2>3 DEF Span
  <2> QED BY <1>13, <2>1, <2>2, <2>4
<1> QED BY <1>12, <1>14, <1>15, <1>16

---------------------------------------------------------------------------
(* What the visual tools look at *)

\* The labels the model reads name the images the client sent.
Pictured ==
    loop = "visual" =>
        /\ ~HasImage(sent) /\ images = Readable(setting.content)
        /\ Labels(sent) = [k \in DOMAIN images |-> k]

Numbered(rounds) ==
    \A r \in 1..Len(rounds) : \A i \in 1..Len(rounds[r].calls) : rounds[r].calls[i].id = <<r, i>>

\* A run is that of one call, and looked at what the call names.
LooksAt(pictures, call, run) ==
    /\ run.id = call.id
    /\ (call.tool \in VisualTools /\ call.ref \in DOMAIN pictures) =>
          run.looked = <<pictures[call.ref]>>

RunOf(pictures, rounds, run) ==
    \E r \in 1..Len(rounds) : \E i \in 1..Len(rounds[r].calls) :
        LooksAt(pictures, rounds[r].calls[i], run)

Looking ==
    /\ Pictured
    /\ loop = "visual" => Numbered(asked) /\ \A j \in 1..Len(ran) : RunOf(images, asked, ran[j])

LEMMA AppendAny ==
    ASSUME NEW S, NEW s \in Seq(S), NEW x, NEW u, u = Append(s, x)
    PROVE  /\ Len(s) \in Nat /\ Len(u) = Len(s) + 1 /\ u[Len(s) + 1] = x
           /\ \A i \in 1..Len(s) : u[i] = s[i]
<1>1. PICK T, n : T = S \union {x} /\ n = Len(s)
  OBVIOUS
<1>2. n \in Nat /\ DOMAIN s = 1..n /\ (\A i \in 1..n : s[i] \in S) /\ s = [i \in 1..n |-> s[i]]
  BY <1>1, LenProperties, ElementOfSeq
<1>3. s \in [1..n -> T] /\ x \in T
  BY <1>1, <1>2
<1>4. s \in Seq(T)
  BY <1>2, <1>3, ListTyped
<1> QED BY <1>1, <1>2, <1>3, <1>4, AppendProperties

LEMMA ConcatAny ==
    ASSUME NEW S, NEW T, NEW s \in Seq(S), NEW t \in Seq(T), NEW u, u = s \o t
    PROVE  /\ Len(s) \in Nat /\ Len(t) \in Nat /\ Len(u) = Len(s) + Len(t)
           /\ \A i \in 1..(Len(s) + Len(t)) : u[i] = IF i <= Len(s) THEN s[i] ELSE t[i - Len(s)]
<1>1. PICK V, m, n : V = S \union T /\ m = Len(s) /\ n = Len(t)
  OBVIOUS
<1>2. m \in Nat /\ (\A i \in 1..m : s[i] \in S) /\ s = [i \in 1..m |-> s[i]]
  BY <1>1, LenProperties, ElementOfSeq
<1>3. n \in Nat /\ (\A i \in 1..n : t[i] \in T) /\ t = [i \in 1..n |-> t[i]]
  BY <1>1, LenProperties, ElementOfSeq
<1>4. s \in [1..m -> V] /\ t \in [1..n -> V]
  BY <1>1, <1>2, <1>3
<1>5. s \in Seq(V) /\ t \in Seq(V)
  BY <1>2, <1>3, <1>4, ListTyped
<1>6. /\ Len(s \o t) = Len(s) + Len(t)
      /\ \A i \in 1..(Len(s) + Len(t)) : (s \o t)[i] = IF i <= Len(s) THEN s[i] ELSE t[i - Len(s)]
  BY <1>5, ConcatProperties
<1> QED BY <1>1, <1>2, <1>3, <1>6

\* The calls of a round carry its number and their own.
LEMMA WrittenNumbered ==
    ASSUME NEW arguments, NEW calls \in Written(arguments)
    PROVE  \E n \in 0..MaxCalls :
              /\ calls = [i \in 1..n |-> calls[i]]
              /\ \A i \in 1..n : calls[i].id = <<Len(asked) + 1, i>>
<1> DEFINE Picks == {p \in Offered(setting) \X arguments \X (0 .. Len(images) + 1) : p[3] \in Refs(p[1])}
<1>0. PICK n \in 0..MaxCalls :
          calls \in {[i \in 1..n |-> Call(i, pick[i][1], pick[i][2], pick[i][3])] : pick \in [1..n -> Picks]}
  BY Zenon DEF Written
<1>1. PICK pick \in [1..n -> Picks] :
          calls = [i \in 1..n |-> Call(i, pick[i][1], pick[i][2], pick[i][3])]
  BY <1>0
<1>2. ASSUME NEW i \in 1..n PROVE calls[i].id = <<Len(asked) + 1, i>>
  <2>1. PICK a, b, c : a = pick[i][1] /\ b = pick[i][2] /\ c = pick[i][3]
    OBVIOUS
  <2>2. calls[i] = Call(i, a, b, c)
    BY <1>1, <2>1
  <2> QED BY <2>2 DEF Call
<1>3. calls = [i \in 1..n |-> calls[i]]
  BY <1>1
<1> QED BY <1>2, <1>3

LEMMA DispatchLooks ==
    ASSUME IInv, IInv', Dispatch
    PROVE  Looking'
<1>1. setting' = setting /\ asked' = asked /\ ran' = ran /\ phase = "start"
  BY DEF Dispatch
<1>2. setting.content \in Seq(Blocks)
  BY SettingsAssumption DEF IInv, Typed
<1>3. PICK prepared : prepared = Prepared(setting.content)
  OBVIOUS
<1>4. loop' = "visual" => sent' = prepared.content /\ images' = prepared.images
  BY <1>3 DEF Dispatch
<1>5. /\ prepared.images = Readable(setting.content)
      /\ ~HasImage(prepared.content)
      /\ Labels(prepared.content) = [k \in DOMAIN prepared.images |-> k]
  BY <1>2, <1>3, MessagePrepared
<1>6. Pictured'
  BY <1>1, <1>4, <1>5 DEF Pictured
<1>7. asked = <<>> /\ ran = <<>>
  BY <1>1 DEF IInv, Paced
<1>8. Len(asked') = 0 /\ Len(ran') = 0
  BY <1>1, <1>7
<1>9. Numbered(asked') /\ \A j \in 1..Len(ran') : RunOf(images', asked', ran'[j])
  BY <1>8 DEF Numbered
<1> QED BY <1>6, <1>9 DEF Looking

\* The images stay as they are while the upstream is asked.
LEMMA PicturesStay ==
    ASSUME Looking, UNCHANGED <<setting, loop, sent, images>>
    PROVE  Pictured'
BY DEF Looking, Pictured

LEMMA AnswerLooks ==
    ASSUME IInv, Looking, AnswerWhole
    PROVE  Looking'
<1>1. PICK calls \in Written({[text |-> <<>>, cut |-> <<>>]}) : Answers(calls, calls)
  BY Zenon DEF AnswerWhole
<1>2. PICK stop \in Stops(calls), tokens \in Costs :
          Answer([calls |-> calls, stop |-> stop, tokens |-> tokens], calls)
  BY <1>1, Zenon DEF Answers
<1>3. PICK answer : answer = [calls |-> calls, stop |-> stop, tokens |-> tokens]
  OBVIOUS
<1>4. answer.calls = calls /\ Answer(answer, calls)
  BY <1>2, <1>3
<1>5. PICK round : round = [calls |-> calls, stop |-> answer.stop, tokens |-> answer.tokens]
  OBVIOUS
<1>6. /\ asked' = Append(asked, round) /\ UNCHANGED <<setting, loop, sent, images>>
      /\ round.calls = calls
  BY <1>4, <1>5 DEF Answer
<1>7. Pictured'
  BY <1>6, PicturesStay
<1>8. CASE loop # "visual"
  BY <1>6, <1>7, <1>8 DEF Looking
<1>9. CASE loop = "visual"
  <2>1. ran' = ran \/ Run(calls)
    <3>1. VisualRound(answer)
      BY <1>4, <1>9 DEF Answer, Direct, SearchMessages, SearchCalls
    <3> QED BY <1>4, <3>1 DEF VisualRound, AskAgain, Return
  <2>2. PICK n \in 0..MaxCalls : /\ calls = [i \in 1..n |-> calls[i]]
                                 /\ \A i \in 1..n : calls[i].id = <<Len(asked) + 1, i>>
    BY <1>1, WrittenNumbered
  <2>3. PICK S : S = {calls[i] : i \in 1..n}
    OBVIOUS
  <2>4. calls \in Seq(S) /\ Len(calls) = n /\ n \in Nat
    <3>1. n \in Nat
      BY MaxCallsAssumption
    <3>2. calls \in [1..n -> S]
      BY <2>2, <2>3
    <3> QED BY <3>1, <3>2, ListTyped
  <2>5. PICK m : m = Len(asked)
    OBVIOUS
  <2>6. /\ m \in Nat /\ Len(asked') = m + 1 /\ asked'[m + 1] = round
        /\ \A r \in 1..m : asked'[r] = asked[r]
    <3>1. asked \in Seq(Rounds)
      BY DEF IInv, Typed
    <3> QED BY <1>6, <2>5, <3>1, AppendAny
  <2>7. Numbered(asked')
    <3>1. ASSUME NEW r \in 1..Len(asked'), NEW i \in 1..Len(asked'[r].calls)
          PROVE  asked'[r].calls[i].id = <<r, i>>
      <4>1. CASE r = m + 1
        <5>1. asked'[r].calls = calls
          BY <1>6, <2>6, <4>1
        <5>2. calls[i].id = <<m + 1, i>>
          BY <2>2, <2>4, <2>5, <3>1, <5>1
        <5> QED BY <4>1, <5>1, <5>2
      <4>2. CASE r # m + 1
        <5>1. r \in 1..m /\ asked'[r] = asked[r]
          BY <2>6, <4>2
        <5>2. Numbered(asked)
          BY <1>9 DEF Looking
        <5> QED BY <2>5, <3>1, <5>1, <5>2 DEF Numbered
      <4> QED BY <4>1, <4>2
    <3> QED BY <3>1 DEF Numbered
  <2>8. ASSUME NEW run, RunOf(images, asked, run)
        PROVE  RunOf(images', asked', run)
    <3>1. PICK r \in 1..m : \E i \in 1..Len(asked[r].calls) : LooksAt(images, asked[r].calls[i], run)
      BY <2>5, <2>8 DEF RunOf
    <3>2. r \in 1..Len(asked') /\ asked'[r] = asked[r] /\ images' = images
      BY <1>6, <2>6
    <3> QED BY <3>1, <3>2 DEF RunOf
  <2>9. \A j \in 1..Len(ran) : RunOf(images', asked', ran[j])
    BY <1>9, <2>8 DEF Looking
  <2>10. CASE ran' = ran
    BY <1>7, <2>7, <2>9, <2>10 DEF Looking
  <2>11. CASE Run(calls)
    <3>1. PICK ours : ours = OursBy(loop, calls)
      OBVIOUS
    <3>2. PICK more : more = [i \in DOMAIN ours |-> Execution(ours[i])]
      OBVIOUS
    <3>3. ours = Ours(calls)
      BY <3>1, Chosen
    <3>4. ran' = ran \o more
      BY <2>11, <3>2, <3>3, Zenon DEF Run
    <3>5. ours \in Seq(S) /\ \A k \in 1..Len(ours) : \E i \in 1..Len(calls) : ours[k] = calls[i]
      <4>1. PICK A : A = {c \in ToSet(calls) : c.tool \in ServedBy(loop)}
        OBVIOUS
      <4>2. ours = Selected(calls, A)
        BY <3>1, <4>1 DEF OursBy
      <4>3. /\ Selected(calls, A) \in Seq(S)
            /\ \A k \in 1..Len(Selected(calls, A)) : \E i \in 1..Len(calls) : Selected(calls, A)[k] = calls[i]
        BY <2>4, SelectedFacts
      <4> QED BY <4>2, <4>3
    <3>6. Len(ours) \in Nat /\ DOMAIN ours = 1..Len(ours)
      BY <3>5, LenProperties
    <3>7. PICK V : V = {more[k] : k \in 1..Len(ours)}
      OBVIOUS
    <3>8. more \in Seq(V) /\ Len(more) = Len(ours)
      <4>1. more \in [1..Len(ours) -> V]
        BY <3>2, <3>6, <3>7
      <4> QED BY <3>6, <4>1, ListTyped
    <3>9. ran \in Seq(Executions)
      BY DEF IInv, Typed
    <3>10. /\ Len(ran) \in Nat /\ Len(ran') = Len(ran) + Len(ours)
           /\ \A j \in 1..(Len(ran) + Len(ours)) : ran'[j] = IF j <= Len(ran) THEN ran[j] ELSE more[j - Len(ran)]
      <4>1. /\ Len(ran) \in Nat /\ Len(ran') = Len(ran) + Len(more)
            /\ \A j \in 1..(Len(ran) + Len(more)) : ran'[j] = IF j <= Len(ran) THEN ran[j] ELSE more[j - Len(ran)]
        <5>1. PICK u, s, E : u = ran' /\ s = ran /\ E = Executions
          OBVIOUS
        <5>2. u = s \o more /\ s \in Seq(E)
          BY <3>4, <3>9, <5>1
        <5>3. PICK t : t = more
          OBVIOUS
        <5>4. t \in Seq(V) /\ s \in Seq(E) /\ u = s \o t
          BY <3>8, <5>2, <5>3
        <5>5. /\ Len(s) \in Nat /\ Len(u) = Len(s) + Len(t)
              /\ \A j \in 1..(Len(s) + Len(t)) : u[j] = IF j <= Len(s) THEN s[j] ELSE t[j - Len(s)]
          BY <5>4, ConcatAny
        <5> QED BY <5>1, <5>3, <5>5
      <4> QED BY <3>8, <4>1
    <3>11. ASSUME NEW k \in 1..Len(ours) PROVE RunOf(images', asked', more[k])
      <4>1. PICK i \in 1..Len(calls) : ours[k] = calls[i]
        BY <3>5
      <4>2. PICK call, run : call = calls[i] /\ run = Execution(call)
        OBVIOUS
      <4>3. more[k] = run
        BY <3>2, <3>6, <4>1, <4>2
      <4>4. LooksAt(images, call, run)
        BY <4>2 DEF LooksAt, Execution, Looked
      <4>5. m + 1 \in 1..Len(asked') /\ asked'[m + 1].calls = calls /\ images' = images
        BY <1>6, <2>6
      <4> QED BY <4>1, <4>2, <4>3, <4>4, <4>5 DEF RunOf
    <3>12. ASSUME NEW j \in 1..Len(ran') PROVE RunOf(images', asked', ran'[j])
      <4>1. CASE j <= Len(ran)
        <5>1. j \in 1..Len(ran) /\ ran'[j] = ran[j]
          BY <3>6, <3>10, <4>1
        <5> QED BY <2>9, <5>1
      <4>2. CASE ~(j <= Len(ran))
        <5>1. PICK k : k = j - Len(ran)
          OBVIOUS
        <5>2. k \in 1..Len(ours) /\ ran'[j] = more[k]
          BY <3>6, <3>10, <4>2, <5>1
        <5> QED BY <3>11, <5>2
      <4> QED BY <4>1, <4>2
    <3> QED BY <1>7, <2>7, <3>12 DEF Looking
  <2> QED BY <2>1, <2>10, <2>11
<1> QED BY <1>8, <1>9

LEMMA OthersLook ==
    ASSUME Looking, AnswerStreamed \/ UpstreamFails \/ UNCHANGED vars
    PROVE  Looking'
<1>1. CASE AnswerStreamed
  <2>1. loop = "chat stream"
    BY <1>1 DEF AnswerStreamed
  <2>2. loop' = loop
    <3>1. ASSUME NEW taken, NEW told, Answers(taken, told) PROVE loop' = loop
      BY <3>1 DEF Answers, Answer
    <3>2. \E taken, told : Answers(taken, told)
      BY <1>1, Zenon DEF AnswerStreamed
    <3> QED BY <3>1, <3>2
  <2> QED BY <2>1, <2>2 DEF Looking, Pictured
<1>2. CASE UpstreamFails \/ UNCHANGED vars
  <2>1. UNCHANGED <<setting, loop, sent, images, asked, ran>>
    BY <1>2 DEF UpstreamFails, vars
  <2>2. Pictured'
    BY <2>1, PicturesStay
  <2> QED BY <2>1, <2>2 DEF Looking
<1> QED BY <1>1, <1>2

---------------------------------------------------------------------------
(* The theorems *)

\* The inductive invariant holds, for any settings, rounds and calls.
THEOREM Invariant == Spec => []IInv
<1>1. Init => IInv
  BY InitHolds
<1>2. IInv /\ [Next]_vars => IInv'
  BY DispatchKeeps, AnswerWholeKeeps, AnswerStreamedKeeps, UpstreamFailsKeeps, StutterKeeps DEF Next
<1> QED BY <1>1, <1>2, PTL DEF Spec

\* A request takes no more turns than it may, and is done when it came to something.
THEOREM TypeCorrect == Spec => []TypeOK
<1>1. IInv => TypeOK
  <2>1. ASSUME IInv PROVE TypeOK
    <3>1. /\ outcome.kind \in {"none", "answer", "exceeded", "error"} /\ outcome.usage \in Nat
          /\ spent.tokens \in Nat
      BY <2>1 DEF IInv, Typed, Outcomes, Usages
    <3>2. Len(turns) <= setting.rounds
      <4>1. Len(turns) \in Nat /\ Len(asked) \in Nat /\ setting.rounds \in Nat
        BY <2>1, LenProperties, SettingsAssumption DEF IInv, Typed
      <4> QED BY <2>1, <4>1 DEF IInv, Paced
    <3> QED BY <2>1, <3>1, <3>2 DEF IInv, Typed, Paced, TypeOK
  <2> QED BY <2>1
<1> QED BY <1>1, Invariant, PTL

\* A request gives up only when every round it had went to calls of its loop, and
\* does not ask again after that.
THEOREM GivesUpInTime == Spec => []RoundsSpent
<1>1. IInv => RoundsSpent
  <2>1. ASSUME IInv PROVE RoundsSpent
    <3>1. DOMAIN asked = 1..Len(asked)
      BY <2>1, LenProperties DEF IInv, Typed
    <3>2. AllDue => \A r \in DOMAIN asked : Due(asked[r]) # <<>>
      BY <3>1, Chosen DEF AllDue
    <3> QED BY <2>1, <3>2 DEF IInv, Paced, RoundsSpent
  <2> QED BY <2>1
<1> QED BY <1>1, Invariant, PTL

\* By whichever exit an answer leaves the visual loop, the usage it shows is the sum
\* of the rounds', those that told none counting nothing.
THEOREM UsageComplete == Spec => []UsageWhole
<1>1. IInv => UsageWhole
  BY DEF IInv, Paid, UsageWhole
<1> QED BY <1>1, Invariant, PTL

\* Each turn holds the model's calls and behind them the results of those that were
\* run; a search loop goes on only from rounds of searches alone; and the client gets
\* the last answer's calls, or those of them that the messages loop does not take out.
THEOREM EachCallAnswered == Spec => []CallsAnswered
<1>1. IInv => CallsAnswered
  <2>1. ASSUME IInv PROVE CallsAnswered
    <3>1. DOMAIN turns = 1..Len(turns)
      BY <2>1, LenProperties DEF IInv, Typed
    <3>2. ResultsFollowCalls
      <4>1. ASSUME NEW r \in DOMAIN turns
            PROVE  /\ IdOf(turns[r].calls) = IdOf(asked[r].calls)
                   /\ turns[r].results = IdOf(Ours(asked[r].calls))
        <5>1. TurnOf(turns[r], loop, asked[r])
          BY <2>1, <3>1 DEF IInv, Followed
        <5>2. Ours(asked[r].calls) = OursBy(loop, asked[r].calls)
          BY Chosen
        <5> QED BY <5>1, <5>2 DEF TurnOf
      <4> QED BY <4>1 DEF ResultsFollowCalls
    <3>3. DOMAIN asked = 1..Len(asked)
      BY <2>1, LenProperties DEF IInv, Typed
    <3>4. SearchRoundsWhole
      <4>1. \A r \in DOMAIN asked : Others(asked[r].calls) = OthersBy(loop, asked[r].calls)
        BY Chosen
      <4> QED BY <2>1, <3>3, <4>1, Zenon DEF IInv, RoundsWhole, SearchRoundsWhole
    <3>5. ClientGetsLast
      <4>1. PICK last : last = asked[Len(asked)]
        OBVIOUS
      <4>2. Ours(last.calls) = OursBy(loop, last.calls) /\ Others(last.calls) = OthersBy(loop, last.calls)
        BY Chosen
      <4>3. outcome.kind = "answer" => GivenOf(outcome.calls, loop, last)
        BY <2>1, <4>1 DEF IInv, Handed
      <4> QED BY <4>1, <4>2, <4>3, Zenon DEF GivenOf, ClientGetsLast, AllOurs
    <3> QED BY <3>2, <3>4, <3>5 DEF CallsAnswered
  <2> QED BY <2>1
<1> QED BY <1>1, Invariant, PTL

\* What is run is what was asked for: in order, once, and with the arguments the
\* model wrote, however their pieces came in.
THEOREM RunsWhatIsAsked == Spec => []RanAsAsked
<1>1. IInv => RanAsAsked
  <2>1. ASSUME IInv PROVE RanAsAsked
    <3>1. PICK due : due = FlattenSeq([r \in DOMAIN asked |-> Due(asked[r])])
      OBVIOUS
    <3>2. due = Dues(loop, asked)
      BY <3>1, Chosen, Zenon DEF Dues
    <3>3. asked \in Seq(Rounds) /\ ran \in Seq(Executions) /\ Alike(loop, ran, due)
      BY <2>1, <3>2 DEF IInv, Typed
    <3>4. due \in Seq(ToldCalls)
      <4>1. PICK x : x = [calls |-> <<>>, stop |-> "end_turn", tokens |-> 0]
        OBVIOUS
      <4>2. x \in Rounds
        BY <4>1 DEF Rounds
      <4> QED BY <3>2, <3>3, <4>2, DuesAppend
    <3>5. DOMAIN ran = 1..Len(ran) /\ DOMAIN due = 1..Len(ran)
      BY <3>3, <3>4, LenProperties DEF Alike
    <3>6. ASSUME NEW i \in DOMAIN ran
          PROVE  /\ ran[i].id = due[i].id /\ ran[i].tool = due[i].tool
                 /\ loop = "chat stream" => (due[i].distinct => ran[i].text = due[i].text)
      BY <3>3, <3>5 DEF Alike, SameCall
    <3>7. IdOf(ran) = IdOf(due) /\ ToolOf(ran) = ToolOf(due)
      BY <3>5, <3>6 DEF IdOf, ToolOf
    <3>8. loop = "chat stream" => \A i \in DOMAIN ran : due[i].distinct => ran[i].text = due[i].text
      BY <3>6
    <3> QED BY <3>1, <3>7, <3>8, Zenon DEF RanAsAsked
  <2> QED BY <2>1
<1> QED BY <1>1, Invariant, PTL

\* A text-only model gets no image but labels, numbered as the images the client
\* sent, and a visual tool looks at the image the call names.
THEOREM ImagesKeepNames == Spec => []ImagesNamed
<1>1. Init => Looking
  BY DEF Init, Looking, Pictured
<1>2. IInv /\ IInv' /\ Looking /\ [Next]_vars => Looking'
  BY DispatchLooks, AnswerLooks, OthersLook DEF Next
<1>3. IInv /\ Looking => ImagesNamed
  <2>1. ASSUME IInv, Looking, loop = "visual" PROVE ImagesNamed
    <3>1. /\ ~HasImage(sent) /\ images = Readable(setting.content)
          /\ Labels(sent) = [k \in DOMAIN images |-> k]
          /\ Numbered(asked) /\ \A j \in 1..Len(ran) : RunOf(images, asked, ran[j])
      BY <2>1 DEF Looking, Pictured
    <3>2. DOMAIN asked = 1..Len(asked) /\ DOMAIN ran = 1..Len(ran)
      BY <2>1, LenProperties DEF IInv, Typed
    <3>3. ASSUME NEW r \in DOMAIN asked, NEW i \in DOMAIN asked[r].calls, NEW j \in DOMAIN ran,
                 asked[r].calls[i].tool \in VisualTools, asked[r].calls[i].ref \in DOMAIN images,
                 ran[j].id = asked[r].calls[i].id
          PROVE  ran[j].looked = <<images[asked[r].calls[i].ref]>>
      <4>1. DOMAIN asked[r].calls = 1..Len(asked[r].calls)
        <5>1. asked[r] \in Rounds
          BY <2>1, <3>2, ElementOfSeq DEF IInv, Typed
        <5>2. PICK c : c = asked[r].calls
          OBVIOUS
        <5>3. c \in Seq(ToldCalls)
          BY <5>1, <5>2 DEF Rounds
        <5> QED BY <5>2, <5>3, LenProperties
      <4>2. asked[r].calls[i].id = <<r, i>>
        BY <3>1, <3>2, <4>1 DEF Numbered
      <4>3. PICK q \in 1..Len(asked) : \E k \in 1..Len(asked[q].calls) :
                LooksAt(images, asked[q].calls[k], ran[j])
        BY <3>1, <3>2 DEF RunOf
      <4>4. PICK k \in 1..Len(asked[q].calls) : LooksAt(images, asked[q].calls[k], ran[j])
        BY <4>3
      <4>5. asked[q].calls[k].id = <<q, k>>
        BY <3>1 DEF Numbered
      <4>6. <<q, k>> = <<r, i>>
        BY <3>3, <4>2, <4>4, <4>5 DEF LooksAt
      <4>7. q = r /\ k = i
        BY <4>6
      <4> QED BY <3>3, <4>4, <4>7 DEF LooksAt
    <3> QED BY <3>1, <3>3 DEF ImagesNamed
  <2>2. loop # "visual" => ImagesNamed
    BY DEF ImagesNamed
  <2> QED BY <2>1, <2>2
<1> QED BY <1>1, <1>2, <1>3, Invariant, PTL DEF Spec
=============================================================================
