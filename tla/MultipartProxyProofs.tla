------------------------ MODULE MultipartProxyProofs ------------------------
(***************************************************************************)
(* MultipartProxy for any pictures that do not contain the boundary, any   *)
(* sizes of the buffers and any chunks: the extractor takes the server's   *)
(* stream apart as it was put together, and the plugin implements          *)
(* PictureRelay.                                                           *)
(*                                                                         *)
(* The lemmas follow the stream: the bytes of the items, the types of the  *)
(* variables, the items that are pending when a byte is taken from them,   *)
(* the extractor in a preamble and in a content, what it does at the end   *)
(* of either, and what the server adds to the stream.                      *)
(***************************************************************************)
EXTENDS MultipartProxy, TLAPS, SequenceTheorems

(* The bytes of two sequences laid end to end.                             *)
LEMMA EndToEnd ==
  ASSUME NEW S, NEW s \in Seq(S), NEW t \in Seq(S)
  PROVE  /\ s \o t \in Seq(S) /\ Len(s \o t) = Len(s) + Len(t)
         /\ \A j \in 1..Len(s) : (s \o t)[j] = s[j]
         /\ \A j \in 1..Len(t) : (s \o t)[Len(s) + j] = t[j]
OBVIOUS

(* A sequence with its first element taken off.                            *)
LEMMA WithoutFirst ==
  ASSUME NEW S, NEW s \in Seq(S), s # <<>>
  PROVE  /\ Head(s) = s[1] /\ s[1] \in S
         /\ Tail(s) \in Seq(S) /\ Len(Tail(s)) = Len(s) - 1
         /\ \A j \in 1..(Len(s) - 1) : Tail(s)[j] = s[j + 1]
OBVIOUS

(* A sequence with an element added at its end.                            *)
LEMMA WithOneMore ==
  ASSUME NEW S, NEW s \in Seq(S), NEW e \in S
  PROVE  /\ Append(s, e) \in Seq(S) /\ Len(Append(s, e)) = Len(s) + 1
         /\ \A j \in 1..Len(s) : Append(s, e)[j] = s[j]
         /\ Append(s, e)[Len(s) + 1] = e
OBVIOUS

(* The beginning of a sequence, which is empty for a negative length.      *)
LEMMA Beginning ==
  ASSUME NEW S, NEW s \in Seq(S), NEW n \in Int, n <= Len(s)
  PROVE  /\ SubSeq(s, 1, n) \in Seq(S)
         /\ n >= 0 => Len(SubSeq(s, 1, n)) = n
         /\ \A j \in 1..n : SubSeq(s, 1, n)[j] = s[j]
OBVIOUS

(* A sequence is its beginning and the rest.                               *)
LEMMA Split ==
  ASSUME NEW S, NEW s \in Seq(S), NEW n \in 0..Len(s)
  PROVE  /\ SubSeq(s, 1, n) \in Seq(S) /\ Len(SubSeq(s, 1, n)) = n
         /\ SubSeq(s, n + 1, Len(s)) \in Seq(S)
         /\ SubSeq(s, 1, n) \o SubSeq(s, n + 1, Len(s)) = s
<1> DEFINE a == SubSeq(s, 1, n)
           b == SubSeq(s, n + 1, Len(s))
<1>1. a \in Seq(S) /\ Len(a) = n /\ \A j \in 1..n : a[j] = s[j]
  OBVIOUS
<1>2. b \in Seq(S) /\ Len(b) = Len(s) - n /\ \A j \in 1..(Len(s) - n) : b[j] = s[n + j]
  OBVIOUS
<1> HIDE DEF a, b
<1>3. a \o b \in Seq(S) /\ Len(a \o b) = Len(s)
  BY <1>1, <1>2, EndToEnd
<1>4. ASSUME NEW j \in 1..Len(s) PROVE (a \o b)[j] = s[j]
  <2>1. CASE j <= n
    BY <1>1, <1>2, <2>1, EndToEnd
  <2>2. CASE j > n
    <3>1. j - n \in 1..Len(b) /\ j = Len(a) + (j - n)
      BY <1>1, <1>2, <2>2
    <3>2. (a \o b)[Len(a) + (j - n)] = b[j - n]
      BY <1>1, <1>2, <3>1, EndToEnd
    <3>3. QED  BY <1>1, <1>2, <2>2, <3>1, <3>2
  <2>3. j <= n \/ j > n
    OBVIOUS
  <2>4. QED  BY <2>1, <2>2, <2>3
<1>5. a \o b = s
  BY <1>3, <1>4, SeqEqual
<1>6. QED  BY <1>1, <1>2, <1>5 DEF a, b

(* Three sequences end to end.                                             *)
LEMMA Associates ==
  ASSUME NEW S, NEW r \in Seq(S), NEW s \in Seq(S), NEW t \in Seq(S)
  PROVE  r \o (s \o t) = (r \o s) \o t
BY ConcatAssociative

(* The fixed parts of the stream.                                          *)
LEMMA Letters ==
  /\ StatusLine \in Seq(Byte) /\ Len(StatusLine) = 4
  /\ LineBreak \in Seq(Byte) /\ Len(LineBreak) = 2
  /\ Boundary \in Seq(Byte) /\ Len(Boundary) = 3
  /\ PartHeader \in Seq(Byte) /\ Len(PartHeader) = 8
  /\ ReplyText \in Seq(Byte) /\ Len(ReplyText) = 3
  /\ Zeros \in Seq(Byte) /\ Len(Zeros) = 4
BY DEF StatusLine, LineBreak, Boundary, PartHeader, ReplyText, Zeros, Byte

(* A text with the line break and the boundary that end it.                *)
LEMMA Ended ==
  ASSUME NEW text \in Seq(Byte)
  PROVE  LET e == text \o LineBreak \o Boundary
         IN  /\ e \in Seq(Byte) /\ Len(e) = Len(text) + 5
             /\ \A j \in 1..Len(text) : e[j] = text[j]
             /\ e[Len(text) + 1] = "cr" /\ e[Len(text) + 2] = "lf"
             /\ e[Len(text) + 3] = "-" /\ e[Len(text) + 4] = "-" /\ e[Len(text) + 5] = "b"
<1> DEFINE a == text \o LineBreak
           e == a \o Boundary
<1>a. LineBreak \in Seq(Byte) /\ Boundary \in Seq(Byte)
  BY Letters
<1>b. Len(LineBreak) = 2 /\ Len(Boundary) = 3
  BY Letters
<1>1. /\ a \in Seq(Byte) /\ Len(a) = Len(text) + 2
      /\ \A j \in 1..Len(text) : a[j] = text[j]
      /\ \A j \in 1..2 : a[Len(text) + j] = LineBreak[j]
  <2>1. a \in Seq(Byte) /\ Len(a) = Len(text) + Len(LineBreak)
    BY <1>a, EndToEnd
  <2>2. \A j \in 1..Len(text) : a[j] = text[j]
    BY <1>a, EndToEnd
  <2>3. \A j \in 1..Len(LineBreak) : a[Len(text) + j] = LineBreak[j]
    BY <1>a, EndToEnd
  <2>4. QED  BY <1>b, <2>1, <2>2, <2>3
<1> HIDE DEF a
<1>2. /\ e \in Seq(Byte) /\ Len(e) = Len(a) + 3
      /\ \A j \in 1..Len(a) : e[j] = a[j]
      /\ \A j \in 1..3 : e[Len(a) + j] = Boundary[j]
  <2>1. e \in Seq(Byte) /\ Len(e) = Len(a) + Len(Boundary)
    BY <1>a, <1>1, EndToEnd
  <2>2. \A j \in 1..Len(a) : e[j] = a[j]
    BY <1>a, <1>1, EndToEnd
  <2>3. \A j \in 1..Len(Boundary) : e[Len(a) + j] = Boundary[j]
    BY <1>a, <1>1, EndToEnd
  <2>4. QED  BY <1>b, <2>1, <2>2, <2>3
<1> HIDE DEF e
<1>3. e[Len(text) + 1] = LineBreak[1] /\ e[Len(text) + 2] = LineBreak[2]
  BY <1>1, <1>2
<1>4. /\ e[Len(a) + 1] = Boundary[1] /\ e[Len(a) + 2] = Boundary[2] /\ e[Len(a) + 3] = Boundary[3]
  BY <1>2
<1>5. /\ e[Len(text) + 3] = Boundary[1] /\ e[Len(text) + 4] = Boundary[2]
      /\ e[Len(text) + 5] = Boundary[3]
  BY <1>1, <1>4
<1>6. \A j \in 1..Len(text) : e[j] = text[j]
  BY <1>1, <1>2
<1>7. /\ LineBreak[1] = "cr" /\ LineBreak[2] = "lf"
      /\ Boundary[1] = "-" /\ Boundary[2] = "-" /\ Boundary[3] = "b"
  BY DEF LineBreak, Boundary
<1>8. e \in Seq(Byte) /\ Len(e) = Len(text) + 5
  BY <1>1, <1>2
<1>9. e = text \o LineBreak \o Boundary
  BY DEF a, e
<1>10. QED  BY <1>3, <1>5, <1>6, <1>7, <1>8, <1>9

(* A text that ends with a boundary, and what comes before and after it.   *)
LEMMA Framed ==
  ASSUME NEW before \in Seq(Byte), NEW text \in Seq(Byte)
  PROVE  LET e == text \o LineBreak \o Boundary
             f == before \o text \o LineBreak \o Boundary \o LineBreak
         IN  /\ f \in Seq(Byte) /\ Len(f) = Len(before) + Len(e) + 2
             /\ \A j \in 1..Len(before) : f[j] = before[j]
             /\ \A j \in 1..Len(e) : f[Len(before) + j] = e[j]
             /\ \A j \in 1..2 : f[Len(before) + Len(e) + j] = LineBreak[j]
<1> DEFINE e == text \o LineBreak \o Boundary
           t == before \o text
           g == t \o LineBreak \o Boundary
           f == g \o LineBreak
<1>1. /\ t \in Seq(Byte) /\ Len(t) = Len(before) + Len(text)
      /\ \A j \in 1..Len(before) : t[j] = before[j]
      /\ \A j \in 1..Len(text) : t[Len(before) + j] = text[j]
  BY EndToEnd
<1> HIDE DEF t
<1>2. /\ g \in Seq(Byte) /\ Len(g) = Len(t) + 5
      /\ \A j \in 1..Len(t) : g[j] = t[j]
      /\ g[Len(t) + 1] = "cr" /\ g[Len(t) + 2] = "lf"
      /\ g[Len(t) + 3] = "-" /\ g[Len(t) + 4] = "-" /\ g[Len(t) + 5] = "b"
  BY <1>1, Ended
<1>3. /\ e \in Seq(Byte) /\ Len(e) = Len(text) + 5
      /\ \A j \in 1..Len(text) : e[j] = text[j]
      /\ e[Len(text) + 1] = "cr" /\ e[Len(text) + 2] = "lf"
      /\ e[Len(text) + 3] = "-" /\ e[Len(text) + 4] = "-" /\ e[Len(text) + 5] = "b"
  BY Ended
<1> HIDE DEF g, e
<1>4. \A j \in 1..Len(before) : g[j] = before[j]
  BY <1>1, <1>2
<1>5. ASSUME NEW j \in 1..Len(e) PROVE g[Len(before) + j] = e[j]
  <2>1. CASE j <= Len(text)
    <3>1. g[Len(before) + j] = t[Len(before) + j]
      BY <1>1, <1>2, <2>1
    <3>2. QED  BY <1>1, <1>3, <2>1, <3>1
  <2>2. CASE j > Len(text)
    <3>1. j \in (Len(text) + 1)..(Len(text) + 5)
      BY <1>3, <2>2
    <3>2. \/ j = Len(text) + 1 \/ j = Len(text) + 2 \/ j = Len(text) + 3
          \/ j = Len(text) + 4 \/ j = Len(text) + 5
      BY <3>1
    <3>3. QED  BY <1>1, <1>2, <1>3, <3>2
  <2>3. j <= Len(text) \/ j > Len(text)
    OBVIOUS
  <2>4. QED  BY <2>1, <2>2, <2>3
<1>6. /\ f \in Seq(Byte) /\ Len(f) = Len(g) + 2
      /\ \A j \in 1..Len(g) : f[j] = g[j]
      /\ \A j \in 1..2 : f[Len(g) + j] = LineBreak[j]
  <2>a. LineBreak \in Seq(Byte)
    BY Letters
  <2>b. Len(LineBreak) = 2
    BY Letters
  <2>1. f \in Seq(Byte) /\ Len(f) = Len(g) + Len(LineBreak)
    BY <1>2, <2>a, EndToEnd
  <2>2. \A j \in 1..Len(g) : f[j] = g[j]
    BY <1>2, <2>a, EndToEnd
  <2>3. \A j \in 1..Len(LineBreak) : f[Len(g) + j] = LineBreak[j]
    BY <1>2, <2>a, EndToEnd
  <2>4. QED  BY <2>b, <2>1, <2>2, <2>3
<1> HIDE DEF f
<1>7. Len(g) = Len(before) + Len(e)
  BY <1>1, <1>2, <1>3
<1>8. /\ f \in Seq(Byte) /\ Len(f) = Len(before) + Len(e) + 2
      /\ \A j \in 1..Len(before) : f[j] = before[j]
      /\ \A j \in 1..2 : f[Len(before) + Len(e) + j] = LineBreak[j]
  BY <1>3, <1>4, <1>6, <1>7
<1>9. \A j \in 1..Len(e) : f[Len(before) + j] = e[j]
  BY <1>3, <1>5, <1>6, <1>7
<1>10. e = text \o LineBreak \o Boundary /\ f = before \o text \o LineBreak \o Boundary \o LineBreak
  BY DEF e, f, g, t
<1>11. QED  BY <1>8, <1>9, <1>10

(* The items of the stream *)

(* What comes before a picture, letter by letter.                          *)
LEMMA BeforePicture ==
  LET a == LineBreak \o PartHeader
  IN  /\ a = <<"cr", "lf", "x", "O", "K", "x", "cr", "lf", "cr", "lf">>
      /\ a \in Seq(Byte) /\ Len(a) = 10
      /\ \A j \in 1..2 : a[j] = LineBreak[j]
      /\ \A j \in 1..8 : a[j + 2] = PartHeader[j]
<1> DEFINE a == LineBreak \o PartHeader
           t == <<"cr", "lf", "x", "O", "K", "x", "cr", "lf", "cr", "lf">>
<1>1. LineBreak \in Seq(Byte) /\ PartHeader \in Seq(Byte)
  BY Letters
<1>2. Len(LineBreak) = 2 /\ Len(PartHeader) = 8
  BY Letters
<1>3. a \in Seq(Byte) /\ Len(a) = Len(LineBreak) + Len(PartHeader)
  BY <1>1, EndToEnd
<1>4. \A j \in 1..Len(LineBreak) : a[j] = LineBreak[j]
  BY <1>1, EndToEnd
<1>5. \A j \in 1..Len(PartHeader) : a[Len(LineBreak) + j] = PartHeader[j]
  BY <1>1, EndToEnd
<1> HIDE DEF a
<1>6. t \in Seq(Byte) /\ Len(t) = 10
  BY DEF Byte
<1>7. /\ \A j \in 1..2 : a[j] = LineBreak[j]
      /\ \A j \in 1..8 : a[2 + j] = PartHeader[j]
  BY <1>2, <1>4, <1>5
<1>8. /\ \A j \in 1..2 : t[j] = LineBreak[j]
      /\ \A j \in 1..8 : t[2 + j] = PartHeader[j]
  BY DEF LineBreak, PartHeader
<1> HIDE DEF t
<1>9. ASSUME NEW j \in 1..10 PROVE a[j] = t[j]
  <2>1. CASE j <= 2
    BY <1>7, <1>8, <2>1
  <2>2. CASE j > 2
    <3>1. j - 2 \in 1..8 /\ j = 2 + (j - 2)
      BY <2>2
    <3>2. a[2 + (j - 2)] = PartHeader[j - 2] /\ t[2 + (j - 2)] = PartHeader[j - 2]
      BY <1>7, <1>8, <3>1
    <3>3. QED  BY <3>1, <3>2
  <2>3. j <= 2 \/ j > 2
    OBVIOUS
  <2>4. QED  BY <2>1, <2>2, <2>3
<1>10. a = t
  BY <1>2, <1>3, <1>6, <1>9, SeqEqual
<1>11. \A j \in 1..8 : a[j + 2] = PartHeader[j]
  BY <1>7
<1>12. a \in Seq(Byte) /\ Len(a) = 10
  BY <1>2, <1>3
<1>13. QED  BY <1>7, <1>10, <1>11, <1>12 DEF a, t

(* A preamble, letter by letter.                                           *)
LEMMA PreambleLetters ==
  ASSUME NEW i \in Nat
  PROVE  Preamble(i) = IF i = 0 THEN <<"O", "K", "cr", "lf">>
                       ELSE <<"cr", "lf", "x", "O", "K", "x", "cr", "lf", "cr", "lf">>
BY BeforePicture DEF Preamble, StatusLine

(* A preamble is a sequence of bytes, and every one but the first begins   *)
(* with the line break that the item before it was ended with.             *)
LEMMA PreambleTyped ==
  ASSUME NEW i \in Nat
  PROVE  /\ Preamble(i) \in Seq(Byte) /\ Len(Preamble(i)) = (IF i = 0 THEN 4 ELSE 10)
         /\ i # 0 => \A j \in 1..2 : Preamble(i)[j] = LineBreak[j]
<1>1. CASE i = 0
  <2>1. Preamble(i) = StatusLine
    BY <1>1 DEF Preamble
  <2>2. StatusLine \in Seq(Byte) /\ Len(StatusLine) = 4
    BY Letters
  <2>3. QED  BY <1>1, <2>1, <2>2
<1>2. CASE i # 0
  <2>1. Preamble(i) = LineBreak \o PartHeader
    BY <1>2 DEF Preamble
  <2>2. QED  BY <1>2, <2>1, BeforePicture
<1>3. QED  BY <1>1, <1>2

(* Neither a picture nor the reply contains the boundary.                  *)
LEMMA TextTyped ==
  ASSUME pictures \in Seq(Pictures), NEW i \in 0..Len(pictures)
  PROVE  Text(i) \in Seq(Byte) /\ ~Occurs(Boundary, Text(i))
<1>1. CASE i = 0
  <2>1. Text(i) = <<"x", "cr", "lf">>
    BY <1>1 DEF Text, ReplyText
  <2>2. ~Occurs(Boundary, Text(i))
    BY <2>1 DEF Occurs, Boundary
  <2>3. QED  BY <2>1, <2>2 DEF Byte
<1>2. CASE i # 0
  <2>1. pictures[i] \in Pictures /\ Text(i) = pictures[i]
    BY <1>2 DEF Text
  <2>2. QED  BY <2>1, MultipartProxyAssumption, BoundaryAssumption
<1>3. QED  BY <1>1, <1>2

(* The content of an item is its text, which is followed by the five bytes *)
(* of the line break and the boundary.                                     *)
LEMMA ContentTyped ==
  ASSUME pictures \in Seq(Pictures), NEW i \in 0..Len(pictures)
  PROVE  /\ Content(i) \in Seq(Byte) /\ Len(Content(i)) = Len(Text(i)) + 5
         /\ \A j \in 1..Len(Text(i)) : Content(i)[j] = Text(i)[j]
         /\ Content(i)[Len(Text(i)) + 1] = "cr" /\ Content(i)[Len(Text(i)) + 2] = "lf"
         /\ Content(i)[Len(Text(i)) + 3] = "-" /\ Content(i)[Len(Text(i)) + 4] = "-"
         /\ Content(i)[Len(Text(i)) + 5] = "b"
<1>1. Text(i) \in Seq(Byte)
  BY TextTyped
<1>2. QED  BY <1>1, Ended DEF Content

(* An item is its preamble with its content after it.                      *)
LEMMA ItemTyped ==
  ASSUME pictures \in Seq(Pictures), NEW i \in 0..Len(pictures)
  PROVE  /\ Item(i) \in Seq(Byte) /\ Len(Item(i)) = Len(Preamble(i)) + Len(Content(i))
         /\ \A j \in 1..Len(Preamble(i)) : Item(i)[j] = Preamble(i)[j]
         /\ \A j \in 1..Len(Content(i)) : Item(i)[Len(Preamble(i)) + j] = Content(i)[j]
<1>1. Preamble(i) \in Seq(Byte) /\ Content(i) \in Seq(Byte)
  BY PreambleTyped, ContentTyped
<1>2. Item(i) = Preamble(i) \o Content(i)
  BY DEF Item
<1>3. QED  BY <1>1, <1>2, EndToEnd

(* Every item begins with its preamble, also the last one, of which only   *)
(* the line break has been sent.                                           *)
LEMMA ItemBegins ==
  ASSUME pictures \in Seq(Pictures), NEW i \in 0..(Len(pictures) + 1)
  PROVE  /\ Item(i) \in Seq(Byte) /\ Len(Item(i)) >= 2
         /\ \A j \in 1..Len(Item(i)) : j <= Len(Preamble(i)) => Item(i)[j] = Preamble(i)[j]
         /\ i = Len(pictures) + 1 => Len(Item(i)) = 2 /\ Item(i) = LineBreak
<1>1. CASE i <= Len(pictures)
  <2>1. i \in 0..Len(pictures)
    BY <1>1
  <2>a. i \in Nat
    BY <2>1
  <2>b. Len(Preamble(i)) = (IF i = 0 THEN 4 ELSE 10)
    BY <2>a, PreambleTyped
  <2>2. i \in Nat /\ Len(Preamble(i)) >= 2
    BY <2>a, <2>b
  <2>3. Len(Content(i)) \in Nat
    <3>1. Content(i) \in Seq(Byte)
      BY <2>1, ContentTyped
    <3>2. QED  BY <3>1
  <2>4. /\ Item(i) \in Seq(Byte) /\ Len(Item(i)) = Len(Preamble(i)) + Len(Content(i))
        /\ \A j \in 1..Len(Preamble(i)) : Item(i)[j] = Preamble(i)[j]
    BY <2>1, ItemTyped
  <2>5. Len(Preamble(i)) \in Nat
    BY <2>2, PreambleTyped
  <2>6. i # Len(pictures) + 1
    BY <2>1
  <2>7. QED  BY <2>2, <2>3, <2>4, <2>5, <2>6
<1>2. CASE i = Len(pictures) + 1
  <2>1. Item(i) = LineBreak /\ i # 0 /\ i \in Nat
    BY <1>2 DEF Item
  <2>2. LineBreak \in Seq(Byte) /\ Len(LineBreak) = 2
    BY Letters
  <2>3. \A j \in 1..2 : Preamble(i)[j] = LineBreak[j]
    BY <2>1, PreambleTyped
  <2>4. \A j \in 1..Len(Item(i)) : Item(i)[j] = Preamble(i)[j]
    BY <2>1, <2>2, <2>3
  <2>5. Len(Item(i)) = 2 /\ Item(i) \in Seq(Byte)
    BY <2>1, <2>2
  <2>6. QED  BY <2>1, <2>4, <2>5
<1>3. QED  BY <1>1, <1>2

(* What the server sends for a picture completes the item of which the     *)
(* line break was sent already, and begins the next one.                   *)
LEMMA PartCompletes ==
  ASSUME NEW p \in Seq(Byte)
  PROVE  LET item == (LineBreak \o PartHeader) \o (p \o LineBreak \o Boundary)
         IN  /\ item \in Seq(Byte) /\ Len(item) = Len(p) + 15
             /\ Part(p) \in Seq(Byte) /\ Len(Part(p)) = Len(p) + 15
             /\ \A j \in 1..2 : item[j] = LineBreak[j]
             /\ \A j \in 1..(Len(p) + 13) : item[j + 2] = Part(p)[j]
             /\ \A j \in 1..2 : Part(p)[Len(p) + 13 + j] = LineBreak[j]
<1> DEFINE a == LineBreak \o PartHeader
           e == p \o LineBreak \o Boundary
           item == a \o e
<1>1. /\ \A j \in 1..2 : a[j] = LineBreak[j]
      /\ \A j \in 1..8 : a[j + 2] = PartHeader[j]
  BY BeforePicture
<1>2. a \in Seq(Byte) /\ Len(a) = 10
  BY BeforePicture
<1>a. a \in Seq(Byte) /\ e \in Seq(Byte)
  BY BeforePicture, Ended
<1>3. e \in Seq(Byte) /\ Len(e) = Len(p) + 5
  BY Ended
<1>4. /\ Part(p) \in Seq(Byte) /\ Len(Part(p)) = 8 + Len(e) + 2
      /\ \A j \in 1..8 : Part(p)[j] = PartHeader[j]
      /\ \A j \in 1..Len(e) : Part(p)[8 + j] = e[j]
      /\ \A j \in 1..2 : Part(p)[8 + Len(e) + j] = LineBreak[j]
  <2>1. PartHeader \in Seq(Byte) /\ Len(PartHeader) = 8
    BY Letters
  <2>2. LET f == PartHeader \o p \o LineBreak \o Boundary \o LineBreak
        IN  /\ f \in Seq(Byte) /\ Len(f) = Len(PartHeader) + Len(e) + 2
            /\ \A j \in 1..Len(PartHeader) : f[j] = PartHeader[j]
            /\ \A j \in 1..Len(e) : f[Len(PartHeader) + j] = e[j]
            /\ \A j \in 1..2 : f[Len(PartHeader) + Len(e) + j] = LineBreak[j]
    BY <2>1, Framed
  <2>3. QED  BY <2>1, <2>2 DEF Part
<1> HIDE DEF a, e
<1>5. item \in Seq(Byte) /\ Len(item) = Len(a) + Len(e)
  BY <1>a, EndToEnd
<1>6. \A j \in 1..Len(a) : item[j] = a[j]
  BY <1>a, EndToEnd
<1>7. \A j \in 1..Len(e) : item[Len(a) + j] = e[j]
  BY <1>a, EndToEnd
<1> HIDE DEF item
<1>8. \A j \in 1..2 : item[j] = LineBreak[j]
  BY <1>1, <1>2, <1>6
<1>9. ASSUME NEW j \in 1..(Len(p) + 13) PROVE item[j + 2] = Part(p)[j]
  <2>1. CASE j <= 8
    <3>1. j \in 1..8 /\ j + 2 \in 1..Len(a)
      BY <1>2, <2>1
    <3>2. QED  BY <1>1, <1>4, <1>6, <3>1
  <2>2. CASE j > 8
    <3>1. j - 8 \in 1..Len(e) /\ j = 8 + (j - 8) /\ j + 2 = Len(a) + (j - 8)
      BY <1>2, <1>3, <2>2
    <3>2. Part(p)[8 + (j - 8)] = e[j - 8]
      BY <1>4, <3>1
    <3>3. item[Len(a) + (j - 8)] = e[j - 8]
      BY <1>7, <3>1
    <3>4. QED  BY <3>1, <3>2, <3>3
  <2>3. j <= 8 \/ j > 8
    OBVIOUS
  <2>4. QED  BY <2>1, <2>2, <2>3
<1>10. \A j \in 1..2 : Part(p)[Len(p) + 13 + j] = LineBreak[j]
  BY <1>3, <1>4
<1>11. item \in Seq(Byte) /\ Len(item) = Len(p) + 15 /\ Len(Part(p)) = Len(p) + 15
  BY <1>2, <1>3, <1>4, <1>5
<1>12. QED  BY <1>4, <1>8, <1>9, <1>10, <1>11 DEF item, a, e

(* The reply is item 0, and the line break with which item 1 begins.       *)
LEMMA ReplyTyped ==
  LET item == StatusLine \o (ReplyText \o LineBreak \o Boundary)
  IN  /\ item \in Seq(Byte) /\ Len(item) = 12
      /\ Reply \in Seq(Byte) /\ Len(Reply) = 14
      /\ \A j \in 1..12 : Reply[j] = item[j]
      /\ \A j \in 1..2 : Reply[12 + j] = LineBreak[j]
<1> DEFINE e == ReplyText \o LineBreak \o Boundary
           item == StatusLine \o e
<1>1. StatusLine \in Seq(Byte) /\ ReplyText \in Seq(Byte)
  BY Letters
<1>2. Len(StatusLine) = 4 /\ Len(ReplyText) = 3
  BY Letters
<1>3. e \in Seq(Byte)
  BY <1>1, Ended
<1>a. Len(e) = Len(ReplyText) + 5
  BY <1>1, Ended
<1>4. Len(e) = 8
  BY <1>2, <1>a
<1>5. LET f == StatusLine \o ReplyText \o LineBreak \o Boundary \o LineBreak
      IN  /\ f \in Seq(Byte) /\ Len(f) = Len(StatusLine) + Len(e) + 2
          /\ \A j \in 1..Len(StatusLine) : f[j] = StatusLine[j]
          /\ \A j \in 1..Len(e) : f[Len(StatusLine) + j] = e[j]
          /\ \A j \in 1..2 : f[Len(StatusLine) + Len(e) + j] = LineBreak[j]
  BY <1>1, Framed
<1> HIDE DEF e
<1>6. /\ Reply \in Seq(Byte) /\ Len(Reply) = 14
      /\ \A j \in 1..4 : Reply[j] = StatusLine[j]
      /\ \A j \in 1..8 : Reply[4 + j] = e[j]
      /\ \A j \in 1..2 : Reply[12 + j] = LineBreak[j]
  <2>1. /\ Reply \in Seq(Byte) /\ Len(Reply) = Len(StatusLine) + Len(e) + 2
        /\ \A j \in 1..Len(StatusLine) : Reply[j] = StatusLine[j]
        /\ \A j \in 1..Len(e) : Reply[Len(StatusLine) + j] = e[j]
        /\ \A j \in 1..2 : Reply[Len(StatusLine) + Len(e) + j] = LineBreak[j]
    BY <1>5 DEF Reply
  <2>2. Len(StatusLine) + Len(e) = 12 /\ Len(Reply) = 14
    BY <1>2, <1>4, <2>1
  <2>3. QED  BY <1>2, <1>4, <2>1, <2>2
<1>7. item \in Seq(Byte) /\ Len(item) = Len(StatusLine) + Len(e)
  BY <1>1, <1>3, EndToEnd
<1>8. \A j \in 1..Len(StatusLine) : item[j] = StatusLine[j]
  BY <1>1, <1>3, EndToEnd
<1>9. \A j \in 1..Len(e) : item[Len(StatusLine) + j] = e[j]
  BY <1>1, <1>3, EndToEnd
<1> HIDE DEF item
<1>10. ASSUME NEW j \in 1..12 PROVE Reply[j] = item[j]
  <2>1. CASE j <= 4
    BY <1>2, <1>6, <1>8, <2>1
  <2>2. CASE j > 4
    <3>1. j - 4 \in 1..8 /\ j = 4 + (j - 4)
      BY <2>2
    <3>2. Reply[4 + (j - 4)] = e[j - 4] /\ item[4 + (j - 4)] = e[j - 4]
      BY <1>2, <1>4, <1>6, <1>9, <3>1
    <3>3. QED  BY <3>1, <3>2
  <2>3. j <= 4 \/ j > 4
    OBVIOUS
  <2>4. QED  BY <2>1, <2>2, <2>3
<1>11. Len(item) = 12
  BY <1>2, <1>4, <1>7
<1>12. QED  BY <1>6, <1>7, <1>10, <1>11 DEF item, e
-----------------------------------------------------------------------------
(* Types *)

(* No bytes are a sequence of bytes.                                       *)
LEMMA NoBytes ==
  <<>> \in Seq(Byte) /\ <<>> \in Seq(Pictures) /\ <<>> \in Seq(Seq(Byte)) /\ Len(<<>>) = 0
OBVIOUS

(* The constants are of their types, and the buffer takes the text of the  *)
(* reply with its line break and boundary.                                 *)
LEMMA Sizes ==
  /\ BUFFER_SIZE \in Nat /\ BUFFER_SIZE >= 9 /\ NETBUFFER_SIZE \in Nat \ {0}
  /\ Pictures \subseteq Seq(Byte) /\ MaxConnects \in Nat
<1>1. Len(ReplyText) = 3 /\ Len(Boundary) = 3
  BY Letters
<1>2. QED  BY <1>1, MultipartProxyAssumption DEF Fits

(* The types hold at the start.                                            *)
LEMMA TypeInit == Init => TypeInv
<1> SUFFICES ASSUME Init PROVE TypeInv
  OBVIOUS
<1>1. Len(Boundary) - 1 = 2
  BY Letters
<1>2. last_four_bytes \in Seq(Byte) /\ Len(last_four_bytes) = 4
  BY Letters DEF Init
<1>3. /\ net \in Seq(Byte) /\ Len(net) <= NETBUFFER_SIZE
      /\ buffer \in Seq(Byte) /\ Len(buffer) < BUFFER_SIZE
  BY NoBytes, Sizes DEF Init
<1>4. store \in [size : Int, bytes : Seq(Byte)]
  BY NoBytes DEF Init
<1>5. wire \in Seq(Byte) /\ pictures \in Seq(Pictures) /\ published \in Seq(Seq(Byte))
  BY NoBytes DEF Init
<1>6. matched \in 0..(Len(Boundary) - 1) /\ connects \in 0..MaxConnects
  BY <1>1, Sizes DEF Init
<1>7. QED  BY <1>2, <1>3, <1>4, <1>5, <1>6 DEF Init, TypeInv, TypeOK

(* A byte is pushed onto the last four, and the matcher goes on or starts  *)
(* again, short of the whole boundary.                                     *)
LEMMA PushTyped ==
  ASSUME NEW last \in Seq(Byte), Len(last) = 4, NEW byte \in Byte
  PROVE  /\ push_byte(last, byte) \in Seq(Byte) /\ Len(push_byte(last, byte)) = 4
         /\ \A j \in 1..3 : push_byte(last, byte)[j] = last[j + 1]
         /\ push_byte(last, byte)[4] = byte
<1> DEFINE t == Tail(last)
<1>1. t \in Seq(Byte) /\ Len(t) = 3 /\ \A j \in 1..3 : t[j] = last[j + 1]
  OBVIOUS
<1>2. push_byte(last, byte) = Append(t, byte)
  BY DEF push_byte
<1> HIDE DEF t
<1>3. /\ Append(t, byte) \in Seq(Byte) /\ Len(Append(t, byte)) = Len(t) + 1
      /\ \A j \in 1..Len(t) : Append(t, byte)[j] = t[j]
      /\ Append(t, byte)[Len(t) + 1] = byte
  BY <1>1, WithOneMore
<1>4. QED  BY <1>1, <1>2, <1>3

(* At most the whole boundary has been matched after another byte.         *)
LEMMA CompareTyped ==
  ASSUME TypeOK, NEW byte \in Byte
  PROVE  search_pattern_compare(byte) \in 0..3
BY DEF TypeOK, search_pattern_compare, Boundary

(* extract_data takes one byte from netbuffer, and leaves the server       *)
(* alone.                                                                  *)
LEMMA ByteType ==
  ASSUME TypeInv, NextByte
  PROVE  /\ Head(net) \in Byte /\ net' \in Seq(Byte) /\ Len(net') <= NETBUFFER_SIZE
         /\ stop' = stop /\ pc' = "extract" /\ wire' = wire /\ up' = up
         /\ pictures' = pictures /\ connects' = connects
<1>1. net \in Seq(Byte) /\ Len(net) <= NETBUFFER_SIZE /\ net # <<>> /\ net' = Tail(net)
  BY DEF TypeInv, TypeOK, NextByte
<1>2. NETBUFFER_SIZE \in Nat
  BY MultipartProxyAssumption
<1>3. QED  BY <1>1, <1>2, WithoutFirst DEF NextByte, server

(* Every step keeps the types.                                             *)
LEMMA TypeStep == ASSUME TypeInv, [Next]_vars PROVE TypeInv'
<1> USE DEF TypeInv, TypeOK
<1>0. /\ BUFFER_SIZE \in Nat /\ BUFFER_SIZE >= 9 /\ NETBUFFER_SIZE \in Nat \ {0}
      /\ Pictures \subseteq Seq(Byte)
  BY Sizes
<1>a. 0 \in 0..(Len(Boundary) - 1)
  BY Letters
<1>b. <<>> \in Seq(Byte) /\ Len(<<>>) <= NETBUFFER_SIZE /\ Len(<<>>) < BUFFER_SIZE
  BY <1>0, NoBytes
<1>c. Zeros \in Seq(Byte) /\ Len(Zeros) = 4
  BY Letters
<1>1. CASE Connect
  <2>1. wire' \in Seq(Byte) /\ pictures' \in Seq(Pictures) /\ published' \in Seq(Seq(Byte))
    BY <1>1, NoBytes, ReplyTyped DEF Connect
  <2>2. /\ part' = "header" /\ last_four_bytes' \in Seq(Byte) /\ Len(last_four_bytes') = 4
        /\ matched' \in 0..(Len(Boundary) - 1) /\ buffer' \in Seq(Byte) /\ Len(buffer') < BUFFER_SIZE
    BY <1>1, <1>a, <1>b, <1>c DEF Connect, Reset
  <2>3. connects' \in 0..MaxConnects
    BY <1>1, Sizes DEF Connect
  <2>4. /\ net' = net /\ stop' = stop /\ store' = store /\ up' = TRUE
        /\ pc = "connect" /\ pc' = "recv"
    BY <1>1 DEF Connect, Step
  <2>5. QED  BY <2>1, <2>2, <2>3, <2>4
<1>2. CASE ResolveFails \/ RecvEnds \/ Cancel \/ Cleanup
  BY <1>2 DEF ResolveFails, RecvEnds, Cancel, Cleanup, Step, server, extractor, picture
<1>3. CASE Close
  <2>1. /\ wire' \in Seq(Byte) /\ net' \in Seq(Byte) /\ Len(net') <= NETBUFFER_SIZE
        /\ up' = FALSE /\ net' = <<>>
    BY <1>3, <1>b DEF Close
  <2>2. pc' \in {"cleanup", "connect"} /\ UNCHANGED <<stop, pictures, connects, extractor, picture>>
    BY <1>3 DEF Close, Step
  <2>3. QED  BY <2>1, <2>2 DEF extractor, picture
<1>4. ASSUME NEW n \in 1..NETBUFFER_SIZE, Recv(n) PROVE TypeInv'
  <2>1. /\ SubSeq(wire, 1, n) \in Seq(Byte) /\ Len(SubSeq(wire, 1, n)) = n
        /\ SubSeq(wire, n + 1, Len(wire)) \in Seq(Byte)
    BY <1>4, Split DEF Recv
  <2>2. QED  BY <1>0, <1>4, <2>1 DEF Recv, Step, extractor, picture
<1>5. CASE HeaderByte
  <2>1. Head(net) \in Byte /\ NextByte
    BY <1>5, ByteType DEF HeaderByte
  <2>2. last_four_bytes' \in Seq(Byte) /\ Len(last_four_bytes') = 4 /\ part' \in {"header", "content"}
    BY <1>5, <2>1, PushTyped DEF HeaderByte
  <2>3. QED  BY <1>5, <2>1, <2>2, ByteType DEF HeaderByte, picture
<1>6. CASE DroppedByte
  BY <1>6, ByteType DEF DroppedByte, extractor, picture
<1>7. CASE ContentByte
  <2>1. Head(net) \in Byte /\ NextByte
    BY <1>7, ByteType DEF ContentByte
  <2>2. matched' \in 0..2
    BY <1>7, <2>1, CompareTyped, Letters DEF ContentByte
  <2>3. buffer' \in Seq(Byte) /\ Len(buffer') = Len(buffer) + 1
    BY <1>7, <2>1, WithOneMore DEF ContentByte
  <2>4. Len(buffer') < BUFFER_SIZE
    BY <1>0, <1>7, <2>3 DEF ContentByte, TooSmall
  <2>5. QED  BY <1>7, <2>1, <2>2, <2>3, <2>4, ByteType, Letters DEF ContentByte, picture
<1>8. CASE LastByte
  <2>1. NextByte
    BY <1>8 DEF LastByte
  <2> DEFINE length == ImageLength(Len(buffer) + 1)
  <2>2. length \in Int /\ length <= Len(buffer)
    BY Letters DEF ImageLength
  <2>3. SubSeq(buffer, 1, length) \in Seq(Byte)
    BY <2>2, Beginning
  <2>4. store' = [size |-> length, bytes |-> SubSeq(buffer, 1, length)]
    BY <1>8 DEF LastByte, on_image_received
  <2>5. published' = Append(published, SubSeq(buffer, 1, length))
    <3>1. published' = Append(published, store'.bytes)
      BY <1>8 DEF LastByte, on_image_received
    <3>2. store'.bytes = SubSeq(buffer, 1, length)
      BY <2>4
    <3>3. QED  BY <3>1, <3>2
  <2> HIDE DEF length
  <2>6. store' \in [size : Int, bytes : Seq(Byte)] /\ published' \in Seq(Seq(Byte))
    BY <2>2, <2>3, <2>4, <2>5
  <2>7. /\ part' = "header" /\ last_four_bytes' \in Seq(Byte) /\ Len(last_four_bytes') = 4
        /\ matched' \in 0..(Len(Boundary) - 1) /\ buffer' \in Seq(Byte) /\ Len(buffer') < BUFFER_SIZE
    BY <1>8, <1>a, <1>b, <1>c DEF LastByte, Reset
  <2>8. QED  BY <2>1, <2>6, <2>7, ByteType
<1>9. CASE Extracted
  <2>1. net' \in Seq(Byte) /\ Len(net') <= NETBUFFER_SIZE /\ net' = <<>>
    BY <1>9, <1>b DEF Extracted
  <2>2. QED  BY <1>9, <2>1 DEF Extracted, server, extractor, picture
<1>10. CASE SendPicture
  <2>1. PICK p \in Pictures : wire' = wire \o Part(p) /\ pictures' = Append(pictures, p)
    BY <1>10 DEF SendPicture
  <2>2. Part(p) \in Seq(Byte)
    BY <1>0, PartCompletes
  <2>3. wire' \in Seq(Byte) /\ pictures' \in Seq(Pictures)
    BY <2>1, <2>2
  <2>4. QED  BY <1>10, <2>3 DEF SendPicture, extractor, picture
<1>11. CASE Break
  <2>1. wire' \in Seq(Byte) /\ up' = FALSE
    BY <1>11, <1>b DEF Break
  <2>2. QED  BY <1>11, <2>1 DEF Break, extractor, picture
<1>12. CASE Stop
  BY <1>12 DEF Stop, server, extractor, picture
<1>13. CASE UNCHANGED vars
  BY <1>13 DEF vars, server, extractor, picture
<1>14. QED
  BY <1>1, <1>2, <1>3, <1>4, <1>5, <1>6, <1>7, <1>8, <1>9, <1>10, <1>11, <1>12, <1>13 DEF Next, Extract

(* For any pictures, sizes and chunks, the variables keep their types; in  *)
(* particular the extractor never writes past the end of its buffer.       *)
THEOREM RelayTypeCorrect == Spec => []TypeOK
<1>1. TypeInv => TypeOK
  BY DEF TypeInv
<1>2. QED  BY <1>1, TypeInit, TypeStep, PTL DEF Spec
-----------------------------------------------------------------------------
(* The stream *)

(* The bytes that are pending when one of them has been looked at.         *)
LEMMA PendingShifts ==
  ASSUME TypeInv, net # <<>>, net' = Tail(net), wire' = wire
  PROVE  /\ Pending \in Seq(Byte) /\ Len(Pending) >= 1 /\ Pending[1] = Head(net)
         /\ Pending' \in Seq(Byte) /\ Len(Pending') = Len(Pending) - 1
         /\ \A j \in 1..Len(Pending') : Pending'[j] = Pending[j + 1]
<1> DEFINE t == Tail(net)
<1>1. net \in Seq(Byte) /\ wire \in Seq(Byte)
  BY DEF TypeInv, TypeOK
<1>2. /\ Head(net) = net[1] /\ t \in Seq(Byte) /\ Len(t) = Len(net) - 1
      /\ \A j \in 1..(Len(net) - 1) : t[j] = net[j + 1]
  BY <1>1, WithoutFirst
<1>a. Len(net) \in Nat /\ Len(wire) \in Nat /\ Len(net) >= 1
  BY <1>1
<1>b. t \in Seq(Byte)
  BY <1>2
<1>3. Pending = net \o wire /\ Pending' = t \o wire
  BY DEF Pending
<1> HIDE DEF t
<1>4. /\ Pending \in Seq(Byte) /\ Len(Pending) = Len(net) + Len(wire)
      /\ \A j \in 1..Len(net) : Pending[j] = net[j]
      /\ \A j \in 1..Len(wire) : Pending[Len(net) + j] = wire[j]
  BY <1>1, <1>3, EndToEnd
<1>5. /\ Pending' \in Seq(Byte) /\ Len(Pending') = Len(t) + Len(wire)
      /\ \A j \in 1..Len(t) : Pending'[j] = t[j]
      /\ \A j \in 1..Len(wire) : Pending'[Len(t) + j] = wire[j]
  BY <1>1, <1>3, <1>b, EndToEnd
<1>6. Pending[1] = Head(net) /\ Len(Pending) >= 1
  BY <1>2, <1>4, <1>a
<1>7. Len(Pending') = Len(Pending) - 1
  BY <1>2, <1>4, <1>5, <1>a
<1>8. ASSUME NEW j \in 1..Len(Pending') PROVE Pending'[j] = Pending[j + 1]
  <2>1. CASE j <= Len(t)
    <3>1. Pending'[j] = t[j] /\ t[j] = net[j + 1]
      BY <1>2, <1>5, <1>a, <2>1
    <3>2. Pending[j + 1] = net[j + 1]
      BY <1>2, <1>4, <1>a, <2>1
    <3>3. QED  BY <3>1, <3>2
  <2>2. CASE j > Len(t)
    <3>1. /\ j - Len(t) \in 1..Len(wire) /\ j = Len(t) + (j - Len(t))
          /\ j + 1 = Len(net) + (j - Len(t))
      BY <1>2, <1>5, <1>a, <2>2
    <3>2. Pending'[Len(t) + (j - Len(t))] = wire[j - Len(t)]
      BY <1>5, <3>1
    <3>3. Pending[Len(net) + (j - Len(t))] = wire[j - Len(t)]
      BY <1>4, <3>1
    <3>4. QED  BY <3>1, <3>2, <3>3
  <2>3. j <= Len(t) \/ j > Len(t)
    BY <1>2, <1>a
  <2>4. QED  BY <2>1, <2>2, <2>3
<1>9. QED  BY <1>4, <1>5, <1>6, <1>7, <1>8

(* Where the items begin when a byte has been looked at.                   *)
Before(cut) == [i \in Nat |-> cut[i] - 1]

(* The items lie end to end as they did, all of them one byte nearer.      *)
LEMMA LaidShifts ==
  ASSUME NEW cut \in [Nat -> Int], TypeInv, Laid(cut),
         net # <<>>, net' = Tail(net), wire' = wire, up' = up, pictures' = pictures,
         Len(published) \in Nat, Len(published') \in Nat, Len(published') >= Len(published)
  PROVE  Laid(Before(cut))'
<1> DEFINE n == Len(pictures)
           b == Before(cut)
<1>1. n \in Nat
  BY DEF TypeInv, TypeOK
<1>2. \A i \in Nat : Item(i)' = Item(i)
  BY DEF Item, Preamble, Content, Text
<1>3. \A i \in Nat : b[i] = cut[i] - 1 /\ cut[i] \in Int
  BY DEF Before
<1>4. Items' \subseteq Items /\ Items \subseteq Nat
  BY <1>1 DEF Items
<1> HIDE DEF b
<1>5. ASSUME NEW i \in Items', i # n + 1 PROVE b[i + 1] = b[i] + Len(Item(i)')
  <2>1. i \in Items /\ i \in Nat /\ i + 1 \in Nat
    BY <1>4
  <2>2. cut[i + 1] = cut[i] + Len(Item(i))
    BY <1>5, <2>1 DEF Laid
  <2>3. Len(Item(i)) \in Nat
    <3>1. i \in 0..(n + 1)
      BY <1>1, <2>1 DEF Items
    <3>2. Item(i) \in Seq(Byte)
      BY <3>1, ItemBegins DEF TypeInv, TypeOK
    <3>3. QED  BY <3>2
  <2>4. b[i] = cut[i] - 1 /\ b[i + 1] = cut[i + 1] - 1 /\ cut[i] \in Int
    BY <1>3, <2>1
  <2>5. b[i + 1] = b[i] + Len(Item(i))
    BY <2>2, <2>3, <2>4
  <2>6. Item(i)' = Item(i)
    BY <1>2, <2>1
  <2>7. QED  BY <2>5, <2>6
<1>6. ASSUME NEW i \in Items', NEW j \in 1..Len(Item(i)'), b[i] + j \in 1..Len(Pending')
      PROVE  Pending'[b[i] + j] = Item(i)'[j]
  <2>1. i \in Items /\ i \in Nat /\ Item(i)' = Item(i) /\ b[i] = cut[i] - 1 /\ cut[i] \in Int
    BY <1>2, <1>3, <1>4
  <2>2. Len(Pending') = Len(Pending) - 1 /\ Len(Pending) \in Nat
    BY PendingShifts
  <2>3. Pending'[b[i] + j] = Pending[(b[i] + j) + 1]
    BY <1>6, PendingShifts
  <2>4. j \in Nat /\ (b[i] + j) + 1 = cut[i] + j
    BY <2>1
  <2>a. b[i] + j \in 1..Len(Pending')
    BY <1>6
  <2>b. b[i] + j >= 1 /\ b[i] + j <= Len(Pending) - 1 /\ cut[i] + j \in Int
    BY <2>1, <2>2, <2>4, <2>a
  <2>c. cut[i] + j >= 1 /\ cut[i] + j <= Len(Pending)
    <3>1. \A x \in Int, c \in Int : x = c - 1 /\ x + j >= 1 /\ x + j <= Len(Pending) - 1
                                 => c + j >= 1 /\ c + j <= Len(Pending)
      BY <2>2, <2>4
    <3>2. b[i] \in Int /\ cut[i] \in Int /\ b[i] = cut[i] - 1
      BY <2>1
    <3>3. QED  BY <2>b, <3>1, <3>2
  <2>5. cut[i] + j \in 1..Len(Pending)
    BY <2>2, <2>b, <2>c
  <2>6. Pending[cut[i] + j] = Item(i)[j]
    BY <2>1, <2>5 DEF Laid
  <2>7. QED  BY <2>1, <2>3, <2>4, <2>6
<1>7. Len(Pending') <= b[n + 1] + 2 /\ (up => Len(Pending') = b[n + 1] + 2)
  <2>1. Len(Pending') = Len(Pending) - 1 /\ Len(Pending) \in Nat
    BY PendingShifts
  <2>2. Len(Pending) <= cut[n + 1] + 2 /\ (up => Len(Pending) = cut[n + 1] + 2)
    BY DEF Laid
  <2>3. b[n + 1] = cut[n + 1] - 1 /\ cut[n + 1] \in Int
    BY <1>1, <1>3
  <2>4. Len(Pending') <= b[n + 1] + 2
    BY <2>1, <2>2, <2>3
  <2>5. ASSUME up PROVE Len(Pending') = b[n + 1] + 2
    <3>1. Len(Pending) = cut[n + 1] + 2
      BY <2>2, <2>5
    <3>2. QED  BY <2>1, <2>3, <3>1
  <2>6. QED  BY <2>4, <2>5
<1>8. ASSUME NEW i \in Items' PROVE b[i] <= b[n + 1]
  <2>a. i \in Items
    BY <1>4
  <2>b. cut[i] <= cut[n + 1]
    BY <2>a DEF Laid
  <2>1. cut[i] <= cut[n + 1] /\ i \in Nat /\ n + 1 \in Nat
    BY <1>1, <1>4, <2>a, <2>b
  <2>2. b[i] = cut[i] - 1 /\ cut[i] \in Int /\ b[n + 1] = cut[n + 1] - 1 /\ cut[n + 1] \in Int
    BY <1>3, <2>1
  <2>3. QED  BY <2>1, <2>2
<1>9. QED  BY <1>5, <1>6, <1>7, <1>8 DEF Laid, b

(* The next byte is that of the item at hand.                              *)
LEMMA NextLetter ==
  ASSUME NEW cut \in [Nat -> Int], NEW m \in Nat, NEW k \in Nat,
         TypeInv, Laid(cut), m = Len(published), cut[m] = 0 - k,
         m = Len(pictures) + 1 \/ (m \in 0..Len(pictures) /\ k < Len(Item(m))),
         net # <<>>, net' = Tail(net), wire' = wire
  PROVE  k + 1 \in 1..Len(Item(m)) /\ Head(net) = Item(m)[k + 1]
<1>1. Len(pictures) \in Nat /\ pictures \in Seq(Pictures)
  BY DEF TypeInv, TypeOK
<1>2. m \in Items /\ m \in 0..(Len(pictures) + 1)
  BY <1>1 DEF Items
<1>3. Len(Pending) \in Nat /\ Len(Pending) >= 1 /\ Pending[1] = Head(net)
  BY PendingShifts
<1>4. Item(m) \in Seq(Byte) /\ (m = Len(pictures) + 1 => Len(Item(m)) = 2)
  BY <1>1, <1>2, ItemBegins
<1>5. m = Len(pictures) + 1 => k < 2
  <2> SUFFICES ASSUME m = Len(pictures) + 1 PROVE k < 2
    OBVIOUS
  <2>1. Len(Pending) <= cut[m] + 2
    BY DEF Laid
  <2>2. QED  BY <1>3, <2>1
<1>6. k + 1 \in 1..Len(Item(m))
  <2>1. k < Len(Item(m))
    BY <1>4, <1>5
  <2>2. Len(Item(m)) \in Nat
    BY <1>4
  <2>3. QED  BY <2>1, <2>2
<1>7. cut[m] + (k + 1) = 1 /\ 1 \in 1..Len(Pending)
  <2>1. PICK c \in Int : c = cut[m] /\ c = 0 - k
    OBVIOUS
  <2>2. c + (k + 1) = 1
    BY <2>1
  <2>3. QED  BY <1>3, <2>1, <2>2
<1>8. \A j \in 1..Len(Item(m)) : cut[m] + j \in 1..Len(Pending) => Pending[cut[m] + j] = Item(m)[j]
  BY <1>2 DEF Laid
<1>9. Pending[1] = Item(m)[k + 1]
  BY <1>6, <1>7, <1>8
<1>10. QED  BY <1>3, <1>6, <1>9

(* There is more to an item than its preamble.                             *)
LEMMA ItemLonger ==
  ASSUME pictures \in Seq(Pictures), NEW m \in 0..Len(pictures)
  PROVE  Len(Item(m)) = Len(Preamble(m)) + Len(Text(m)) + 5 /\ Len(Item(m)) > Len(Preamble(m))
<1>1. Len(Item(m)) = Len(Preamble(m)) + Len(Content(m))
  BY ItemTyped
<1>2. Text(m) \in Seq(Byte) /\ Len(Content(m)) = Len(Text(m)) + 5
  BY TextTyped, ContentTyped
<1>3. Preamble(m) \in Seq(Byte)
  BY PreambleTyped
<1>4. Len(Text(m)) \in Nat /\ Len(Preamble(m)) \in Nat
  BY <1>2, <1>3
<1>5. QED  BY <1>1, <1>2, <1>4

(* The end of a header is tested for on the last four bytes.               *)
LEMMA LastFour ==
  ASSUME NEW last \in Seq(Byte), Len(last) = 4
  PROVE  is_crlfcrlf(last) <=> /\ last[1] \in {"cr", "O", "-"} /\ last[2] \in {"lf", "K"}
                               /\ last[3] \in {"cr", "O", "-"} /\ last[4] \in {"lf", "K"}
<1> DEFINE a == SubSeq(last, 1, 2)
           b == SubSeq(last, 3, 4)
<1>1. a[1] = last[1] /\ a[2] = last[2]
  OBVIOUS
<1>2. b[1] = last[3] /\ b[2] = last[4]
  OBVIOUS
<1>3. is_crlfcrlf(last) <=> is_crlf(a) /\ is_crlf(b)
  BY DEF is_crlfcrlf
<1> HIDE DEF a, b
<1>4. QED  BY <1>1, <1>2, <1>3 DEF is_crlf

(* In a preamble the header is taken to end where the preamble does, and   *)
(* nowhere before: in the reply already after its status line, for "OK"    *)
(* passes for a line break.                                                *)
LEMMA HeaderEnds ==
  ASSUME NEW m \in Nat, NEW k \in Nat, k < Len(Preamble(m)),
         NEW last \in Seq(Byte), Len(last) = 4,
         \A j \in 1..4 : last[j] = (Zeros \o Preamble(m))[(k + 1) + j]
  PROVE  is_crlfcrlf(last) <=> k + 1 = Len(Preamble(m))
<1> DEFINE z == Zeros \o Preamble(m)
<1>1. Preamble(m) \in Seq(Byte) /\ Zeros \in Seq(Byte)
  BY PreambleTyped, Letters
<1>2. Len(Zeros) = 4 /\ Len(Preamble(m)) = (IF m = 0 THEN 4 ELSE 10)
  BY PreambleTyped, Letters
<1>3. /\ \A j \in 1..Len(Zeros) : z[j] = Zeros[j]
      /\ \A j \in 1..Len(Preamble(m)) : z[Len(Zeros) + j] = Preamble(m)[j]
  BY <1>1, EndToEnd
<1>4. \A j \in 1..4 : z[j] = "x"
  BY <1>2, <1>3 DEF Zeros
<1>5. \A j \in 1..4 : last[j] = z[(k + 1) + j]
  OBVIOUS
<1> HIDE DEF z
<1>6. last[1] = z[k + 2] /\ last[3] = z[k + 4]
  BY <1>5
<1>7. CASE m = 0
  <2>1. Preamble(m) = <<"O", "K", "cr", "lf">>
    BY <1>7, PreambleLetters
  <2>2. z[5] = "O" /\ z[6] = "K" /\ z[7] = "cr" /\ z[8] = "lf"
    BY <1>2, <1>3, <1>7, <2>1
  <2>3. k \in 0..3
    BY <1>2, <1>7
  <2>4. CASE k \in 0..2
    <3>1. k = 0 \/ k = 1 \/ k = 2
      BY <2>4
    <3>2. last[1] = "x"
      BY <1>4, <1>6, <3>1
    <3>3. ~is_crlfcrlf(last) /\ k + 1 # Len(Preamble(m))
      BY <1>2, <1>7, <3>1, <3>2, LastFour
    <3>4. QED  BY <3>3
  <2>5. CASE k = 3
    BY <1>2, <1>5, <1>7, <2>2, <2>5, LastFour
  <2>6. QED  BY <2>3, <2>4, <2>5
<1>8. CASE m # 0
  <2>1. Preamble(m) = <<"cr", "lf", "x", "O", "K", "x", "cr", "lf", "cr", "lf">>
    BY <1>8, PreambleLetters
  <2>2. Len(Preamble(m)) = 10
    BY <1>2, <1>8
  <2>3. \A j \in 1..10 : z[4 + j] = Preamble(m)[j]
    BY <1>2, <1>3, <2>2
  <2>4. /\ z[5] = "cr" /\ z[6] = "lf" /\ z[7] = "x" /\ z[8] = "O" /\ z[9] = "K"
        /\ z[10] = "x" /\ z[11] = "cr" /\ z[12] = "lf" /\ z[13] = "cr" /\ z[14] = "lf"
    BY <2>1, <2>3
  <2>5. k \in 0..9
    BY <2>2
  <2>6. CASE k \in 0..2
    <3>1. k = 0 \/ k = 1 \/ k = 2
      BY <2>6
    <3>2. last[1] = "x"
      BY <1>4, <1>6, <3>1
    <3>3. ~is_crlfcrlf(last) /\ k + 1 # Len(Preamble(m))
      BY <2>2, <3>1, <3>2, LastFour
    <3>4. QED  BY <3>3
  <2>7. CASE k \in 3..8
    <3>1. z[k + 2] \notin {"cr", "O", "-"} \/ z[k + 4] \notin {"cr", "O", "-"}
      <4>1. k = 3 \/ k = 4 \/ k = 5 \/ k = 6 \/ k = 7 \/ k = 8
        BY <2>7
      <4>2. CASE k = 3
        BY <2>4, <4>2
      <4>3. CASE k = 4
        BY <2>4, <4>3
      <4>4. CASE k = 5
        BY <2>4, <4>4
      <4>5. CASE k = 6
        BY <2>4, <4>5
      <4>6. CASE k = 7
        BY <2>4, <4>6
      <4>7. CASE k = 8
        BY <2>4, <4>7
      <4>8. QED  BY <4>1, <4>2, <4>3, <4>4, <4>5, <4>6, <4>7
    <3>2. QED  BY <1>6, <2>2, <2>7, <3>1, LastFour
  <2>8. CASE k = 9
    <3>1. last[1] = z[11] /\ last[2] = z[12] /\ last[3] = z[13] /\ last[4] = z[14]
      BY <1>5, <2>8
    <3>2. is_crlfcrlf(last)
      BY <2>4, <3>1, LastFour
    <3>3. QED  BY <2>2, <2>8, <3>2
  <2>9. QED  BY <2>5, <2>6, <2>7, <2>8
<1>9. QED  BY <1>7, <1>8

(* Every byte of a preamble is one more of it, and the last begins the     *)
(* content.                                                                *)
LEMMA HeaderStep ==
  ASSUME NEW cut \in [Nat -> Int], NEW m \in Nat, NEW k \in Nat,
         TypeInv, Follows(cut, m, k), HeaderByte
  PROVE  Follows(Before(cut), m, k + 1)'
<1> DEFINE last == push_byte(last_four_bytes, Head(net))
<1>1. /\ NextByte /\ part = "header" /\ last_four_bytes' = last
      /\ part' = (IF is_crlfcrlf(last) THEN "content" ELSE "header")
      /\ matched' = matched /\ buffer' = buffer /\ published' = published
  BY DEF HeaderByte, picture
<1>2. /\ net # <<>> /\ net' = Tail(net) /\ wire' = wire /\ up' = up /\ pictures' = pictures
  BY <1>1 DEF NextByte, server
<1>3. Len(pictures) \in Nat /\ Len(published) \in Nat /\ pictures \in Seq(Pictures)
  <2>1. pictures \in Seq(Pictures) /\ published \in Seq(Seq(Byte))
    BY DEF TypeInv, TypeOK
  <2>2. QED  BY <2>1
<1>4. /\ m = Len(published) /\ m <= Len(pictures) + 1 /\ cut[m] = 0 - k
      /\ InPreamble(m, k) /\ Laid(cut) /\ \A i \in 1..(m - 1) : Fits(pictures[i])
  BY <1>1 DEF Follows, InContent
<1>5. k < Len(Preamble(m)) /\ matched = 0 /\ buffer = <<>>
  BY <1>4 DEF InPreamble
<1>6. last_four_bytes \in Seq(Byte) /\ Len(last_four_bytes) = 4 /\ Head(net) \in Byte
  BY <1>1, ByteType DEF TypeInv, TypeOK
<1>7. \A j \in 1..4 : last_four_bytes[j] = (Zeros \o Preamble(m))[k + j]
  BY <1>4 DEF InPreamble
<1>8. /\ last \in Seq(Byte) /\ Len(last) = 4 /\ last[4] = Head(net)
      /\ \A j \in 1..3 : last[j] = last_four_bytes[j + 1]
  BY <1>6, PushTyped
<1>9. Preamble(m) \in Seq(Byte) /\ Len(Preamble(m)) = (IF m = 0 THEN 4 ELSE 10)
  BY PreambleTyped
<1> HIDE DEF last
<1>10. m = Len(pictures) + 1 \/ m \in 0..Len(pictures)
  BY <1>3, <1>4
<1>11. m \in 0..Len(pictures) => Len(Item(m)) > Len(Preamble(m))
  BY <1>3, ItemLonger
<1>12. /\ Item(m) \in Seq(Byte) /\ (m = Len(pictures) + 1 => Len(Item(m)) = 2)
       /\ \A j \in 1..Len(Item(m)) : j <= Len(Preamble(m)) => Item(m)[j] = Preamble(m)[j]
  <2>1. m \in 0..(Len(pictures) + 1)
    BY <1>3, <1>10
  <2>2. QED  BY <1>3, <2>1, ItemBegins
<1>13. k + 1 \in 1..Len(Item(m)) /\ Head(net) = Item(m)[k + 1]
  <2>1. m \in 0..Len(pictures) => k < Len(Item(m))
    BY <1>5, <1>9, <1>11, <1>12
  <2>2. QED  BY <1>2, <1>4, <1>10, <2>1, NextLetter
<1>14. Head(net) = Preamble(m)[k + 1]
  <2>1. k + 1 <= Len(Preamble(m))
    BY <1>5, <1>9
  <2>2. QED  BY <1>12, <1>13, <2>1
<1>15. \A j \in 1..4 : last[j] = (Zeros \o Preamble(m))[(k + 1) + j]
  <2> DEFINE z == Zeros \o Preamble(m)
  <2>1. Zeros \in Seq(Byte) /\ Preamble(m) \in Seq(Byte)
    BY <1>9, Letters
  <2>2. \A j \in 1..Len(Preamble(m)) : z[Len(Zeros) + j] = Preamble(m)[j]
    BY <2>1, EndToEnd
  <2>3. k + 1 \in 1..Len(Preamble(m))
    BY <1>5, <1>9
  <2>4. Len(Zeros) = 4
    BY Letters
  <2>5. \A j \in 1..4 : last_four_bytes[j] = z[k + j]
    BY <1>7
  <2> HIDE DEF z
  <2>6. last[4] = z[(k + 1) + 4]
    BY <1>8, <1>14, <2>2, <2>3, <2>4
  <2>7. last[1] = z[k + 2] /\ last[2] = z[k + 3] /\ last[3] = z[k + 4]
    BY <1>8, <2>5
  <2>8. last[1] = z[(k + 1) + 1] /\ last[2] = z[(k + 1) + 2] /\ last[3] = z[(k + 1) + 3]
    BY <2>7
  <2>9. \A j \in 1..4 : last[j] = z[(k + 1) + j]
    BY <2>6, <2>8
  <2>10. QED  BY <2>9 DEF z
<1>16. is_crlfcrlf(last) <=> k + 1 = Len(Preamble(m))
  BY <1>5, <1>8, <1>15, HeaderEnds
<1>17. Item(m)' = Item(m) /\ Content(m)' = Content(m) /\ Text(m)' = Text(m)
  BY <1>2 DEF Item, Content, Text, Preamble
<1>18. InPreamble(m, k + 1)' \/ InContent(m, k + 1)'
  <2>1. CASE k + 1 # Len(Preamble(m))
    <3>1. part' = "header" /\ k + 1 < Len(Preamble(m))
      BY <1>1, <1>5, <1>9, <1>16, <2>1
    <3>2. \A j \in 1..4 : last_four_bytes'[j] = (Zeros \o Preamble(m))[(k + 1) + j]
      BY <1>1, <1>15
    <3>3. matched' = 0 /\ buffer' = <<>>
      BY <1>1, <1>5
    <3>4. QED  BY <3>1, <3>2, <3>3 DEF InPreamble, Preamble
  <2>2. CASE k + 1 = Len(Preamble(m))
    <3>1. part' = "content"
      BY <1>1, <1>16, <2>2
    <3>2. m \in 0..Len(pictures)
      <4>1. ASSUME m = Len(pictures) + 1 PROVE FALSE
        <5>1. Len(Item(m)) = 2 /\ Len(Preamble(m)) = 10
          BY <1>3, <1>9, <1>12, <4>1
        <5>2. QED  BY <1>13, <2>2, <5>1
      <4>2. QED  BY <1>10, <4>1
    <3>3. k + 1 < Len(Item(m)) /\ k + 1 = Len(Preamble(m)) + Len(<<>>)
      BY <1>11, <2>2, <3>2, NoBytes
    <3>4. Text(m) \in Seq(Byte)
      BY <1>3, <3>2, TextTyped
    <3>5. matched' = 0 /\ buffer' = <<>> /\ Len(<<>>) = 0
      BY <1>1, <1>5
    <3>6. QED  BY <1>2, <1>17, <3>1, <3>2, <3>3, <3>4, <3>5 DEF InContent, Preamble
  <2>3. QED  BY <2>1, <2>2
<1>19. Laid(Before(cut))'
  BY <1>1, <1>2, <1>3, <1>4, LaidShifts
<1>20. Before(cut)[m] = 0 - (k + 1)
  <2>1. cut[m] \in Int /\ cut[m] = 0 - k /\ Before(cut)[m] = cut[m] - 1
    BY <1>4 DEF Before
  <2>2. QED  BY <2>1
<1>21. QED  BY <1>1, <1>2, <1>4, <1>18, <1>19, <1>20 DEF Follows

(* The content *)

(* A text and the boundary after it are not found before both have passed, *)
(* for the text does not contain the boundary and matching starts again    *)
(* with the line break.                                                    *)
LEMMA BoundaryPasses ==
  ASSUME NEW m \in Nat, NEW q \in Nat, NEW c \in Byte, TypeInv, m \in 0..Len(pictures),
         q = Len(buffer), q < Len(Content(m)), c = Content(m)[q + 1],
         \A j \in 1..q : buffer[j] = Content(m)[j],
         matched <= q, \A j \in 1..matched : buffer[q - matched + j] = Boundary[j],
         q >= Len(Text(m)) + 2 => matched = q - Len(Text(m)) - 2
  PROVE  /\ search_pattern_compare(c) <= q + 1
         /\ search_pattern_compare(c) = 3 <=> q + 1 = Len(Text(m)) + 5
         /\ q + 1 >= Len(Text(m)) + 2 => search_pattern_compare(c) = q + 1 - Len(Text(m)) - 2
<1> DEFINE L == Len(Text(m))
           s == search_pattern_compare(c)
           C == Content(m)
<1>1. Text(m) \in Seq(Byte) /\ ~Occurs(Boundary, Text(m))
  BY TextTyped DEF TypeInv, TypeOK
<1>2. /\ Len(C) = L + 5 /\ \A j \in 1..L : C[j] = Text(m)[j]
      /\ C[L + 1] = "cr" /\ C[L + 2] = "lf" /\ C[L + 3] = "-" /\ C[L + 4] = "-" /\ C[L + 5] = "b"
  BY ContentTyped DEF TypeInv, TypeOK
<1>3. L \in Nat
  BY <1>1
<1>4. matched \in 0..2
  BY Letters DEF TypeInv, TypeOK
<1>5. Boundary[1] = "-" /\ Boundary[2] = "-" /\ Boundary[3] = "b"
  BY DEF Boundary
<1>6. s = IF Boundary[matched + 1] = c THEN matched + 1 ELSE 0
  BY DEF search_pattern_compare
<1> HIDE DEF s, L, C
<1>7. q <= L + 4 /\ c = C[q + 1]
  BY <1>2, <1>3 DEF C
<1>8. CASE q + 1 <= L
  <2>1. ASSUME s = 3 PROVE FALSE
    <3>1. matched = 2 /\ c = "b" /\ q >= 2
      BY <1>4, <1>5, <1>6, <2>1
    <3>2. buffer[q - 1] = "-" /\ buffer[q] = "-"
      <4>1. \A j \in 1..2 : buffer[q - 2 + j] = Boundary[j]
        BY <3>1
      <4>2. buffer[q - 2 + 1] = "-" /\ buffer[q - 2 + 2] = "-"
        BY <1>5, <4>1
      <4>3. QED  BY <4>2
    <3>3. C[q - 1] = "-" /\ C[q] = "-" /\ C[q + 1] = "b"
      BY <1>7, <3>1, <3>2 DEF C
    <3>4. Text(m)[q - 1] = "-" /\ Text(m)[q] = "-" /\ Text(m)[q + 1] = "b"
      BY <1>2, <1>3, <1>8, <3>1, <3>3
    <3>5. Text(m)[(q - 2) + 1] = "-" /\ Text(m)[(q - 2) + 2] = "-" /\ Text(m)[(q - 2) + 3] = "b"
      BY <3>4
    <3>6. \A j \in 1..3 : Text(m)[(q - 2) + j] = Boundary[j]
      BY <1>5, <3>5
    <3>7. q - 2 \in 0..(Len(Text(m)) - Len(Boundary)) /\ Len(Boundary) = 3
      BY <1>3, <1>8, <3>1, Letters DEF L
    <3>8. Occurs(Boundary, Text(m))
      BY <3>6, <3>7 DEF Occurs
    <3>9. QED  BY <1>1, <3>8
  <2>2. s <= q + 1
    BY <1>4, <1>6
  <2>3. QED  BY <1>3, <1>8, <2>1, <2>2 DEF L, s
<1>9. CASE q + 1 = L + 1 \/ q + 1 = L + 2
  <2>1. c = "cr" \/ c = "lf"
    BY <1>2, <1>3, <1>7, <1>9
  <2>2. s = 0
    BY <1>4, <1>5, <1>6, <2>1
  <2>3. QED  BY <1>3, <1>9, <2>2 DEF L, s
<1>10. CASE q + 1 >= L + 3
  <2>1. matched = q - L - 2
    BY <1>3, <1>10 DEF L
  <2>2. matched + 1 = q + 1 - L - 2
    BY <1>3, <2>1
  <2>3. q = L + 2 \/ q = L + 3 \/ q = L + 4
    BY <1>3, <1>7, <1>10
  <2>4. Boundary[matched + 1] = c
    <3>1. CASE q = L + 2
      BY <1>2, <1>3, <1>5, <1>7, <2>1, <3>1
    <3>2. CASE q = L + 3
      BY <1>2, <1>3, <1>5, <1>7, <2>1, <3>2
    <3>3. CASE q = L + 4
      BY <1>2, <1>3, <1>5, <1>7, <2>1, <3>3
    <3>4. QED  BY <2>3, <3>1, <3>2, <3>3
  <2>5. s = q + 1 - L - 2
    BY <1>6, <2>2, <2>4
  <2>6. QED  BY <1>3, <1>10, <2>3, <2>5 DEF L, s
<1>11. QED  BY <1>3, <1>8, <1>9, <1>10

(* In the content of an item the next byte is that after what the buffer   *)
(* holds.                                                                  *)
LEMMA ContentAt ==
  ASSUME NEW cut \in [Nat -> Int], NEW m \in Nat, NEW k \in Nat,
         TypeInv, Follows(cut, m, k), NextByte, part = "content"
  PROVE  /\ m \in 0..Len(pictures) /\ InContent(m, k) /\ m = Len(published)
         /\ Len(buffer) < Len(Content(m)) /\ Head(net) = Content(m)[Len(buffer) + 1]
         /\ k = Len(Preamble(m)) + Len(buffer) /\ Len(buffer) \in Nat
<1>1. net # <<>> /\ net' = Tail(net) /\ wire' = wire
  BY DEF NextByte, server
<1>2. pictures \in Seq(Pictures) /\ Len(pictures) \in Nat /\ buffer \in Seq(Byte)
  BY DEF TypeInv, TypeOK
<1>3. /\ m = Len(published) /\ m <= Len(pictures) + 1 /\ cut[m] = 0 - k /\ InContent(m, k) /\ Laid(cut)
  BY DEF Follows, InPreamble
<1>4. m \in 0..Len(pictures) /\ k = Len(Preamble(m)) + Len(buffer) /\ k < Len(Item(m))
  BY <1>2, <1>3 DEF InContent
<1>5. Len(buffer) \in Nat
  BY <1>2
<1>6. /\ Len(Item(m)) = Len(Preamble(m)) + Len(Content(m))
      /\ \A j \in 1..Len(Content(m)) : Item(m)[Len(Preamble(m)) + j] = Content(m)[j]
  BY <1>2, <1>4, ItemTyped
<1>7. Len(Preamble(m)) \in Nat /\ Len(Content(m)) \in Nat
  <2>1. Preamble(m) \in Seq(Byte) /\ Content(m) \in Seq(Byte)
    BY <1>2, <1>4, PreambleTyped, ContentTyped
  <2>2. QED  BY <2>1
<1>8. Head(net) = Item(m)[k + 1]
  BY <1>1, <1>3, <1>4, NextLetter
<1>9. Len(buffer) < Len(Content(m))
  BY <1>4, <1>5, <1>6, <1>7
<1>10. k + 1 = Len(Preamble(m)) + (Len(buffer) + 1) /\ Len(buffer) + 1 \in 1..Len(Content(m))
  BY <1>4, <1>5, <1>7, <1>9
<1>11. Head(net) = Content(m)[Len(buffer) + 1]
  BY <1>6, <1>8, <1>10
<1>12. QED  BY <1>3, <1>4, <1>5, <1>9, <1>11

(* Every byte of a content is one more of it, until the boundary has       *)
(* passed.                                                                 *)
LEMMA ContentStep ==
  ASSUME NEW cut \in [Nat -> Int], NEW m \in Nat, NEW k \in Nat,
         TypeInv, Follows(cut, m, k), ContentByte
  PROVE  Follows(Before(cut), m, k + 1)'
<1>1. /\ NextByte /\ part = "content" /\ search_pattern_compare(Head(net)) < 3
      /\ matched' = search_pattern_compare(Head(net)) /\ buffer' = Append(buffer, Head(net))
      /\ part' = part /\ published' = published
  BY Letters DEF ContentByte, picture
<1>2. net # <<>> /\ net' = Tail(net) /\ wire' = wire /\ up' = up /\ pictures' = pictures
  BY <1>1 DEF NextByte, server
<1>3. pictures \in Seq(Pictures) /\ buffer \in Seq(Byte) /\ Head(net) \in Byte
  BY <1>1, ByteType DEF TypeInv, TypeOK
<1>4. Len(published) \in Nat
  <2>1. published \in Seq(Seq(Byte))
    BY DEF TypeInv, TypeOK
  <2>2. QED  BY <2>1
<1>5. PICK q \in Nat : q = Len(buffer)
  BY <1>3
<1>6. PICK c \in Byte : c = Head(net)
  BY <1>3
<1>7. PICK t \in Int : t = search_pattern_compare(c)
  <2>1. search_pattern_compare(c) \in 0..3
    BY CompareTyped DEF TypeInv
  <2>2. QED  BY <2>1
<1>8. /\ m \in 0..Len(pictures) /\ InContent(m, k) /\ m = Len(published)
      /\ q < Len(Content(m)) /\ c = Content(m)[q + 1] /\ k = Len(Preamble(m)) + q
  BY <1>1, <1>5, <1>6, ContentAt
<1>9. /\ \A j \in 1..q : buffer[j] = Content(m)[j]
      /\ matched <= q /\ \A j \in 1..matched : buffer[q - matched + j] = Boundary[j]
      /\ (q >= Len(Text(m)) + 2 => matched = q - Len(Text(m)) - 2)
  BY <1>5, <1>8 DEF InContent
<1>10. /\ t <= q + 1 /\ (t = 3 <=> q + 1 = Len(Text(m)) + 5)
       /\ (q + 1 >= Len(Text(m)) + 2 => t = q + 1 - Len(Text(m)) - 2)
  BY <1>5, <1>7, <1>8, <1>9, BoundaryPasses
<1>11. /\ Len(buffer') = q + 1 /\ \A j \in 1..q : buffer'[j] = buffer[j]
       /\ buffer'[q + 1] = c
  <2>1. /\ Len(buffer') = Len(buffer) + 1 /\ \A j \in 1..Len(buffer) : buffer'[j] = buffer[j]
        /\ buffer'[Len(buffer) + 1] = c
    BY <1>1, <1>3, <1>6, WithOneMore
  <2>2. QED  BY <1>5, <2>1
<1>12. part' = "content" /\ matched' = t /\ t < 3
  BY <1>1, <1>6, <1>7
<1>13. Text(m) \in Seq(Byte) /\ Len(Item(m)) = Len(Preamble(m)) + Len(Text(m)) + 5
  BY <1>3, <1>8, TextTyped, ItemLonger
<1>14. Len(Text(m)) \in Nat /\ Len(Preamble(m)) \in Nat /\ Len(Content(m)) = Len(Text(m)) + 5
  <2>1. Preamble(m) \in Seq(Byte)
    BY PreambleTyped
  <2>2. Len(Content(m)) = Len(Text(m)) + 5
    BY <1>3, <1>8, ContentTyped
  <2>3. QED  BY <1>13, <2>1, <2>2
<1>15. k + 1 = Len(Preamble(m)) + Len(buffer') /\ k + 1 < Len(Item(m))
  <2>a. q < Len(Text(m)) + 5
    BY <1>8, <1>14
  <2>b. t # 3
    BY <1>12
  <2>c. q + 1 # Len(Text(m)) + 5
    BY <1>10, <2>b
  <2>1. q + 1 <= Len(Text(m)) + 5 /\ q + 1 # Len(Text(m)) + 5
    BY <1>14, <2>a, <2>c
  <2>2. q + 1 < Len(Text(m)) + 5
    BY <1>14, <2>1
  <2>3. k + 1 = Len(Preamble(m)) + (q + 1)
    BY <1>8, <1>14
  <2>4. k + 1 < Len(Preamble(m)) + Len(Text(m)) + 5
    BY <1>14, <2>2, <2>3
  <2>5. k + 1 < Len(Item(m))
    BY <1>13, <2>4
  <2>6. QED  BY <1>11, <2>3, <2>5
<1>16. \A j \in 1..Len(buffer') : buffer'[j] = Content(m)[j]
  <2> SUFFICES ASSUME NEW j \in 1..(q + 1) PROVE buffer'[j] = Content(m)[j]
    BY <1>11
  <2>1. j \in 1..q \/ j = q + 1
    OBVIOUS
  <2>2. QED  BY <1>8, <1>9, <1>11, <2>1
<1>17. \A j \in 1..t : buffer'[(q + 1) - t + j] = Boundary[j]
  <2>1. CASE t = 0
    BY <2>1
  <2>2. CASE t # 0
    <3>1. matched \in Nat
      BY DEF TypeInv, TypeOK
    <3>2. t = matched + 1 /\ Boundary[matched + 1] = c
      BY <1>7, <2>2 DEF search_pattern_compare
    <3>3. (q + 1) - t = q - matched
      BY <3>1, <3>2
    <3>4. ASSUME NEW j \in 1..t PROVE buffer'[(q - matched) + j] = Boundary[j]
      <4>1. CASE j = matched + 1
        <5>1. (q - matched) + j = q + 1
          BY <3>1, <4>1
        <5>2. QED  BY <1>11, <3>2, <4>1, <5>1
      <4>2. CASE j # matched + 1
        <5>1. j \in 1..matched
          BY <3>1, <3>2, <4>2
        <5>2. q - matched + j \in 1..q
          BY <1>9, <3>1, <5>1
        <5>3. buffer[q - matched + j] = Boundary[j]
          BY <1>9, <5>1
        <5>4. QED  BY <1>11, <5>2, <5>3
      <4>3. QED  BY <4>1, <4>2
    <3>5. QED  BY <3>3, <3>4
  <2>3. QED  BY <2>1, <2>2
<1>18. Item(m)' = Item(m) /\ Content(m)' = Content(m) /\ Text(m)' = Text(m)
  BY <1>2 DEF Item, Content, Text, Preamble
<1>19. m <= Len(pictures)
  BY <1>3, <1>8
<1>20. InContent(m, k + 1)'
  <2>1. /\ matched' <= Len(buffer')
        /\ \A j \in 1..matched' : buffer'[Len(buffer') - matched' + j] = Boundary[j]
    BY <1>10, <1>11, <1>12, <1>17
  <2>2. Len(buffer') >= Len(Text(m)) + 2 => matched' = Len(buffer') - Len(Text(m)) - 2
    <3>1. q + 1 >= Len(Text(m)) + 2 => t = q + 1 - Len(Text(m)) - 2
      BY <1>10
    <3>2. Len(buffer') = q + 1 /\ matched' = t
      BY <1>11, <1>12
    <3>3. QED  BY <3>1, <3>2
  <2>3. QED  BY <1>2, <1>12, <1>15, <1>16, <1>18, <1>19, <2>1, <2>2 DEF InContent, Preamble
<1>21. Laid(Before(cut))'
  BY <1>1, <1>2, <1>4, LaidShifts DEF Follows
<1>22. Before(cut)[m] = 0 - (k + 1)
  <2>1. cut[m] \in Int /\ cut[m] = 0 - k /\ Before(cut)[m] = cut[m] - 1
    BY DEF Before, Follows
  <2>2. QED  BY <2>1
<1>23. QED  BY <1>1, <1>2, <1>20, <1>21, <1>22 DEF Follows

(* The last byte of a boundary publishes the text before it, which fits,   *)
(* and begins the next item.                                               *)
LEMMA LastStep ==
  ASSUME NEW cut \in [Nat -> Int], NEW m \in Nat, NEW k \in Nat,
         TypeInv, Follows(cut, m, k), LastByte
  PROVE  /\ m = Len(published) /\ m \in 0..Len(pictures) /\ Fits(Text(m))
         /\ published' = Append(published, Text(m))
         /\ store'.size \in 0..BUFFER_SIZE
         /\ Follows(Before(cut), m + 1, 0)'
<1>1. /\ NextByte /\ part = "content" /\ ~TooSmall /\ search_pattern_compare(Head(net)) = 3
      /\ part' = "header" /\ last_four_bytes' = Zeros /\ matched' = 0 /\ buffer' = <<>>
  BY Letters DEF LastByte, Reset
<1>2. net # <<>> /\ net' = Tail(net) /\ wire' = wire /\ up' = up /\ pictures' = pictures
  BY <1>1 DEF NextByte, server
<1>3. pictures \in Seq(Pictures) /\ buffer \in Seq(Byte) /\ Head(net) \in Byte
  BY <1>1, ByteType DEF TypeInv, TypeOK
<1>4. published \in Seq(Seq(Byte)) /\ Len(published) \in Nat /\ Len(pictures) \in Nat
  <2>1. published \in Seq(Seq(Byte)) /\ pictures \in Seq(Pictures)
    BY DEF TypeInv, TypeOK
  <2>2. QED  BY <2>1
<1>5. PICK q \in Nat : q = Len(buffer)
  BY <1>3
<1>6. PICK c \in Byte : c = Head(net)
  BY <1>3
<1>7. /\ m \in 0..Len(pictures) /\ InContent(m, k) /\ m = Len(published)
      /\ q < Len(Content(m)) /\ c = Content(m)[q + 1] /\ k = Len(Preamble(m)) + q
  BY <1>1, <1>5, <1>6, ContentAt
<1>8. /\ \A j \in 1..q : buffer[j] = Content(m)[j]
      /\ matched <= q /\ \A j \in 1..matched : buffer[q - matched + j] = Boundary[j]
      /\ (q >= Len(Text(m)) + 2 => matched = q - Len(Text(m)) - 2)
  BY <1>5, <1>7 DEF InContent
<1>9. Text(m) \in Seq(Byte) /\ Len(Item(m)) = Len(Preamble(m)) + Len(Text(m)) + 5
  BY <1>3, <1>7, TextTyped, ItemLonger
<1>10. PICK L \in Nat : L = Len(Text(m))
  BY <1>9
<1>11. q + 1 = L + 5
  <2>1. search_pattern_compare(c) = 3 <=> q + 1 = Len(Text(m)) + 5
    BY <1>5, <1>7, <1>8, BoundaryPasses
  <2>2. search_pattern_compare(c) = 3
    BY <1>1, <1>6
  <2>3. QED  BY <1>10, <2>1, <2>2
<1>12. Len(Boundary) = 3
  BY Letters
<1>13. q < BUFFER_SIZE - 1 /\ BUFFER_SIZE \in Nat
  BY <1>1, <1>5, Sizes DEF TooSmall
<1>14. Fits(Text(m))
  BY <1>10, <1>11, <1>12, <1>13 DEF Fits
<1>15. ImageLength(Len(buffer) + 1) = L
  BY <1>5, <1>11, <1>12 DEF ImageLength
<1>16. SubSeq(buffer, 1, L) = Text(m)
  <2>1. /\ SubSeq(buffer, 1, L) \in Seq(Byte) /\ Len(SubSeq(buffer, 1, L)) = L
        /\ \A j \in 1..L : SubSeq(buffer, 1, L)[j] = buffer[j]
    <3>1. L <= Len(buffer) /\ L \in Int /\ L >= 0
      BY <1>5, <1>11
    <3>2. QED  BY <1>3, <3>1, Beginning
  <2>2. \A j \in 1..L : Content(m)[j] = Text(m)[j]
    BY <1>3, <1>7, <1>10, ContentTyped
  <2>3. \A j \in 1..L : SubSeq(buffer, 1, L)[j] = Text(m)[j]
    BY <1>8, <1>11, <2>1, <2>2
  <2>4. QED  BY <1>9, <1>10, <2>1, <2>3, SeqEqual
<1>17. store' = [size |-> L, bytes |-> Text(m)] /\ published' = Append(published, store'.bytes)
  BY <1>15, <1>16 DEF LastByte, on_image_received
<1>18. published' = Append(published, Text(m)) /\ store'.size = L
  BY <1>17
<1>19. L \in 0..BUFFER_SIZE
  BY <1>11, <1>13
<1>20. Len(published') = m + 1
  BY <1>4, <1>7, <1>9, <1>18
<1>21. Laid(Before(cut))'
  <2>1. Len(published') \in Nat /\ Len(published') >= Len(published)
    BY <1>7, <1>20
  <2>2. QED  BY <1>2, <1>4, <2>1, LaidShifts DEF Follows
<1>22. Before(cut)[m + 1] = 0 - 0
  <2>1. cut[m + 1] = cut[m] + Len(Item(m)) /\ cut[m] = 0 - k
    <3>1. m \in Items \ {Len(pictures) + 1}
      BY <1>4, <1>7 DEF Items
    <3>2. QED  BY <3>1 DEF Follows, Laid
  <2>2. Preamble(m) \in Seq(Byte)
    BY PreambleTyped
  <2>a. Len(Preamble(m)) \in Nat
    BY <2>2
  <2>3. Len(Item(m)) = k + 1
    <3>1. Len(Item(m)) = Len(Preamble(m)) + L + 5 /\ k = Len(Preamble(m)) + q
      BY <1>7, <1>9, <1>10
    <3>2. QED  BY <1>11, <2>a, <3>1
  <2>4. cut[m + 1] = 1
    BY <2>1, <2>3
  <2>5. QED  BY <2>4 DEF Before
<1>23. InPreamble(m + 1, 0)'
  <2>1. Preamble(m + 1) \in Seq(Byte) /\ Len(Preamble(m + 1)) = 10
    <3>1. m + 1 \in Nat /\ m + 1 # 0
      OBVIOUS
    <3>2. QED  BY <3>1, PreambleTyped
  <2>2. \A j \in 1..4 : Zeros[j] = (Zeros \o Preamble(m + 1))[0 + j]
    <3>1. Zeros \in Seq(Byte) /\ Preamble(m + 1) \in Seq(Byte)
      BY <2>1, Letters
    <3>2. \A j \in 1..Len(Zeros) : (Zeros \o Preamble(m + 1))[j] = Zeros[j]
      BY <3>1, EndToEnd
    <3>3. Len(Zeros) = 4
      BY Letters
    <3>4. \A j \in 1..4 : 0 + j = j
      OBVIOUS
    <3>5. QED  BY <3>2, <3>3, <3>4
  <2>3. 0 < Len(Preamble(m + 1))
    <3>1. Len(Preamble(m + 1)) = 10
      BY <2>1
    <3>2. \A x : x = 10 => 0 < x
      OBVIOUS
    <3>3. QED  BY ONLY <3>1, <3>2
  <2>4. QED  BY <1>1, <2>2, <2>3 DEF InPreamble, Preamble
<1>24. m + 1 <= Len(pictures) + 1
  BY <1>4, <1>7
<1>25. \A i \in 1..((m + 1) - 1) : Fits(pictures[i])
  <2> SUFFICES ASSUME NEW i \in 1..m PROVE Fits(pictures[i])
    OBVIOUS
  <2>1. CASE i = m
    BY <1>14, <2>1 DEF Text
  <2>2. CASE i # m
    BY <2>2 DEF Follows
  <2>3. QED  BY <2>1, <2>2
<1>26. Follows(Before(cut), m + 1, 0)'
  BY <1>2, <1>20, <1>21, <1>22, <1>23, <1>24, <1>25 DEF Follows
<1>27. QED  BY <1>7, <1>14, <1>18, <1>19, <1>26

(* Steps of the connection *)

(* What is followed is still followed when nothing is looked at, and what  *)
(* is pending stays or is cut short by a connection that broke.            *)
LEMMA FollowsStays ==
  ASSUME NEW cut \in [Nat -> Int], NEW m \in Nat, NEW k \in Nat, TypeInv, Follows(cut, m, k),
         UNCHANGED <<extractor, pictures, published>>,
         Pending \in Seq(Byte), Pending' \in Seq(Byte), Len(Pending') <= Len(Pending),
         \A j \in 1..Len(Pending') : Pending'[j] = Pending[j],
         up' => up /\ Len(Pending') = Len(Pending)
  PROVE  Follows(cut, m, k)'
<1>1. Len(pictures) \in Nat /\ Len(Pending) \in Nat /\ Len(Pending') \in Nat
  <2>1. pictures \in Seq(Pictures)
    BY DEF TypeInv, TypeOK
  <2>2. QED  BY <2>1
<1>2. \A i \in Nat : Item(i)' = Item(i) /\ Content(i)' = Content(i) /\ Text(i)' = Text(i)
  BY DEF Item, Preamble, Content, Text
<1>3. Items' = Items
  BY DEF Items
<1>a. Items \subseteq Nat
  <2>1. published \in Seq(Seq(Byte))
    BY DEF TypeInv, TypeOK
  <2>2. Len(published) \in Nat
    BY <2>1
  <2>3. QED  BY <1>1, <2>2 DEF Items
<1>4. cut[Len(pictures) + 1] \in Int
  BY <1>1
<1>5. ASSUME NEW i \in Items', NEW j \in 1..Len(Item(i)'), cut[i] + j \in 1..Len(Pending')
      PROVE  Pending'[cut[i] + j] = Item(i)'[j]
  <2>1. i \in Items /\ Item(i)' = Item(i)
    BY <1>2, <1>3, <1>a
  <2>a. cut[i] + j \in 1..Len(Pending')
    BY <1>5
  <2>2. cut[i] + j \in 1..Len(Pending)
    BY <1>1, <2>a
  <2>3. Pending[cut[i] + j] = Item(i)[j]
    BY <2>1, <2>2 DEF Follows, Laid
  <2>4. QED  BY <2>1, <2>3, <2>a
<1>6. Len(Pending') <= cut[Len(pictures) + 1] + 2
  <2>1. Len(Pending) <= cut[Len(pictures) + 1] + 2
    BY DEF Follows, Laid
  <2>2. QED  BY <1>1, <1>4, <2>1
<1>7. up' => Len(Pending') = cut[Len(pictures) + 1] + 2
  <2>1. up => Len(Pending) = cut[Len(pictures) + 1] + 2
    BY DEF Follows, Laid
  <2>2. QED  BY <2>1
<1>8. \A i \in Items' \ {Len(pictures) + 1} : cut[i + 1] = cut[i] + Len(Item(i)')
  <2>1. \A i \in Items \ {Len(pictures) + 1} : cut[i + 1] = cut[i] + Len(Item(i))
    BY DEF Follows, Laid
  <2>2. \A i \in Items : Item(i)' = Item(i)
    BY <1>2, <1>a
  <2>3. QED  BY <1>3, <2>1, <2>2
<1>9. \A i \in Items' : cut[i] <= cut[Len(pictures) + 1]
  BY <1>3 DEF Follows, Laid
<1>10. Laid(cut)'
  BY <1>5, <1>6, <1>7, <1>8, <1>9 DEF Laid
<1>11. InPreamble(m, k)' \/ InContent(m, k)'
  <2>1. InPreamble(m, k) \/ InContent(m, k)
    BY DEF Follows
  <2>2. CASE InPreamble(m, k)
    BY <2>2 DEF InPreamble, Preamble, extractor
  <2>3. CASE InContent(m, k)
    BY <1>2, <2>3 DEF InContent, Preamble, extractor
  <2>4. QED  BY <2>1, <2>2, <2>3
<1>12. QED  BY <1>10, <1>11 DEF Follows

(* A connection begins with the reply, of which nothing was looked at.     *)
LEMMA FollowsConnect ==
  ASSUME TypeInv, Connect
  PROVE  Follows([i \in Nat |-> IF i = 0 THEN 0 ELSE 12], 0, 0)'
<1> DEFINE cut == [i \in Nat |-> IF i = 0 THEN 0 ELSE 12]
           item == StatusLine \o (ReplyText \o LineBreak \o Boundary)
<1>1. cut[0] = 0 /\ cut[1] = 12
  OBVIOUS
<1>2. /\ pictures' = <<>> /\ published' = <<>> /\ wire' = Reply /\ net' = <<>> /\ net = <<>>
      /\ part' = "header" /\ last_four_bytes' = Zeros /\ matched' = 0 /\ buffer' = <<>>
  BY DEF Connect, Step, Reset, TypeInv
<1>3. /\ item \in Seq(Byte) /\ Len(item) = 12
      /\ Reply \in Seq(Byte) /\ Len(Reply) = 14
      /\ \A j \in 1..12 : Reply[j] = item[j]
      /\ \A j \in 1..2 : Reply[12 + j] = LineBreak[j]
  BY ReplyTyped
<1>4. Pending' = Reply
  BY <1>2, <1>3 DEF Pending
<1>5. Len(<<>>) = 0
  BY NoBytes
<1>6. Item(0)' = item /\ Item(1)' = LineBreak
  BY <1>2, <1>5 DEF Item, Preamble, Content, Text
<1>7. Items' = {0, 1}
  BY <1>2, <1>5 DEF Items
<1>8. Len(LineBreak) = 2
  BY Letters
<1> HIDE DEF cut, item
<1>9. Laid(cut)'
  <2>1. Len(pictures') + 1 = 1
    BY <1>2, <1>5
  <2>2. \A i \in Items' \ {1} : cut[i + 1] = cut[i] + Len(Item(i)')
    <3>1. Items' \ {1} = {0}
      BY <1>7
    <3>2. cut[1] = cut[0] + Len(item)
      BY <1>1, <1>3
    <3>3. cut[0 + 1] = cut[0] + Len(Item(0)')
      BY <1>6, <3>2
    <3>4. QED  BY <3>1, <3>3
  <2>3. \A i \in Items' : cut[i] <= cut[1]
    BY <1>1, <1>7
  <2>4. \A i \in Items' : \A j \in 1..Len(Item(i)') :
          cut[i] + j \in 1..Len(Pending') => Pending'[cut[i] + j] = Item(i)'[j]
    <3>1. \A j \in 1..Len(Item(0)') : Pending'[cut[0] + j] = Item(0)'[j]
      <4>1. \A j \in 1..12 : Pending'[0 + j] = item[j]
        BY <1>3, <1>4
      <4>2. QED  BY <1>1, <1>3, <1>6, <4>1
    <3>2. \A j \in 1..Len(Item(1)') : Pending'[cut[1] + j] = Item(1)'[j]
      <4>1. \A j \in 1..2 : Pending'[12 + j] = LineBreak[j]
        BY <1>3, <1>4
      <4>2. QED  BY <1>1, <1>6, <1>8, <4>1
    <3>3. QED  BY <1>7, <3>1, <3>2
  <2>5. Len(Pending') = cut[1] + 2
    BY <1>1, <1>3, <1>4
  <2>6. QED  BY <2>1, <2>2, <2>3, <2>4, <2>5 DEF Laid
<1>10. InPreamble(0, 0)'
  <2>1. Preamble(0) \in Seq(Byte) /\ Len(Preamble(0)) = 4
    BY PreambleTyped
  <2>2. Zeros \in Seq(Byte) /\ Preamble(0) \in Seq(Byte)
    BY <2>1, Letters
  <2>3. \A j \in 1..Len(Zeros) : (Zeros \o Preamble(0))[j] = Zeros[j]
    BY <2>2, EndToEnd
  <2>4. Len(Zeros) = 4
    BY Letters
  <2>5. \A j \in 1..4 : Zeros[j] = (Zeros \o Preamble(0))[0 + j]
    BY <2>3, <2>4
  <2>6. 0 < Len(Preamble(0))
    BY <2>1
  <2>7. QED  BY <1>2, <2>5, <2>6 DEF InPreamble, Preamble
<1>11. 0 = Len(published') /\ 0 <= Len(pictures') + 1 /\ cut[0] = 0 - 0
  <2>1. Len(published') = 0 /\ Len(pictures') = 0
    BY <1>2, <1>5
  <2>2. cut[0] = 0 - 0
    BY <1>1
  <2>3. 0 <= 0 + 1
    OBVIOUS
  <2>4. QED  BY <2>1, <2>2, <2>3
<1>12. \A i \in 1..(0 - 1) : Fits(pictures'[i])
  OBVIOUS
<1>13. Follows(cut, 0, 0)'
  BY <1>9, <1>10, <1>11, <1>12 DEF Follows
<1>14. QED  BY <1>13 DEF cut

(* What is written comes behind what is pending.                           *)
LEMMA PendingGrows ==
  ASSUME net \in Seq(Byte), wire \in Seq(Byte), NEW bytes \in Seq(Byte)
  PROVE  net \o (wire \o bytes) = Pending \o bytes
<1>1. net \o (wire \o bytes) = (net \o wire) \o bytes
  BY Associates
<1>2. QED  BY <1>1 DEF Pending

(* A picture that is sent makes a whole item of the line break that was    *)
(* pending, and puts another behind it.                                    *)
LEMMA FollowsSend ==
  ASSUME NEW cut \in [Nat -> Int], NEW m \in Nat, NEW k \in Nat, TypeInv, Follows(cut, m, k),
         up, NEW p \in Pictures, wire' = wire \o Part(p), pictures' = Append(pictures, p),
         UNCHANGED <<extractor, net, published, up>>
  PROVE  \E b \in [Nat -> Int] : Follows(b, m, k)'
<1>1. /\ pictures \in Seq(Pictures) /\ net \in Seq(Byte) /\ wire \in Seq(Byte)
      /\ published \in Seq(Seq(Byte)) /\ p \in Seq(Byte)
  BY Sizes DEF TypeInv, TypeOK
<1>2. PICK n \in Nat : n = Len(pictures)
  BY <1>1
<1>3. PICK l \in Nat : l = Len(p)
  BY <1>1
<1>4. PICK w \in Nat : w = Len(Pending)
  BY <1>1 DEF Pending
<1> DEFINE item == (LineBreak \o PartHeader) \o (p \o LineBreak \o Boundary)
           b == [cut EXCEPT ![n + 2] = cut[n + 1] + l + 15]
<1>5. /\ item \in Seq(Byte) /\ Len(item) = l + 15
      /\ Part(p) \in Seq(Byte) /\ Len(Part(p)) = l + 15
      /\ \A j \in 1..2 : item[j] = LineBreak[j]
      /\ \A j \in 1..(l + 13) : item[j + 2] = Part(p)[j]
      /\ \A j \in 1..2 : Part(p)[l + 13 + j] = LineBreak[j]
  BY <1>1, <1>3, PartCompletes
<1>6. /\ Len(pictures') = n + 1 /\ pictures'[n + 1] = p
      /\ \A i \in 1..n : pictures'[i] = pictures[i]
  BY <1>1, <1>2
<1>a. PICK z \in Int : z = cut[n + 1]
  OBVIOUS
<1>7. /\ b \in [Nat -> Int] /\ b[n + 2] = z + l + 15 /\ b[n + 1] = z
      /\ \A i \in 0..(n + 1) : b[i] = cut[i] /\ cut[i] \in Int
  BY <1>a
<1>8. /\ m = Len(published) /\ m <= n + 1 /\ cut[m] = 0 - k /\ Laid(cut)
      /\ InPreamble(m, k) \/ InContent(m, k)
      /\ \A i \in 1..(m - 1) : Fits(pictures[i])
  BY <1>2 DEF Follows
<1>9. Items = m..(n + 1) /\ Items' = m..(n + 2)
  BY <1>2, <1>6, <1>8 DEF Items
<1>10. \A i \in 0..n : Text(i)' = Text(i) /\ Content(i)' = Content(i) /\ Item(i)' = Item(i)
  <2> SUFFICES ASSUME NEW i \in 0..n
               PROVE  Text(i)' = Text(i) /\ Content(i)' = Content(i) /\ Item(i)' = Item(i)
    OBVIOUS
  <2>1. Text(i)' = Text(i)
    BY <1>6 DEF Text
  <2>2. Content(i)' = Content(i)
    BY <2>1 DEF Content
  <2>3. i <= Len(pictures) /\ i <= Len(pictures')
    BY <1>2, <1>6
  <2>4. Item(i)' = Item(i)
    BY <2>2, <2>3 DEF Item, Preamble
  <2>5. QED  BY <2>1, <2>2, <2>4
<1>11. Item(n + 1)' = item /\ Item(n + 2)' = LineBreak
  <2>1. Text(n + 1)' = p
    BY <1>6 DEF Text
  <2>2. Content(n + 1)' = p \o LineBreak \o Boundary
    BY <2>1 DEF Content
  <2>3. Preamble(n + 1) = LineBreak \o PartHeader
    BY DEF Preamble
  <2>a. n + 1 <= Len(pictures')
    BY <1>6
  <2>4. Item(n + 1)' = item
    BY <2>2, <2>3, <2>a DEF Item, Preamble
  <2>5. ~(n + 2 <= Len(pictures'))
    BY <1>6
  <2>6. QED  BY <2>4, <2>5 DEF Item
<1>12. Item(n + 1) = LineBreak /\ Len(LineBreak) = 2
  BY <1>2, Letters DEF Item
<1>13. w = z + 2
  BY <1>2, <1>4, <1>8, <1>a DEF Laid
<1>b. \A i \in m..(n + 1) : cut[i] <= z
  BY <1>2, <1>8, <1>9, <1>a DEF Laid
<1>c. \A i \in m..n : cut[i + 1] = cut[i] + Len(Item(i))
  <2>1. \A i \in m..n : i \in Items \ {n + 1}
    BY <1>9
  <2>2. QED  BY <1>2, <1>8, <2>1 DEF Laid
<1>14. /\ Pending' \in Seq(Byte) /\ Len(Pending') = w + l + 15
       /\ \A j \in 1..w : Pending'[j] = Pending[j]
       /\ \A j \in 1..(l + 15) : Pending'[w + j] = Part(p)[j]
  <2>1. Pending \in Seq(Byte) /\ Pending' = net \o (wire \o Part(p))
    BY <1>1 DEF Pending
  <2>2. net \o (wire \o Part(p)) = Pending \o Part(p)
    BY <1>1, <1>5, PendingGrows
  <2>a. Part(p) \in Seq(Byte)
    BY <1>5
  <2>3. /\ Pending \o Part(p) \in Seq(Byte)
        /\ Len(Pending \o Part(p)) = Len(Pending) + Len(Part(p))
    BY <2>1, <2>a, EndToEnd
  <2>4. \A j \in 1..Len(Pending) : (Pending \o Part(p))[j] = Pending[j]
    BY <2>1, <2>a, EndToEnd
  <2>5. \A j \in 1..Len(Part(p)) : (Pending \o Part(p))[Len(Pending) + j] = Part(p)[j]
    BY <2>1, <2>a, EndToEnd
  <2>6. Len(Pending) = w /\ Len(Part(p)) = l + 15
    BY <1>4, <1>5
  <2>7. Pending' = Pending \o Part(p)
    BY <2>1, <2>2
  <2>8. Pending' \in Seq(Byte) /\ Len(Pending') = w + (l + 15)
    BY <2>3, <2>6, <2>7
  <2>9. \A j \in 1..w : Pending'[j] = Pending[j]
    BY <2>4, <2>6, <2>7
  <2>10. \A j \in 1..(l + 15) : Pending'[w + j] = Part(p)[j]
    BY <2>5, <2>6, <2>7
  <2>11. w + (l + 15) = w + l + 15
    OBVIOUS
  <2>12. QED  BY <2>8, <2>9, <2>10, <2>11
<1> HIDE DEF item, b
<1>15. ASSUME NEW i \in m..(n + 2), i # n + 2 PROVE b[i + 1] = b[i] + Len(Item(i)')
  <2>1. CASE i = n + 1
    <3>1. Len(Item(n + 1)') = l + 15 /\ b[n + 1] = z /\ b[n + 2] = z + l + 15
      BY <1>5, <1>7, <1>11
    <3>a. (n + 1) + 1 = n + 2 /\ z + l + 15 = z + (l + 15)
      OBVIOUS
    <3>2. b[(n + 1) + 1] = b[n + 1] + Len(Item(n + 1)')
      BY <3>1, <3>a
    <3>3. QED  BY <2>1, <3>2
  <2>2. CASE i # n + 1
    <3>1. i \in m..n /\ i \in 0..n /\ i \in 0..(n + 1) /\ i + 1 \in 0..(n + 1)
      BY <1>15, <2>2
    <3>2. cut[i + 1] = cut[i] + Len(Item(i))
      BY <1>c, <3>1
    <3>3. b[i + 1] = cut[i + 1] /\ b[i] = cut[i]
      BY <1>7, <3>1
    <3>4. QED  BY <1>10, <3>1, <3>2, <3>3
  <2>3. QED  BY <2>1, <2>2
<1>16. ASSUME NEW i \in m..(n + 2) PROVE b[i] <= b[n + 2]
  <2>1. CASE i = n + 2
    BY <1>7, <2>1
  <2>2. CASE i # n + 2
    <3>1. i \in m..(n + 1) /\ i \in 0..(n + 1)
      BY <2>2
    <3>2. cut[i] <= z /\ b[i] = cut[i] /\ cut[i] \in Int
      BY <1>7, <1>b, <3>1
    <3>3. cut[i] <= z + l + 15
      BY <3>2
    <3>4. QED  BY <1>7, <3>2, <3>3
  <2>3. QED  BY <2>1, <2>2
<1>17. ASSUME NEW i \in m..(n + 2), NEW j \in 1..Len(Item(i)'), b[i] + j \in 1..(w + l + 15)
       PROVE  Pending'[b[i] + j] = Item(i)'[j]
  <2>1. CASE i \in m..n
    <3>1. i \in Items /\ i \in 0..n /\ i \in 0..(n + 1) /\ i + 1 \in 0..(n + 1) /\ i + 1 \in m..(n + 1)
      BY <1>9, <2>1
    <3>2. Item(i)' = Item(i) /\ b[i] = cut[i]
      BY <1>7, <1>10, <3>1
    <3>3. PICK c \in Int : c = cut[i]
      BY <1>7, <3>1
    <3>4. PICK L \in Nat : L = Len(Item(i))
      <4>1. Item(i) \in Seq(Byte)
        BY <1>1, <1>2, <3>1, ItemTyped
      <4>2. QED  BY <4>1
    <3>5. c + L <= z
      <4>1. cut[i + 1] = c + L
        BY <1>c, <2>1, <3>3, <3>4
      <4>2. QED  BY <1>b, <3>1, <4>1
    <3>6. j \in 1..L
      BY <3>2, <3>4
    <3>7. c + j \in 1..(w + l + 15)
      BY <1>17, <3>2, <3>3
    <3>8. c + j \in 1..w
      BY <1>13, <3>5, <3>6, <3>7
    <3>9. Pending[c + j] = Item(i)[j]
      BY <1>4, <1>8, <3>1, <3>3, <3>4, <3>6, <3>8 DEF Laid
    <3>10. QED  BY <1>14, <3>2, <3>3, <3>8, <3>9
  <2>2. CASE i = n + 1
    <3>1. b[i] = z /\ z = w - 2 /\ Item(i)' = item
      BY <1>7, <1>11, <1>13, <2>2
    <3>2. j \in 1..(l + 15)
      BY <1>5, <3>1
    <3>3. z + j \in 1..(w + l + 15)
      BY <1>17, <3>1
    <3>4. CASE j <= 2
      <4>1. j \in 1..2
        BY <3>2, <3>4
      <4>2. item[j] = LineBreak[j]
        BY <1>5, <4>1
      <4>3. z + j \in 1..w
        BY <3>1, <3>3, <4>1
      <4>4. n + 1 \in Items
        BY <1>8, <1>9
      <4>5. j \in 1..Len(Item(n + 1))
        BY <1>12, <4>1
      <4>6. Pending[z + j] = Item(n + 1)[j]
        BY <1>4, <1>8, <1>a, <4>3, <4>4, <4>5 DEF Laid
      <4>7. QED  BY <1>12, <1>14, <3>1, <4>2, <4>3, <4>6
    <3>5. CASE j > 2
      <4>1. j - 2 \in 1..(l + 13) /\ j = (j - 2) + 2 /\ z + j = w + (j - 2)
        BY <3>1, <3>2, <3>5
      <4>2. item[(j - 2) + 2] = Part(p)[j - 2]
        BY <1>5, <4>1
      <4>3. j - 2 \in 1..(l + 15)
        BY <4>1
      <4>4. Pending'[w + (j - 2)] = Part(p)[j - 2]
        BY <1>14, <4>3
      <4>5. QED  BY <3>1, <4>1, <4>2, <4>4
    <3>6. j <= 2 \/ j > 2
      BY <3>2
    <3>7. QED  BY <3>4, <3>5, <3>6
  <2>3. CASE i = n + 2
    <3>1. Item(i)' = LineBreak /\ b[i] = z + l + 15
      BY <1>7, <1>11, <2>3
    <3>2. j \in 1..2
      BY <1>12, <3>1
    <3>3. (z + l + 15) + j = w + (l + 13 + j) /\ l + 13 + j \in 1..(l + 15)
      BY <1>13, <3>2
    <3>4. Pending'[w + (l + 13 + j)] = Part(p)[l + 13 + j]
      BY <1>14, <3>3
    <3>5. Part(p)[l + 13 + j] = LineBreak[j]
      BY <1>5, <3>2
    <3>6. QED  BY <3>1, <3>3, <3>4, <3>5
  <2>4. i \in m..n \/ i = n + 1 \/ i = n + 2
    OBVIOUS
  <2>5. QED  BY <2>1, <2>2, <2>3, <2>4
<1>18. Len(Pending') = b[n + 2] + 2
  <2>1. w + l + 15 = (z + l + 15) + 2
    BY <1>13
  <2>2. QED  BY <1>7, <1>14, <2>1
<1>19. Laid(b)'
  <2>1. Len(pictures') + 1 = n + 2
    BY <1>6
  <2>2. Items' = m..(n + 2)
    BY <1>9
  <2>3. Len(Pending') <= b[n + 2] + 2
    <3>1. b[n + 2] \in Int
      <4>1. z + l + 15 \in Int
        OBVIOUS
      <4>2. QED  BY <1>7, <4>1
    <3>2. b[n + 2] + 2 <= b[n + 2] + 2
      BY <3>1
    <3>3. QED  BY <1>18, <3>2
  <2>4. \A i \in Items' : \A j \in 1..Len(Item(i)') :
          b[i] + j \in 1..Len(Pending') => Pending'[b[i] + j] = Item(i)'[j]
    BY <1>14, <1>17, <2>2
  <2>5. \A i \in Items' \ {n + 2} : b[i + 1] = b[i] + Len(Item(i)')
    BY <1>15, <2>2
  <2>6. \A i \in Items' : b[i] <= b[n + 2]
    BY <1>16, <2>2
  <2>7. QED  BY <1>18, <2>1, <2>3, <2>4, <2>5, <2>6 DEF Laid
<1>20. InPreamble(m, k)' \/ InContent(m, k)'
  <2>1. CASE InPreamble(m, k)
    BY <2>1 DEF InPreamble, Preamble, extractor
  <2>2. CASE InContent(m, k)
    <3>1. m \in 0..n /\ m <= Len(pictures')
      BY <1>2, <1>6, <2>2 DEF InContent
    <3>2. Text(m)' = Text(m) /\ Content(m)' = Content(m) /\ Item(m)' = Item(m)
      BY <1>10, <3>1
    <3>3. QED  BY <2>2, <3>1, <3>2 DEF InContent, Preamble, extractor
  <2>3. QED  BY <1>8, <2>1, <2>2
<1>21. \A i \in 1..(m - 1) : Fits(pictures'[i])
  <2> SUFFICES ASSUME NEW i \in 1..(m - 1) PROVE Fits(pictures'[i])
    OBVIOUS
  <2>1. i \in 1..n
    BY <1>8
  <2>2. Fits(pictures[i])
    BY DEF Follows
  <2>3. QED  BY <1>6, <2>1, <2>2
<1>22. b[m] = 0 - k
  BY <1>7, <1>8
<1>23. m = Len(published') /\ m <= Len(pictures') + 1
  BY <1>6, <1>8
<1>24. Follows(b, m, k)'
  BY <1>19, <1>20, <1>21, <1>22, <1>23 DEF Follows
<1>25. QED  BY <1>7, <1>24

-----------------------------------------------------------------------------
(* The invariant *)

(* At the start there is no connection, and no picture.                    *)
LEMMA IInvInit == Init => IInv
<1> SUFFICES ASSUME Init PROVE IInv
  OBVIOUS
<1>1. ~Following /\ store.size = 0
  BY DEF Init, Following
<1>2. QED  BY <1>1, TypeInit, Sizes DEF IInv, StreamInv, LengthInBounds

(* The stream is followed after every step after which the worker is still *)
(* at a connection, and its buffer has room.                               *)
LEMMA StreamStep == ASSUME TypeInv, StreamInv, [Next]_vars PROVE StreamInv'
<1> SUFFICES ASSUME Following' PROVE \E cut \in [Nat -> Int] : \E m, k \in Nat : Follows(cut, m, k)'
  BY DEF StreamInv
<1>a. TypeInv'
  BY TypeStep
<1>b. net \in Seq(Byte) /\ wire \in Seq(Byte) /\ net' \in Seq(Byte) /\ wire' \in Seq(Byte)
  BY <1>a DEF TypeInv, TypeOK
<1>c. Pending \in Seq(Byte) /\ Pending' \in Seq(Byte)
  BY <1>b DEF Pending
<1>d. pc' \in {"recv", "extract"} /\ ~stop' /\ ~Stuck'
  BY DEF Following
<1>1. CASE Connect
  <2>1. [i \in Nat |-> IF i = 0 THEN 0 ELSE 12] \in [Nat -> Int]
    OBVIOUS
  <2>2. QED  BY <1>1, <2>1, FollowsConnect
<1>2. CASE ResolveFails \/ RecvEnds \/ Close \/ Cancel \/ Cleanup
  BY <1>2, <1>d DEF ResolveFails, RecvEnds, Close, Cancel, Cleanup, Step
<1>3. ASSUME Following, UNCHANGED <<extractor, pictures, published>>,
             Len(Pending') <= Len(Pending), \A j \in 1..Len(Pending') : Pending'[j] = Pending[j],
             up' => up /\ Len(Pending') = Len(Pending)
      PROVE  \E cut \in [Nat -> Int] : \E m, k \in Nat : Follows(cut, m, k)'
  <2>1. PICK cut \in [Nat -> Int], m \in Nat, k \in Nat : Follows(cut, m, k)
    BY <1>3 DEF StreamInv
  <2>2. Follows(cut, m, k)'
    BY <1>3, <1>c, <2>1, FollowsStays
  <2>3. QED  BY <2>2
<1>4. ASSUME Following, UNCHANGED <<extractor, pictures, published>>, Pending' = Pending, up' = up
      PROVE  \E cut \in [Nat -> Int] : \E m, k \in Nat : Follows(cut, m, k)'
  <2>1. Len(Pending) \in Nat
    BY <1>c
  <2>2. QED  BY <1>3, <1>4, <2>1
<1>5. ASSUME NEW n \in 1..NETBUFFER_SIZE, Recv(n)
      PROVE  \E cut \in [Nat -> Int] : \E m, k \in Nat : Follows(cut, m, k)'
  <2>1. /\ pc = "recv" /\ n <= Len(wire) /\ UNCHANGED <<stop, up, pictures, extractor, picture>>
        /\ net' = SubSeq(wire, 1, n) /\ wire' = SubSeq(wire, n + 1, Len(wire))
    BY <1>5 DEF Recv, Step
  <2>2. Following /\ UNCHANGED <<extractor, pictures, published>>
    BY <1>d, <2>1 DEF Following, Stuck, TooSmall, extractor, picture
  <2>3. net' \o wire' = wire
    BY <1>b, <2>1, Split
  <2>4. net = <<>>
    BY <2>1 DEF TypeInv
  <2>5. Pending = wire
    BY <1>b, <2>4 DEF Pending
  <2>6. Pending' = Pending
    BY <2>3, <2>5 DEF Pending
  <2>7. QED  BY <1>4, <2>1, <2>2, <2>6
<1>6. CASE HeaderByte
  <2>1. Following
    BY <1>6 DEF HeaderByte, NextByte, Following, Stuck
  <2>2. PICK cut \in [Nat -> Int], m \in Nat, k \in Nat : Follows(cut, m, k)
    BY <2>1 DEF StreamInv
  <2>3. Follows(Before(cut), m, k + 1)'
    BY <1>6, <2>2, HeaderStep
  <2>4. Before(cut) \in [Nat -> Int] /\ k + 1 \in Nat
    BY DEF Before
  <2>5. QED  BY <2>3, <2>4
<1>7. CASE DroppedByte
  BY <1>7, <1>d DEF DroppedByte, Stuck, TooSmall, extractor
<1>8. CASE ContentByte
  <2>1. Following
    BY <1>8 DEF ContentByte, NextByte, Following, Stuck
  <2>2. PICK cut \in [Nat -> Int], m \in Nat, k \in Nat : Follows(cut, m, k)
    BY <2>1 DEF StreamInv
  <2>3. Follows(Before(cut), m, k + 1)'
    BY <1>8, <2>2, ContentStep
  <2>4. Before(cut) \in [Nat -> Int] /\ k + 1 \in Nat
    BY DEF Before
  <2>5. QED  BY <2>3, <2>4
<1>9. CASE LastByte
  <2>1. Following
    BY <1>9 DEF LastByte, NextByte, Following, Stuck
  <2>2. PICK cut \in [Nat -> Int], m \in Nat, k \in Nat : Follows(cut, m, k)
    BY <2>1 DEF StreamInv
  <2>3. Follows(Before(cut), m + 1, 0)'
    BY <1>9, <2>2, LastStep
  <2>4. Before(cut) \in [Nat -> Int] /\ m + 1 \in Nat /\ 0 \in Nat
    BY DEF Before
  <2>5. QED  BY <2>3, <2>4
<1>10. CASE Extracted
  <2>1. /\ pc = "extract" /\ net = <<>> /\ net' = <<>>
        /\ UNCHANGED <<stop, wire, up, pictures, extractor, picture>>
    BY <1>10, <1>d DEF Extracted, server
  <2>2. Following /\ UNCHANGED <<extractor, pictures, published>>
    BY <1>d, <2>1 DEF Following, Stuck, TooSmall, extractor, picture
  <2>3. Pending' = Pending
    BY <2>1 DEF Pending
  <2>4. QED  BY <1>4, <2>1, <2>2, <2>3
<1>11. CASE SendPicture
  <2>1. PICK p \in Pictures : wire' = wire \o Part(p) /\ pictures' = Append(pictures, p)
    BY <1>11 DEF SendPicture
  <2>2. up /\ UNCHANGED <<stop, pc, extractor, net, published, up>>
    BY <1>11 DEF SendPicture, picture
  <2>3. Following
    BY <1>d, <2>2 DEF Following, Stuck, TooSmall, extractor
  <2>4. PICK cut \in [Nat -> Int], m \in Nat, k \in Nat : Follows(cut, m, k)
    BY <2>3 DEF StreamInv
  <2>5. \E b \in [Nat -> Int] : Follows(b, m, k)'
    BY <2>1, <2>2, <2>4, FollowsSend
  <2>6. QED  BY <2>5
<1>12. CASE Break
  <2>1. /\ ~up' /\ wire' \in {wire, <<>>}
        /\ UNCHANGED <<stop, pc, pictures, net, extractor, picture>>
    BY <1>12 DEF Break
  <2>2. Following /\ UNCHANGED <<extractor, pictures, published>>
    BY <1>d, <2>1 DEF Following, Stuck, TooSmall, extractor, picture
  <2>3. CASE wire' = wire
    <3>1. Pending' = Pending
      BY <2>1, <2>3 DEF Pending
    <3>2. Len(Pending) \in Nat
      BY <1>c
    <3>3. QED  BY <1>3, <2>1, <2>2, <3>1, <3>2
  <2>4. CASE wire' = <<>>
    <3>1. Pending' = net
      BY <1>b, <2>1, <2>4 DEF Pending
    <3>2. Len(Pending) = Len(net) + Len(wire) /\ \A j \in 1..Len(net) : Pending[j] = net[j]
      BY <1>b, EndToEnd DEF Pending
    <3>3. Len(net) \in Nat /\ Len(wire) \in Nat
      BY <1>b
    <3>4. Len(Pending') <= Len(Pending) /\ \A j \in 1..Len(Pending') : Pending'[j] = Pending[j]
      BY <3>1, <3>2, <3>3
    <3>5. QED  BY <1>3, <2>1, <2>2, <3>4
  <2>5. QED  BY <2>1, <2>3, <2>4
<1>13. CASE Stop
  BY <1>13, <1>d DEF Stop
<1>14. CASE UNCHANGED vars
  <2>1. Following /\ UNCHANGED <<extractor, pictures, published, up, net, wire>>
    BY <1>14, <1>d DEF vars, Following, Stuck, TooSmall, extractor, picture, server
  <2>2. Pending' = Pending
    BY <2>1 DEF Pending
  <2>3. QED  BY <1>4, <2>1, <2>2
<1>15. QED
  BY <1>1, <1>2, <1>5, <1>6, <1>7, <1>8, <1>9, <1>10, <1>11, <1>12, <1>13, <1>14 DEF Next, Extract

(* What is published fits.                                                 *)
LEMMA SizeStep == ASSUME TypeInv, StreamInv, LengthInBounds, [Next]_vars PROVE LengthInBounds'
<1>1. CASE LastByte
  <2>1. Following
    BY <1>1 DEF LastByte, NextByte, Following, Stuck
  <2>2. PICK cut \in [Nat -> Int], m \in Nat, k \in Nat : Follows(cut, m, k)
    BY <2>1 DEF StreamInv
  <2>3. QED  BY <1>1, <2>2, LastStep DEF LengthInBounds
<1>2. CASE ~LastByte
  <2>1. store' = store
    BY <1>2 DEF Next, Extract, Connect, ResolveFails, RecvEnds, Close, Cancel, Cleanup, Recv, HeaderByte,
      DroppedByte, ContentByte, Extracted, SendPicture, Break, Stop, vars, picture
  <2>2. QED  BY <2>1 DEF LengthInBounds
<1>3. QED  BY <1>1, <1>2

(* For any pictures, any sizes of the two buffers, any number of           *)
(* connections and any chunks in which recv delivers them, the extractor   *)
(* of mjpg-proxy.c is always at a place of the server's stream that its    *)
(* state tells: in a preamble with its last four bytes, or in a content    *)
(* with as much of it in its buffer as it has looked at.                   *)
THEOREM RelayInvariant == Spec => []IInv
<1>1. ASSUME IInv, [Next]_vars PROVE IInv'
  BY <1>1, TypeStep, StreamStep, SizeStep DEF IInv
<1>2. QED  BY <1>1, IInvInit, PTL DEF Spec

(* The picture that on_image_received publishes has a length of at least   *)
(* zero and of less than the buffer's size, where the length is the count  *)
(* of the buffer less the boundary and the line break before it.           *)
THEOREM LengthInBoundsHolds == Spec => []LengthInBounds
<1>1. IInv => LengthInBounds
  BY DEF IInv
<1>2. QED  BY <1>1, RelayInvariant, PTL

(* What is due next is the text of the item that is being read.            *)
LEMMA NextDue ==
  ASSUME TypeInv, NEW m \in 0..Len(pictures)
  PROVE  Relay!Due[m + 1] = Text(m) /\ Len(Relay!Due) = Len(pictures) + 1
<1> DEFINE s == <<ReplyText>>
           T == Seq(Byte)
           d == s \o pictures
<1>1. pictures \in Seq(T)
  BY Sizes DEF TypeInv, TypeOK
<1>2. s \in Seq(T) /\ Len(s) = 1 /\ s[1] = ReplyText
  BY Letters
<1>3. Relay!Due = d
  BY DEF Relay!Due
<1>a. s \in Seq(T)
  BY <1>2
<1> HIDE DEF s, T
<1>4. Len(d) = Len(s) + Len(pictures)
  BY <1>1, <1>a, EndToEnd
<1>5. \A j \in 1..Len(s) : d[j] = s[j]
  BY <1>1, <1>a, EndToEnd
<1>6. \A j \in 1..Len(pictures) : d[Len(s) + j] = pictures[j]
  BY <1>1, <1>a, EndToEnd
<1>7. Len(pictures) \in Nat
  BY <1>1
<1> HIDE DEF d
<1>8. d[m + 1] = Text(m)
  <2>1. CASE m = 0
    <3>1. d[1] = ReplyText
      BY <1>2, <1>5
    <3>2. QED  BY <2>1, <3>1 DEF Text
  <2>2. CASE m # 0
    <3>1. m \in 1..Len(pictures) /\ Len(s) + m = m + 1
      BY <1>2, <1>7, <2>2
    <3>2. d[Len(s) + m] = pictures[m]
      BY <1>6, <3>1
    <3>3. QED  BY <2>2, <3>1, <3>2 DEF Text
  <2>3. QED  BY <2>1, <2>2
<1>9. Len(d) = Len(pictures) + 1
  BY <1>2, <1>4, <1>7
<1>10. QED  BY <1>3, <1>8, <1>9

(* Every step of the plugin is one of the relay, or is not seen there.     *)
LEMMA RelayStep == ASSUME IInv, [Next]_vars PROVE [Relay!Next]_(Relay!vars)
<1>1. CASE Connect
  BY <1>1 DEF Connect, Relay!Next, Relay!Connect
<1>2. CASE SendPicture
  <2>1. PICK p \in Pictures : pictures' = Append(pictures, p)
    BY <1>2 DEF SendPicture
  <2>2. pictures \in Seq(Pictures) /\ published' = published
    BY <1>2 DEF IInv, TypeInv, TypeOK, SendPicture, picture
  <2>3. Len(pictures') = Len(pictures) + 1 /\ SubSeq(pictures', 1, Len(pictures)) = pictures
    BY <2>1, <2>2
  <2>4. QED  BY <2>2, <2>3 DEF Relay!Next, Relay!Send
<1>3. CASE LastByte
  <2>1. Following
    BY <1>3 DEF LastByte, NextByte, Following, Stuck
  <2>2. PICK cut \in [Nat -> Int], m \in Nat, k \in Nat : Follows(cut, m, k)
    BY <2>1 DEF IInv, StreamInv
  <2>3. /\ m = Len(published) /\ m \in 0..Len(pictures) /\ Fits(Text(m))
        /\ published' = Append(published, Text(m))
    BY <1>3, <2>2, LastStep DEF IInv
  <2>4. Relay!Due[m + 1] = Text(m) /\ m < Len(Relay!Due)
    <3>1. Relay!Due[m + 1] = Text(m) /\ Len(Relay!Due) = Len(pictures) + 1
      BY <2>3, NextDue DEF IInv
    <3>2. QED  BY <2>3, <3>1
  <2>5. ASSUME NEW i \in 1..m PROVE Fits(pictures[i])
    <3>1. CASE i = m
      BY <2>3, <3>1 DEF Text
    <3>2. CASE i # m
      BY <2>2, <3>2 DEF Follows
    <3>3. QED  BY <3>1, <3>2
  <2>6. pictures' = pictures
    BY <1>3 DEF LastByte, NextByte, server
  <2>7. Relay!Pass
    BY <2>3, <2>4, <2>5, <2>6 DEF Relay!Pass
  <2>8. QED  BY <2>7 DEF Relay!Next
<1>4. CASE UNCHANGED <<pictures, published>>
  BY <1>4 DEF Relay!vars
<1>5. Connect \/ SendPicture \/ LastByte \/ UNCHANGED <<pictures, published>>
  BY DEF Next, Extract, ResolveFails, RecvEnds, Close, Cancel, Cleanup, Recv, HeaderByte, NextByte,
    DroppedByte, ContentByte, Extracted, Break, Stop, vars, picture, server
<1>6. QED  BY <1>1, <1>2, <1>3, <1>4, <1>5

(* The plugin relays the pictures of the server as they were sent, every   *)
(* one once and in their order after the text of the reply, until one that *)
(* does not fit in its buffer.                                             *)
THEOREM FaithfulRelayHolds == Spec => FaithfulRelay
<1>1. Init => Relay!Init
  BY DEF Init, Relay!Init
<1>2. QED  BY <1>1, RelayStep, RelayInvariant, PTL DEF Spec, FaithfulRelay, Relay!Spec
=============================================================================
