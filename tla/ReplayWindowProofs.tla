------------------------- MODULE ReplayWindowProofs -------------------------
(***************************************************************************)
(* The replay window is exact for every word width, number of words and    *)
(* set of sequence numbers. The inductive invariant is BitmapExact with    *)
(* the facts about `highest' that a shift relies on; the arithmetic of     *)
(* shift_left is isolated in lemma ShiftExact.                             *)
(***************************************************************************)
EXTENDS ReplayWindow, TLAPS

Bitmaps == [WordIndex -> [BitIndex -> BOOLEAN]]

(* Multiplication by the word width is monotone. *)
LEMMA MulMono ==
  ASSUME NEW B \in Nat \ {0}, NEW x \in Int, NEW y \in Int, x <= y
  PROVE  x * B <= y * B
<1>1. PICK d \in Nat : y = x + d
  <2>1. y - x \in Nat
    OBVIOUS
  <2> QED
    BY <2>1
<1>2. y * B = x * B + d * B
  BY <1>1
<1>3. d * B \in Nat
  BY <1>1
<1> QED
  BY <1>2, <1>3

(* A distance splits into word and bit in one way only. *)
LEMMA SplitUnique ==
  ASSUME NEW B \in Nat \ {0}, NEW q1 \in Int, NEW q2 \in Int,
         NEW r1 \in 0 .. B - 1, NEW r2 \in 0 .. B - 1,
         q1 * B + r1 = q2 * B + r2
  PROVE  q1 = q2 /\ r1 = r2
<1>1. ASSUME q1 < q2 PROVE FALSE
  <2>1. (q1 + 1) * B <= q2 * B
    BY <1>1, MulMono
  <2>2. (q1 + 1) * B = q1 * B + B
    OBVIOUS
  <2> QED
    BY <2>1, <2>2
<1>2. ASSUME q2 < q1 PROVE FALSE
  <2>1. (q2 + 1) * B <= q1 * B
    BY <1>2, MulMono
  <2>2. (q2 + 1) * B = q2 * B + B
    OBVIOUS
  <2> QED
    BY <2>1, <2>2
<1>3. q1 = q2
  BY <1>1, <1>2
<1> QED
  BY <1>3

(* Quotient and remainder of a distance. *)
LEMMA DivMod ==
  ASSUME NEW B \in Nat \ {0}, NEW d \in Nat
  PROVE  /\ d \div B \in Nat
         /\ d % B \in 0 .. B - 1
         /\ d = (d \div B) * B + (d % B)
  OBVIOUS

(* A distance inside the window names a word and a bit of the bitmap. *)
LEMMA InBitmap ==
  ASSUME NEW d \in Nat, d < WindowSize
  PROVE  /\ WordOf(d) \in WordIndex
         /\ BitOf(d) \in BitIndex
         /\ d = WordOf(d) * WordBits + BitOf(d)
<1>1. /\ d \div WordBits \in Nat
      /\ d % WordBits \in 0 .. WordBits - 1
      /\ d = (d \div WordBits) * WordBits + (d % WordBits)
  BY Zenon, DivMod, ReplayAssumption
<1>2. ASSUME d \div WordBits >= Words PROVE FALSE
  <2>1. Words * WordBits <= (d \div WordBits) * WordBits
    BY <1>1, <1>2, MulMono, ReplayAssumption
  <2> QED
    BY <1>1, <2>1, ReplayAssumption DEF WindowSize
<1> QED
  BY <1>1, <1>2, ReplayAssumption DEF WordOf, BitOf, WordIndex, BitIndex

(* Every position of the bitmap lies inside the window. *)
LEMMA PositionInWindow ==
  ASSUME NEW i \in WordIndex, NEW j \in BitIndex
  PROVE  i * WordBits + j \in 0 .. WindowSize - 1
<1>1. (i + 1) * WordBits <= Words * WordBits
  BY MulMono, ReplayAssumption DEF WordIndex
<1>2. (i + 1) * WordBits = i * WordBits + WordBits
  BY ReplayAssumption DEF WordIndex
<1>3. i * WordBits \in Nat
  BY ReplayAssumption DEF WordIndex
<1> QED
  BY <1>1, <1>2, <1>3, ReplayAssumption DEF WordIndex, BitIndex, WindowSize

(* What one iteration of the loop in shift_left leaves in a word: bit j of  *)
(* word i is the bit that stood `shift' positions below, if there is one.   *)
LEMMA ShiftExact ==
  ASSUME NEW b \in Bitmaps, NEW shift \in Nat \ {0},
         NEW i \in WordIndex, NEW j \in BitIndex
  PROVE  ShiftLeft(b, shift)[i][j] <=>
           \E i2 \in WordIndex, j2 \in BitIndex :
             i2 * WordBits + j2 + shift = i * WordBits + j /\ b[i2][j2]
<1> DEFINE From(i2, j2) ==
             i2 * WordBits + j2 + shift = i * WordBits + j /\ b[i2][j2]
<1>1. CASE shift >= WindowSize
  <2>1. ~ShiftLeft(b, shift)[i][j]
    BY <1>1 DEF ShiftLeft, ZeroBits, ZeroWord
  <2>2. ASSUME NEW i2 \in WordIndex, NEW j2 \in BitIndex, From(i2, j2)
        PROVE  FALSE
    <3>1. i * WordBits + j \in 0 .. WindowSize - 1
      BY PositionInWindow
    <3>2. i2 * WordBits + j2 \in 0 .. WindowSize - 1
      BY PositionInWindow
    <3>3. WindowSize \in Nat
      BY ReplayAssumption DEF WindowSize
    <3> QED
      BY <1>1, <2>2, <3>1, <3>2, <3>3
  <2> QED
    BY <2>1, <2>2
<1>2. CASE ~(shift >= WindowSize)
  <2> DEFINE ws == shift \div WordBits
             bs == shift % WordBits
             q  == i - ws
  <2>1. /\ ws \in Nat
        /\ bs \in 0 .. WordBits - 1
        /\ shift = ws * WordBits + bs
    BY Zenon, DivMod, ReplayAssumption
  <2>2. ShiftLeft(b, shift)[i][j] <=>
          /\ i >= ws
          /\ \/ j >= bs /\ b[q][j - bs]
             \/ /\ bs # 0
                /\ i > ws
                /\ j + (WordBits - bs) < WordBits
                /\ b[q - 1][j + (WordBits - bs)]
    BY Zenon, <1>2 DEF ShiftLeft, ShiftedWord, Shl, Shr, ZeroWord
  <2>3. i \in Int /\ j \in 0 .. WordBits - 1 /\ q \in Int /\ q = i - ws
    BY <2>1, ReplayAssumption DEF WordIndex, BitIndex
  <2>4. i * WordBits = q * WordBits + ws * WordBits
    BY <2>1, <2>3, ReplayAssumption
  <2>5. (q - 1) * WordBits = q * WordBits - WordBits
    BY <2>3, ReplayAssumption
  <2> HIDE DEF ws, bs, q
  <2>6. ASSUME i >= ws, j >= bs, b[q][j - bs]
        PROVE  \E i2 \in WordIndex, j2 \in BitIndex : From(i2, j2)
    <3>1. q \in WordIndex /\ j - bs \in BitIndex
      BY <2>1, <2>3, <2>6, ReplayAssumption DEF WordIndex, BitIndex
    <3>2. From(q, j - bs)
      BY <2>1, <2>3, <2>4, <2>6, <3>1, ReplayAssumption
    <3> QED
      BY <3>1, <3>2
  <2>7. ASSUME i > ws, j + (WordBits - bs) < WordBits,
               b[q - 1][j + (WordBits - bs)]
        PROVE  \E i2 \in WordIndex, j2 \in BitIndex : From(i2, j2)
    <3>1. q - 1 \in WordIndex /\ j + (WordBits - bs) \in BitIndex
      BY <2>1, <2>3, <2>7, ReplayAssumption DEF WordIndex, BitIndex
    <3>2. From(q - 1, j + (WordBits - bs))
      BY <2>1, <2>3, <2>4, <2>5, <2>7, <3>1, ReplayAssumption
    <3> QED
      BY <3>1, <3>2
  <2>8. ASSUME NEW i2 \in WordIndex, NEW j2 \in BitIndex, From(i2, j2)
        PROVE  /\ i >= ws
               /\ \/ j >= bs /\ b[q][j - bs]
                  \/ /\ bs # 0
                     /\ i > ws
                     /\ j + (WordBits - bs) < WordBits
                     /\ b[q - 1][j + (WordBits - bs)]
    <3>1. i2 \in Nat /\ j2 \in 0 .. WordBits - 1
      BY DEF WordIndex, BitIndex
    <3>2. i2 * WordBits + j2 + bs = q * WordBits + j
      BY <2>1, <2>3, <2>4, <2>8, <3>1, ReplayAssumption
    <3>3. CASE j2 + bs < WordBits
      <4>1. q = i2 /\ j = j2 + bs
        BY <2>1, <2>3, <3>1, <3>2, <3>3, SplitUnique, ReplayAssumption
      <4> QED
        BY <2>1, <2>3, <2>8, <3>1, <4>1
    <3>4. CASE ~(j2 + bs < WordBits)
      <4>1. (i2 + 1) * WordBits = i2 * WordBits + WordBits
        BY <3>1, ReplayAssumption
      <4>2. j2 + bs - WordBits \in 0 .. WordBits - 1
        BY <2>1, <3>1, <3>4, ReplayAssumption
      <4>3. (i2 + 1) * WordBits + (j2 + bs - WordBits) = q * WordBits + j
        BY <2>1, <2>3, <3>1, <3>2, <4>1, ReplayAssumption
      <4>4. q = i2 + 1 /\ j = j2 + bs - WordBits
        <5> DEFINE k == i2 + 1
                   r == j2 + bs - WordBits
        <5>1. /\ k \in Int
              /\ r \in 0 .. WordBits - 1
              /\ k * WordBits + r = q * WordBits + j
          BY <3>1, <4>2, <4>3
        <5> HIDE DEF k, r
        <5>2. k = q /\ r = j
          BY <2>3, <5>1, SplitUnique, ReplayAssumption
        <5> QED
          BY <5>2 DEF k, r
      <4> QED
        BY <2>1, <2>3, <2>8, <3>1, <3>4, <4>4, ReplayAssumption
    <3> QED
      BY <3>3, <3>4
  <2> QED
    BY <2>2, <2>6, <2>7, <2>8
<1> QED
  BY <1>1, <1>2

-----------------------------------------------------------------------------
(* `highest' is an upper bound of what was accepted, and was accepted.      *)
HighestTops ==
  /\ \A s \in Sequences : delivered[s] > 0 => s <= highest
  /\ highest # NoSequence => delivered[highest] > 0

(* Before the first packet the bitmap is empty. *)
EmptyBefore == highest = NoSequence => bits = ZeroBits

Inv == TypeOK /\ BitmapExact /\ AtMostOnce /\ HighestTops /\ EmptyBefore

(* Reading the bitmap at a distance inside the window tells whether the     *)
(* sequence at that distance was accepted.                                  *)
LEMMA ExactAt ==
  ASSUME Inv, highest # NoSequence, NEW s \in Sequences,
         s <= highest, highest - s < WindowSize
  PROVE  bits[WordOf(highest - s)][BitOf(highest - s)] <=> delivered[s] > 0
<1> DEFINE d == highest - s
<1>1. d \in Nat /\ d < WindowSize /\ highest \in Int /\ s \in Int /\ highest - d = s
  BY ReplayAssumption DEF Inv, TypeOK, NoSequence
<1> HIDE DEF d
<1>2. /\ WordOf(d) \in WordIndex
      /\ BitOf(d) \in BitIndex
      /\ d = WordOf(d) * WordBits + BitOf(d)
  BY <1>1, InBitmap
<1>3. bits[WordOf(d)][BitOf(d)] <=>
        /\ highest - (WordOf(d) * WordBits + BitOf(d)) \in Sequences
        /\ delivered[highest - (WordOf(d) * WordBits + BitOf(d))] > 0
  BY <1>2 DEF Inv, BitmapExact
<1>4. bits[WordOf(d)][BitOf(d)] <=> delivered[s] > 0
  BY <1>1, <1>2, <1>3
<1> QED
  BY <1>4 DEF d

(* shift_left returns a bitmap. *)
LEMMA ShiftType ==
  ASSUME NEW b \in Bitmaps, NEW shift \in Nat
  PROVE  ShiftLeft(b, shift) \in Bitmaps
  BY DEF ShiftLeft, ShiftedWord, ZeroBits, ZeroWord, Bitmaps

(* An empty window is exact. *)
LEMMA InitInv == Init => Inv
<1> SUFFICES ASSUME Init PROVE Inv
  OBVIOUS
<1>1. TypeOK
  BY DEF Init, TypeOK, ZeroBits, ZeroWord, NoVerdict
<1> QED
  BY <1>1 DEF Init, Inv, BitmapExact, AtMostOnce, HighestTops, EmptyBefore

(* The first packet of a session. *)
LEMMA AcceptFirstInv ==
  ASSUME Inv, NEW s \in Sequences, AcceptFirst(s)
  PROVE  Inv'
<1> USE ReplayAssumption
<1>1. /\ highest = NoSequence
      /\ highest' = s
      /\ bits = ZeroBits
      /\ \A t \in Sequences : delivered[t] = 0
  BY DEF AcceptFirst, Inv, TypeOK, EmptyBefore, HighestTops, NoSequence
<1>2. s \in Nat /\ 0 \in WordIndex /\ 0 \in BitIndex
  BY DEF WordIndex, BitIndex
<1>3. TypeOK'
  BY <1>2 DEF AcceptFirst, Accept, Inv, TypeOK, Verdicts
<1>4. \A t \in Sequences : delivered'[t] = IF t = s THEN 1 ELSE 0
  BY <1>1 DEF AcceptFirst, Accept, Inv, TypeOK
<1>5. ASSUME NEW i \in WordIndex, NEW j \in BitIndex
      PROVE  bits'[i][j] <=>
               s - (i * WordBits + j) \in Sequences /\ delivered'[s - (i * WordBits + j)] > 0
  <2>1. bits'[i][j] <=> i = 0 /\ j = 0
    BY Zenon, <1>1, <1>2 DEF AcceptFirst, ZeroBits, ZeroWord
  <2>2. i * WordBits + j = 0 => i = 0 /\ j = 0
    <3>1. i * WordBits + j = 0 => i * WordBits + j = 0 * WordBits + 0
      OBVIOUS
    <3> QED
      BY <3>1, SplitUnique DEF WordIndex, BitIndex
  <2>3. i = 0 /\ j = 0 => i * WordBits + j = 0
    OBVIOUS
  <2>4. i * WordBits + j \in Nat
    BY PositionInWindow
  <2>5. s - (i * WordBits + j) = s <=> i * WordBits + j = 0
    BY <1>2, <2>4
  <2> DEFINE t == s - (i * WordBits + j)
  <2>6. t = s <=> bits'[i][j]
    BY <2>1, <2>2, <2>3, <2>5
  <2> HIDE DEF t
  <2>7. t \in Sequences /\ delivered'[t] > 0 <=> t = s
    <3>1. CASE t = s
      BY <1>4, <3>1
    <3>2. CASE t # s
      <4>1. ASSUME t \in Sequences PROVE delivered'[t] = 0
        BY <1>4, <3>2, <4>1
      <4> QED
        BY <3>2, <4>1
    <3> QED
      BY <3>1, <3>2
  <2> QED
    BY <2>6, <2>7 DEF t
<1>6. BitmapExact'
  BY <1>1, <1>5 DEF BitmapExact
<1>7. AtMostOnce' /\ HighestTops' /\ EmptyBefore'
  BY <1>1, <1>2, <1>4 DEF AtMostOnce, HighestTops, EmptyBefore, NoSequence
<1> QED
  BY <1>3, <1>6, <1>7 DEF Inv

(* A packet ahead of all earlier ones: shift_left moves every bit by the    *)
(* advance of `highest', so each keeps standing for the same sequence.      *)
LEMMA AcceptNewerInv ==
  ASSUME Inv, NEW s \in Sequences, AcceptNewer(s)
  PROVE  Inv'
<1> USE ReplayAssumption
<1> DEFINE shift == s - highest
           shifted == ShiftLeft(bits, shift)
<1>1. /\ s \in Nat /\ highest \in Nat /\ shift \in Nat \ {0}
      /\ highest \in Sequences /\ highest # NoSequence
      /\ highest' = s /\ s > highest /\ s = highest + shift
      /\ bits' = SetBit(shifted, 0, 0)
  BY DEF AcceptNewer, Inv, TypeOK, NoSequence
<1>2. bits \in Bitmaps
  BY DEF Inv, TypeOK, Bitmaps
<1>3. shifted \in Bitmaps
  BY <1>1, <1>2, ShiftType
<1>4. 0 \in WordIndex /\ 0 \in BitIndex
  BY DEF WordIndex, BitIndex
<1>5. delivered[s] = 0
  BY <1>1 DEF Inv, HighestTops, TypeOK
<1>6. \A t \in Sequences : delivered'[t] = IF t = s THEN 1 ELSE delivered[t]
  BY <1>5 DEF AcceptNewer, Accept, Inv, TypeOK
<1>7. \A i \in WordIndex, j \in BitIndex :
        shifted[i][j] <=>
          \E i2 \in WordIndex, j2 \in BitIndex :
            i2 * WordBits + j2 + shift = i * WordBits + j /\ bits[i2][j2]
  BY <1>1, <1>2, ShiftExact
<1> HIDE DEF shifted, shift
<1>8. \A i \in WordIndex, j \in BitIndex :
        bits'[i][j] <=> (i = 0 /\ j = 0) \/ shifted[i][j]
  BY <1>1, <1>3, <1>4 DEF SetBit, Bitmaps
<1>9. TypeOK'
  <2>1. bits' \in Bitmaps
    BY <1>1, <1>3, <1>4 DEF SetBit, Bitmaps
  <2> QED
    BY <1>1, <2>1 DEF AcceptNewer, Accept, Inv, TypeOK, Verdicts, Bitmaps
<1>10. ASSUME NEW i \in WordIndex, NEW j \in BitIndex
       PROVE  bits'[i][j] <=>
                s - (i * WordBits + j) \in Sequences /\ delivered'[s - (i * WordBits + j)] > 0
  <2> DEFINE d == i * WordBits + j
             t == s - d
  <2>1. d \in 0 .. WindowSize - 1 /\ WindowSize \in Nat
    BY PositionInWindow DEF WindowSize
  <2>2. d = 0 <=> i = 0 /\ j = 0
    <3>1. d = 0 => i * WordBits + j = 0 * WordBits + 0
      OBVIOUS
    <3> QED
      BY <3>1, SplitUnique DEF WordIndex, BitIndex
  <2>3. ASSUME shifted[i][j] PROVE t \in Sequences /\ delivered[t] > 0
    <3>1. PICK i2 \in WordIndex, j2 \in BitIndex :
            i2 * WordBits + j2 + shift = d /\ bits[i2][j2]
      BY <1>7, <2>3
    <3>2. /\ highest - (i2 * WordBits + j2) \in Sequences
          /\ delivered[highest - (i2 * WordBits + j2)] > 0
      BY <1>1, <3>1 DEF Inv, BitmapExact
    <3>3. i2 * WordBits + j2 \in Int
      BY PositionInWindow DEF WindowSize
    <3>4. highest - (i2 * WordBits + j2) = t
      BY <1>1, <2>1, <3>1, <3>3
    <3> QED
      BY <3>2, <3>4
  <2>4. ASSUME t \in Sequences, delivered[t] > 0 PROVE shifted[i][j]
    <3>1. t <= highest
      BY Zenon, <2>4 DEF Inv, HighestTops
    <3>2. /\ highest - t \in Nat
          /\ highest - t + shift = d
          /\ highest - t < WindowSize
      BY <1>1, <2>1, <2>4, <3>1
    <3>3. /\ WordOf(highest - t) \in WordIndex
          /\ BitOf(highest - t) \in BitIndex
          /\ highest - t = WordOf(highest - t) * WordBits + BitOf(highest - t)
      BY <3>2, InBitmap
    <3>4. bits[WordOf(highest - t)][BitOf(highest - t)]
      BY <1>1, <2>4, <3>1, <3>2, ExactAt
    <3> HIDE DEF t
    <3>5. WordOf(highest - t) * WordBits + BitOf(highest - t) + shift = d
      BY <3>2, <3>3
    <3> QED
      BY <1>7, <3>3, <3>4, <3>5
  <2>5. t = s <=> d = 0
    BY <1>1, <2>1
  <2>6. bits'[i][j] <=> d = 0 \/ shifted[i][j]
    BY <1>8, <2>2
  <2> HIDE DEF t, d
  <2>7. t \in Sequences /\ delivered'[t] > 0 <=>
          t = s \/ (t \in Sequences /\ delivered[t] > 0)
    <3>1. CASE t = s
      BY <1>6, <3>1
    <3>2. CASE t # s
      BY Zenon, <1>6, <3>2
    <3> QED
      BY <3>1, <3>2
  <2>8. bits'[i][j] <=> t \in Sequences /\ delivered'[t] > 0
    BY <2>3, <2>4, <2>5, <2>6, <2>7
  <2> QED
    BY <2>8 DEF t, d
<1>11. BitmapExact'
  BY <1>1, <1>10 DEF BitmapExact
<1>12. AtMostOnce'
  BY <1>6 DEF AtMostOnce, Inv, TypeOK
<1>13. HighestTops' /\ EmptyBefore'
  BY <1>1, <1>6 DEF Inv, HighestTops, EmptyBefore, NoSequence
<1> QED
  BY <1>9, <1>11, <1>12, <1>13 DEF Inv

(* A reordered packet inside the window whose bit is clear. *)
LEMMA AcceptOlderInv ==
  ASSUME Inv, NEW s \in Sequences, AcceptOlder(s)
  PROVE  Inv' /\ delivered[s] = 0
<1> USE ReplayAssumption
<1> DEFINE d == highest - s
           w == WordOf(d)
           c == BitOf(d)
<1>1. /\ s \in Nat /\ highest \in Nat /\ highest \in Sequences
      /\ highest # NoSequence /\ highest' = highest
      /\ d \in Nat /\ d < WindowSize /\ s <= highest /\ s = highest - d
      /\ ~bits[w][c]
      /\ bits' = SetBit(bits, w, c)
  BY DEF AcceptOlder, Inv, TypeOK, NoSequence
<1>2. delivered[s] = 0
  BY <1>1, ExactAt DEF Inv, TypeOK
<1>3. w \in WordIndex /\ c \in BitIndex /\ d = w * WordBits + c
  BY <1>1, InBitmap
<1> HIDE DEF w, c, d
<1>4. \A t \in Sequences : delivered'[t] = IF t = s THEN 1 ELSE delivered[t]
  BY <1>2 DEF AcceptOlder, Accept, Inv, TypeOK
<1>5. TypeOK'
  <2>1. bits' \in [WordIndex -> [BitIndex -> BOOLEAN]]
    BY <1>1, <1>3 DEF SetBit, Inv, TypeOK
  <2> QED
    BY <1>1, <2>1 DEF AcceptOlder, Accept, Inv, TypeOK, Verdicts
<1>6. ASSUME NEW i \in WordIndex, NEW j \in BitIndex
      PROVE  bits'[i][j] <=>
               /\ highest - (i * WordBits + j) \in Sequences
               /\ delivered'[highest - (i * WordBits + j)] > 0
  <2> DEFINE e == i * WordBits + j
             t == highest - e
  <2>1. e \in Nat
    BY PositionInWindow
  <2>2. bits'[i][j] <=> (i = w /\ j = c) \/ bits[i][j]
    BY <1>1, <1>3 DEF SetBit, Inv, TypeOK
  <2>3. e = d <=> i = w /\ j = c
    <3>1. e = d => i * WordBits + j = w * WordBits + c
      BY <1>3
    <3>2. e = d => i = w /\ j = c
      BY <1>3, <3>1, SplitUnique DEF WordIndex, BitIndex
    <3> QED
      BY <1>3, <3>2
  <2>4. bits[i][j] <=> t \in Sequences /\ delivered[t] > 0
    BY <1>1 DEF Inv, BitmapExact
  <2>5. t = s <=> e = d
    BY <1>1, <2>1
  <2> HIDE DEF t, e
  <2>6. t \in Sequences /\ delivered'[t] > 0 <=>
          t = s \/ (t \in Sequences /\ delivered[t] > 0)
    <3>1. CASE t = s
      BY <1>4, <3>1
    <3>2. CASE t # s
      BY Zenon, <1>4, <3>2
    <3> QED
      BY <3>1, <3>2
  <2>7. bits'[i][j] <=> t \in Sequences /\ delivered'[t] > 0
    BY <2>2, <2>3, <2>4, <2>5, <2>6
  <2> QED
    BY <2>7 DEF t, e
<1>7. BitmapExact'
  BY <1>1, <1>6 DEF BitmapExact
<1>8. AtMostOnce'
  BY <1>4 DEF AtMostOnce, Inv, TypeOK
<1>9. HighestTops' /\ EmptyBefore'
  BY <1>1, <1>4 DEF Inv, HighestTops, EmptyBefore, NoSequence
<1> QED
  BY <1>2, <1>5, <1>7, <1>8, <1>9 DEF Inv

(* A refused packet leaves the window as it was. *)
LEMMA RejectInv ==
  ASSUME Inv, NEW s \in Sequences, RejectTooOld(s) \/ RejectReplay(s)
  PROVE  Inv'
<1>1. /\ UNCHANGED <<highest, bits, delivered>>
      /\ verdict' \in Verdicts
  <2>1. Reject(s)
    BY DEF RejectTooOld, RejectReplay
  <2> QED
    BY <2>1 DEF Reject, Verdicts
<1> QED
  BY <1>1 DEF Inv, TypeOK, BitmapExact, AtMostOnce, HighestTops, EmptyBefore

(* Every outcome of accept preserves the invariant. *)
LEMMA StepInv == Inv /\ [Next]_vars => Inv'
<1> SUFFICES ASSUME Inv, [Next]_vars PROVE Inv'
  OBVIOUS
<1>1. ASSUME NEW s \in Sequences, AcceptFirst(s) PROVE Inv'
  BY <1>1, AcceptFirstInv
<1>2. ASSUME NEW s \in Sequences, AcceptNewer(s) PROVE Inv'
  BY <1>2, AcceptNewerInv
<1>3. ASSUME NEW s \in Sequences, AcceptOlder(s) PROVE Inv'
  BY <1>3, AcceptOlderInv
<1>4. ASSUME NEW s \in Sequences, RejectTooOld(s) \/ RejectReplay(s) PROVE Inv'
  BY <1>4, RejectInv
<1>5. CASE UNCHANGED vars
  BY <1>5 DEF vars, Inv, TypeOK, BitmapExact, AtMostOnce, HighestTops, EmptyBefore
<1> QED
  BY <1>1, <1>2, <1>3, <1>4, <1>5 DEF Next

(* For every word width, word count and set of sequences the window keeps   *)
(* its inductive invariant.                                                 *)
THEOREM Invariance == Spec => []Inv
  BY InitInv, StepInv, PTL DEF Spec

(* The state of a ReplayWindow is well formed after any calls of accept.    *)
THEOREM TypeCorrect == Spec => []TypeOK
<1>1. Inv => TypeOK
  BY DEF Inv
<1> QED
  BY <1>1, Invariance, PTL

(* accept returns true at most once for any sequence number.                *)
THEOREM NeverTwice == Spec => []AtMostOnce
<1>1. Inv => AtMostOnce
  BY DEF Inv
<1> QED
  BY <1>1, Invariance, PTL

(* shift_left keeps the bitmap exact across word boundaries.                *)
THEOREM Exactness == Spec => []BitmapExact
<1>1. Inv => BitmapExact
  BY DEF Inv
<1> QED
  BY <1>1, Invariance, PTL

(* Reordering within the window loses nothing: a refused sequence was       *)
(* accepted before or is at least a window behind.                          *)
THEOREM NothingLost == Spec => []NoFalseDrop
<1>1. Init => NoFalseDrop
  BY DEF Init, NoFalseDrop, NoVerdict
<1>2. Inv /\ NoFalseDrop /\ [Next]_vars => NoFalseDrop'
  <2> SUFFICES ASSUME Inv, NoFalseDrop, [Next]_vars PROVE NoFalseDrop'
    OBVIOUS
  <2>1. ASSUME NEW s \in Sequences, Accept(s) PROVE NoFalseDrop'
    BY <2>1 DEF Accept, NoFalseDrop
  <2>2. ASSUME NEW s \in Sequences, RejectTooOld(s) PROVE NoFalseDrop'
    BY <2>2 DEF RejectTooOld, Reject, NoFalseDrop
  <2>3. ASSUME NEW s \in Sequences, RejectReplay(s) PROVE NoFalseDrop'
    <3>1. delivered[s] > 0
      BY <2>3, ExactAt DEF RejectReplay
    <3>2. verdict'.seq = s /\ delivered' = delivered
      BY <2>3 DEF RejectReplay, Reject
    <3> QED
      BY <3>1, <3>2 DEF NoFalseDrop
  <2>4. CASE UNCHANGED vars
    BY <2>4 DEF vars, NoFalseDrop
  <2> QED
    BY <2>1, <2>2, <2>3, <2>4 DEF Next, AcceptFirst, AcceptNewer, AcceptOlder
<1> QED
  BY <1>1, <1>2, Invariance, PTL DEF Spec

(* The bitmap of fixed size implements the window that remembers every      *)
(* accepted sequence: each call of accept gives the abstract verdict.       *)
THEOREM Refinement == Spec => ImplementsAntiReplay
<1>1. Init => Abstract!Init
  BY DEF Init, Abstract!Init, NoSequence, Abstract!NoSequence, NoVerdict, Abstract!NoVerdict
<1>2. Inv /\ [Next]_vars => [Abstract!Next]_(Abstract!vars)
  <2> SUFFICES ASSUME Inv, [Next]_vars PROVE [Abstract!Next]_(Abstract!vars)
    OBVIOUS
  <2> USE DEF NoSequence, Abstract!NoSequence
  <2>1. highest \in Int /\ WindowSize \in Nat \ {0} /\ \A s \in Sequences : s \in Nat
    <3>1. Words * WordBits \in Nat /\ 1 * WordBits <= Words * WordBits
      BY MulMono, ReplayAssumption
    <3> QED
      BY <3>1, ReplayAssumption DEF Inv, TypeOK, WindowSize
  <2>2. ASSUME NEW s \in Sequences, AcceptFirst(s) PROVE Abstract!HandUp(s)
    <3>1. delivered[s] = 0
      BY <2>1, <2>2 DEF AcceptFirst, Inv, HighestTops, TypeOK
    <3> QED
      BY <2>1, <2>2, <3>1 DEF AcceptFirst, Accept, Abstract!HandUp
  <2>3. ASSUME NEW s \in Sequences, AcceptNewer(s) PROVE Abstract!HandUp(s)
    <3>1. delivered[s] = 0
      BY <2>1, <2>3 DEF AcceptNewer, Inv, HighestTops, TypeOK
    <3> QED
      BY <2>1, <2>3, <3>1 DEF AcceptNewer, Accept, Abstract!HandUp, Abstract!InWindow
  <2>4. ASSUME NEW s \in Sequences, AcceptOlder(s) PROVE Abstract!HandUp(s)
    <3>1. delivered[s] = 0
      BY <2>4, AcceptOlderInv
    <3> QED
      BY <2>1, <2>4, <3>1 DEF AcceptOlder, Accept, Abstract!HandUp, Abstract!InWindow
  <2>5. ASSUME NEW s \in Sequences, RejectTooOld(s) PROVE Abstract!Refuse(s)
    BY <2>1, <2>5 DEF RejectTooOld, Reject, Abstract!Refuse, Abstract!InWindow
  <2>6. ASSUME NEW s \in Sequences, RejectReplay(s) PROVE Abstract!Refuse(s)
    <3>1. delivered[s] > 0
      BY <2>6, ExactAt DEF RejectReplay
    <3> QED
      BY <2>6, <3>1 DEF RejectReplay, Reject, Abstract!Refuse
  <2>7. CASE UNCHANGED vars
    BY <2>7 DEF vars, Abstract!vars
  <2> QED
    BY <2>2, <2>3, <2>4, <2>5, <2>6, <2>7 DEF Next, Abstract!Next
<1> QED
  BY <1>1, <1>2, Invariance, PTL DEF Spec, ImplementsAntiReplay, Abstract!Spec
=============================================================================
