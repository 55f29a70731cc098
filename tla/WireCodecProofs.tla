---------------------------- MODULE WireCodecProofs ----------------------------
(***************************************************************************)
(* What the wire layer (crates/net) does with every sequence of bytes: the *)
(* splitter yields the same frames however the stream is cut, a frame      *)
(* decodes to what was encoded, and compression with obfuscation is undone *)
(* or refused.                                                             *)
(*                                                                         *)
(* The model's operators are recursive functions.  For each of them the    *)
(* proofs first show that the function exists, by induction on the length  *)
(* of what is ahead, which yields its recursion equation (SplitAt,         *)
(* CompressAt, DecompressAt); what it computes then follows by strong      *)
(* induction from the equation.  An induction is stated as a set of        *)
(* numbers that is closed under the step, so that no operator has to be    *)
(* passed to a theorem.                                                    *)
(***************************************************************************)
EXTENDS WireCodec, WellFoundedInduction, SequenceTheorems, TLAPS

\* Induction over the natural numbers, with a set for the claim.
LEMMA NatInduct ==
  ASSUME NEW S, 0 \in S, \A n \in Nat : n \in S => n + 1 \in S
  PROVE  \A n \in Nat : n \in S
<1> SUFFICES ASSUME Nat \ S # {} PROVE FALSE
  OBVIOUS
<1> DEFINE R == OpToRel(<, Nat)
<1>1. PICK x \in Nat \ S : \A y \in Nat \ S : ~(<<y, x>> \in R)
  BY NatLessThanWellFounded, WFMin, Zenon
<1>2. R = {ss \in Nat \X Nat : ss[1] < ss[2]}
  BY DEF OpToRel
<1>3. \A y \in Nat \ S : ~(y < x)
  <2> HIDE DEF R
  <2> TAKE y \in Nat \ S
  <2> QED BY <1>1, <1>2
<1>4. x - 1 \in Nat /\ x - 1 \in S
  <2>1. x # 0
    OBVIOUS
  <2> QED
    BY <1>3, <2>1
<1> QED
  BY <1>4

\* Induction in which the claim is known of all smaller numbers.
LEMMA StrongInduct ==
  ASSUME NEW S, \A n \in Nat : (\A k \in 0..(n - 1) : k \in S) => n \in S
  PROVE  \A n \in Nat : n \in S
<1> DEFINE U == {n \in Nat : \A k \in 0..n : k \in S}
<1>1. 0 \in U
  OBVIOUS
<1>2. \A n \in Nat : n \in U => n + 1 \in U
  <2> SUFFICES ASSUME NEW n \in Nat, \A k \in 0..n : k \in S
               PROVE  \A k \in 0..(n + 1) : k \in S
    OBVIOUS
  <2>1. n + 1 \in S
    <3>1. n + 1 \in Nat /\ (n + 1) - 1 = n
      OBVIOUS
    <3> QED BY <3>1
  <2> QED
    BY <2>1
<1>3. \A n \in Nat : n \in U
  <2> HIDE DEF U
  <2> QED BY <1>1, <1>2, NatInduct
<1> QED
  BY <1>3

-----------------------------------------------------------------------------
Bytes == Seq(Byte)

\* What is ahead of the first i bytes.
Ahead(b, i) == SubSeq(b, i + 1, Len(b))

\* The recursion of split_frames.
SplitStep(b, g, i) ==
  IF ~Whole(Ahead(b, i)) THEN [frames |-> <<>>, rest |-> Ahead(b, i)]
  ELSE [frames |-> <<SubSeq(Ahead(b, i), 1, Total(Ahead(b, i)))>>
                     \o g[i + Total(Ahead(b, i))].frames,
        rest |-> g[i + Total(Ahead(b, i))].rest]

\* Length, type and bytes of what is ahead of a position.
LEMMA AheadProperties ==
  ASSUME NEW b \in Bytes, NEW i \in 0..Len(b)
  PROVE  /\ Ahead(b, i) \in Bytes
         /\ Len(Ahead(b, i)) = Len(b) - i
         /\ \A k \in 1..(Len(b) - i) : Ahead(b, i)[k] = b[i + k]
<1>1. Len(b) \in Nat /\ \A k \in 1..Len(b) : b[k] \in Byte
  BY LenProperties, ElementOfSeq DEF Bytes
<1>2. \A k \in (i + 1)..Len(b) : b[k] \in Byte
  BY <1>1
<1>3. /\ Ahead(b, i) \in Seq(Byte)
      /\ Len(Ahead(b, i)) = IF i + 1 <= Len(b) THEN Len(b) - (i + 1) + 1 ELSE 0
      /\ \A k \in 1..(Len(b) - (i + 1) + 1) : Ahead(b, i)[k] = b[(i + 1) + k - 1]
  BY <1>1, <1>2, SubSeqProperties, SMT DEF Ahead
<1> QED
  BY <1>1, <1>3, SMT DEF Bytes

\* At the beginning everything is ahead.
LEMMA AheadZero ==
  ASSUME NEW b \in Bytes
  PROVE  Ahead(b, 0) = b
BY SubSeqFull DEF Ahead, Bytes

\* Two steps ahead are one.
LEMMA AheadAhead ==
  ASSUME NEW b \in Bytes, NEW i \in 0..Len(b), NEW j \in 0..(Len(b) - i)
  PROVE  Ahead(Ahead(b, i), j) = Ahead(b, i + j)
<1>1. Len(b) \in Nat
  BY LenProperties DEF Bytes
<1>2. i + j \in 0..Len(b) /\ j \in 0..Len(Ahead(b, i))
  BY <1>1, AheadProperties
<1>3. /\ Ahead(b, i) \in Bytes
      /\ Len(Ahead(b, i)) = Len(b) - i
      /\ \A k \in 1..(Len(b) - i) : Ahead(b, i)[k] = b[i + k]
  BY AheadProperties
<1>4. /\ Ahead(b, i + j) \in Bytes
      /\ Len(Ahead(b, i + j)) = Len(b) - (i + j)
      /\ \A k \in 1..(Len(b) - (i + j)) : Ahead(b, i + j)[k] = b[i + j + k]
  BY <1>2, AheadProperties
<1>5. /\ Ahead(Ahead(b, i), j) \in Bytes
      /\ Len(Ahead(Ahead(b, i), j)) = Len(Ahead(b, i)) - j
      /\ \A k \in 1..(Len(Ahead(b, i)) - j) :
           Ahead(Ahead(b, i), j)[k] = Ahead(b, i)[j + k]
  BY <1>2, <1>3, AheadProperties
<1>6. ASSUME NEW k \in 1..(Len(b) - (i + j))
      PROVE  Ahead(Ahead(b, i), j)[k] = Ahead(b, i + j)[k]
  <2>1. /\ k \in 1..(Len(Ahead(b, i)) - j) /\ j + k \in 1..(Len(b) - i)
        /\ i + (j + k) = i + j + k
    BY <1>1, <1>3
  <2> QED
    BY <1>3, <1>4, <1>5, <2>1
<1>7. Len(Ahead(Ahead(b, i), j)) = Len(Ahead(b, i + j))
  <2>1. /\ Len(Ahead(Ahead(b, i), j)) = Len(Ahead(b, i)) - j
        /\ Len(Ahead(b, i)) = Len(b) - i
        /\ Len(Ahead(b, i + j)) = Len(b) - (i + j)
    BY <1>3, <1>4, <1>5
  <2>2. i \in Int /\ j \in Int
    BY <1>1
  <2> QED
    BY <1>1, <2>1, <2>2
<1> QED
  BY <1>4, <1>5, <1>6, <1>7, SeqEqual DEF Bytes

\* A whole frame has at least two bytes and lies within the buffer.
LEMMA TotalRange ==
  ASSUME NEW b \in Bytes, Whole(b)
  PROVE  Total(b) \in 2..Len(b)
<1>1. Len(b) \in Nat /\ Len(b) >= 2 /\ Len(b) >= Total(b)
  BY LenProperties DEF Bytes, Whole
<1>2. b[1] \in 0..(Base - 1) /\ b[2] \in 0..(Base - 1)
  <2>1. 1 \in 1..Len(b) /\ 2 \in 1..Len(b)
    BY <1>1
  <2> QED
    BY <2>1, ElementOfSeq DEF Bytes, Byte
<1>3. Base \in Nat
  BY FramingConstants
<1>4. Base * b[2] \in Nat
  BY <1>2, <1>3
<1> QED
  BY <1>1, <1>2, <1>3, <1>4 DEF Total, FromLe

\* The step at a position only looks at later positions.
LEMMA SplitLocal ==
  ASSUME NEW b \in Bytes, NEW i \in 0..Len(b), NEW g, NEW h,
         \A k \in (i + 1)..Len(b) : g[k] = h[k]
  PROVE  SplitStep(b, g, i) = SplitStep(b, h, i)
<1>1. CASE ~Whole(Ahead(b, i))
  BY <1>1 DEF SplitStep
<1>2. CASE Whole(Ahead(b, i))
  <2>1. Total(Ahead(b, i)) \in 2..(Len(b) - i)
    BY <1>2, AheadProperties, TotalRange
  <2>2. i + Total(Ahead(b, i)) \in (i + 1)..Len(b)
    BY <2>1, LenProperties DEF Bytes
  <2> QED
    BY <2>2 DEF SplitStep
<1> QED
  BY <1>1, <1>2

Splits(b, k, g) == \A i \in k..Len(b) : g[i] = SplitStep(b, g, i)

\* The function exists: it is built from the end of the buffer.
LEMMA SplitExists ==
  ASSUME NEW b \in Bytes
  PROVE  \E g : g = [i \in 0..Len(b) |-> SplitStep(b, g, i)]
<1>1. Len(b) \in Nat
  BY LenProperties DEF Bytes
<1> DEFINE S == {n \in Nat : n <= Len(b) => \E g : Splits(b, Len(b) - n, g)}
<1>2. 0 \in S
  <2> DEFINE g0 == [i \in {Len(b)} |-> SplitStep(b, <<>>, i)]
  <2>1. \A i \in Len(b)..Len(b) : i = Len(b) /\ i \in 0..Len(b)
    BY <1>1
  <2>2. SplitStep(b, g0, Len(b)) = SplitStep(b, <<>>, Len(b))
    <3> HIDE DEF g0
    <3>1. Len(b) \in 0..Len(b) /\ \A k \in (Len(b) + 1)..Len(b) : g0[k] = <<>>[k]
      BY <1>1
    <3> QED
      BY <3>1, SplitLocal
  <2>3. Splits(b, Len(b) - 0, g0)
    BY <1>1, <2>1, <2>2 DEF Splits
  <2> QED
    BY <2>3
<1>3. \A n \in Nat : n \in S => n + 1 \in S
  <2> SUFFICES ASSUME NEW n \in Nat, n \in S, n + 1 <= Len(b)
               PROVE  \E g : Splits(b, Len(b) - (n + 1), g)
    OBVIOUS
  <2>1. PICK g : Splits(b, Len(b) - n, g)
    BY <1>1
  <2>2. PICK m : m = Len(b) - (n + 1)
    OBVIOUS
  <2>3. m \in 0..Len(b) /\ m + 1 = Len(b) - n
    BY <1>1, <2>2
  <2> DEFINE h == [i \in m..Len(b) |-> IF i = m THEN SplitStep(b, g, m) ELSE g[i]]
  <2>4. \A i \in (m + 1)..Len(b) : h[i] = g[i]
    BY <2>3
  <2>5. h[m] = SplitStep(b, g, m)
    BY <1>1, <2>3
  <2> HIDE DEF h
  <2>6. ASSUME NEW i \in m..Len(b) PROVE h[i] = SplitStep(b, h, i)
    <3>1. i \in 0..Len(b) /\ \A k \in (i + 1)..Len(b) : k \in (m + 1)..Len(b)
      BY <1>1, <2>3
    <3>2. SplitStep(b, h, i) = SplitStep(b, g, i)
      BY <2>4, <3>1, SplitLocal
    <3>3. CASE i = m
      BY <2>5, <3>2, <3>3
    <3>4. CASE i # m
      <4>1. i \in (m + 1)..Len(b)
        BY <1>1, <2>3, <3>4
      <4>2. g[i] = SplitStep(b, g, i)
        BY <2>1, <2>3, <4>1 DEF Splits
      <4> QED
        BY <2>4, <3>2, <4>1, <4>2
    <3> QED
      BY <3>3, <3>4
  <2>7. Splits(b, m, h)
    BY <2>6 DEF Splits
  <2> QED
    BY <2>2, <2>7
<1>4. Len(b) \in S
  <2> HIDE DEF S
  <2> QED BY <1>1, <1>2, <1>3, NatInduct
<1>5. PICK g : Splits(b, 0, g)
  BY <1>1, <1>4
<1> DEFINE f == [i \in 0..Len(b) |-> SplitStep(b, g, i)]
<1>6. \A i \in 0..Len(b) : f[i] = g[i]
  BY <1>5 DEF Splits
<1>7. \A i \in 0..Len(b) : SplitStep(b, f, i) = SplitStep(b, g, i)
  <2> HIDE DEF f
  <2> TAKE i \in 0..Len(b)
  <2>1. \A k \in (i + 1)..Len(b) : k \in 0..Len(b)
    BY <1>1
  <2> QED
    BY <1>6, <2>1, SplitLocal
<1>8. f = [i \in 0..Len(b) |-> SplitStep(b, f, i)]
  BY <1>7
<1> QED
  BY <1>8

\* SplitFrom is a function with the equation of its recursion ...
LEMMA SplitDef ==
  ASSUME NEW b
  PROVE  SplitFrom(b) = CHOOSE g : g = [i \in 0..Len(b) |-> SplitStep(b, g, i)]
BY DEF SplitFrom, SplitStep, Ahead

\* ... which holds, because there is such a function ...
LEMMA SplitEquation ==
  ASSUME NEW b \in Bytes
  PROVE  SplitFrom(b) = [i \in 0..Len(b) |-> SplitStep(b, SplitFrom(b), i)]
BY SplitDef, SplitExists, Zenon

\* ... and so it does at each position.
LEMMA SplitAt ==
  ASSUME NEW b \in Bytes, NEW i \in 0..Len(b)
  PROVE  SplitFrom(b)[i] = SplitStep(b, SplitFrom(b), i)
<1> DEFINE g == SplitFrom(b)
<1>1. g = [k \in 0..Len(b) |-> SplitStep(b, g, k)]
  BY SplitEquation
<1> HIDE DEF g
<1>2. g[i] = SplitStep(b, g, i)
  BY <1>1
<1> QED
  BY <1>2 DEF g

\* What is ahead of the first frame is shorter than the buffer.
LEMMA AheadSize ==
  ASSUME NEW b \in Bytes, Whole(b)
  PROVE  /\ Total(b) \in 0..Len(b)
         /\ Ahead(b, Total(b)) \in Bytes
         /\ Len(Ahead(b, Total(b))) \in 0..(Len(b) - 1)
<1>1. Total(b) \in 2..Len(b) /\ Len(b) \in Nat
  BY TotalRange, LenProperties DEF Bytes
<1>2. Total(b) \in 0..Len(b)
  BY <1>1
<1>3. Ahead(b, Total(b)) \in Bytes /\ Len(Ahead(b, Total(b))) = Len(b) - Total(b)
  BY <1>2, AheadProperties
<1> QED
  BY <1>1, <1>2, <1>3

\* What is split off a suffix does not depend on what is before it.
LEMMA SplitShift ==
  ASSUME NEW b \in Bytes, NEW i \in 0..Len(b), NEW j \in 0..(Len(b) - i)
  PROVE  SplitFrom(b)[i + j] = SplitFrom(Ahead(b, i))[j]
<1>1. Len(b) \in Nat
  BY LenProperties DEF Bytes
<1>2. PICK a : a = Ahead(b, i)
  OBVIOUS
<1>3. a \in Bytes /\ Len(a) = Len(b) - i
  BY <1>2, AheadProperties
<1>4. PICK g : g = SplitFrom(b)
  OBVIOUS
<1>5. PICK h : h = SplitFrom(a)
  OBVIOUS
<1> DEFINE S == {n \in Nat : \A k \in 0..Len(a) : Len(a) - k = n => g[i + k] = h[k]}
<1>6. ASSUME NEW n \in Nat, \A m \in 0..(n - 1) : m \in S
      PROVE  n \in S
  <2> SUFFICES ASSUME NEW k \in 0..Len(a), Len(a) - k = n
               PROVE  g[i + k] = h[k]
    OBVIOUS
  <2>1. i + k \in 0..Len(b) /\ k \in 0..(Len(b) - i)
    BY <1>1, <1>3
  <2>2. g[i + k] = SplitStep(b, g, i + k) /\ h[k] = SplitStep(a, h, k)
    BY <1>3, <1>4, <1>5, <2>1, SplitAt
  <2>3. PICK x : x = Ahead(a, k)
    OBVIOUS
  <2>4. Ahead(b, i + k) = x
    BY <1>2, <2>1, <2>3, AheadAhead
  <2>5. x \in Bytes /\ Len(x) = Len(a) - k
    BY <1>3, <2>3, AheadProperties
  <2>6. CASE ~Whole(x)
    BY <2>2, <2>3, <2>4, <2>6 DEF SplitStep
  <2>7. CASE Whole(x)
    <3>1. Total(x) \in 2..(Len(a) - k)
      BY <2>5, <2>7, TotalRange
    <3>2. /\ k + Total(x) \in 0..Len(a)
          /\ Len(a) - (k + Total(x)) \in 0..(n - 1)
          /\ i + k + Total(x) = i + (k + Total(x))
      BY <1>1, <1>3, <3>1
    <3>3. g[i + (k + Total(x))] = h[k + Total(x)]
      BY <1>6, <3>2
    <3> QED
      BY <2>2, <2>3, <2>4, <2>7, <3>2, <3>3 DEF SplitStep
  <2> QED
    BY <2>6, <2>7
<1>7. Len(a) - j \in S
  <2>1. Len(a) - j \in Nat
    BY <1>1, <1>3
  <2> HIDE DEF S
  <2> QED
    BY <1>6, <2>1, StrongInduct
<1>8. g[i + j] = h[j]
  BY <1>1, <1>3, <1>7
<1> QED
  BY <1>2, <1>4, <1>5, <1>8

LEMMA SplitNone ==
  ASSUME NEW b \in Bytes, ~Whole(b)
  PROVE  split_frames(b).frames = <<>> /\ split_frames(b).rest = b
<1>1. 0 \in 0..Len(b)
  BY LenProperties DEF Bytes
<1>2. SplitFrom(b)[0] = SplitStep(b, SplitFrom(b), 0)
  BY <1>1, SplitAt
<1>3. SplitStep(b, SplitFrom(b), 0) = [frames |-> <<>>, rest |-> b]
  BY AheadZero DEF SplitStep
<1> QED
  BY <1>2, <1>3 DEF split_frames

\* ... and of any other it takes the first frame off and goes on.
LEMMA SplitOne ==
  ASSUME NEW b \in Bytes, Whole(b)
  PROVE  /\ split_frames(b).frames = <<SubSeq(b, 1, Total(b))>>
                                      \o split_frames(Ahead(b, Total(b))).frames
         /\ split_frames(b).rest = split_frames(Ahead(b, Total(b))).rest
<1>1. 0 \in 0..Len(b) /\ Len(b) \in Nat
  BY LenProperties DEF Bytes
<1>2. Total(b) \in 0..Len(b)
  BY AheadSize
<1>3. 0 \in 0..(Len(b) - Total(b)) /\ Total(b) + 0 = Total(b) /\ 0 + Total(b) = Total(b)
  BY <1>1, <1>2
<1>4. SplitFrom(b)[Total(b)] = SplitFrom(Ahead(b, Total(b)))[0]
  BY <1>2, <1>3, SplitShift
<1>5. SplitFrom(b)[0] = SplitStep(b, SplitFrom(b), 0)
  BY <1>1, SplitAt
<1>6. SplitStep(b, SplitFrom(b), 0) =
        [frames |-> <<SubSeq(b, 1, Total(b))>> \o SplitFrom(b)[0 + Total(b)].frames,
         rest |-> SplitFrom(b)[0 + Total(b)].rest]
  BY AheadZero DEF SplitStep
<1>7. split_frames(Ahead(b, Total(b))) = SplitFrom(b)[0 + Total(b)]
  BY <1>3, <1>4 DEF split_frames
<1>8. split_frames(b) =
        [frames |-> <<SubSeq(b, 1, Total(b))>> \o split_frames(Ahead(b, Total(b))).frames,
         rest |-> split_frames(Ahead(b, Total(b))).rest]
  BY <1>5, <1>6, <1>7, Zenon DEF split_frames
<1> QED
  BY <1>8

FirstFrame(b) == SubSeq(b, 1, Total(b))

\* The first frame is the beginning of the buffer.
LEMMA FirstFrameProperties ==
  ASSUME NEW b \in Bytes, Whole(b)
  PROVE  /\ FirstFrame(b) \in Bytes
         /\ Len(FirstFrame(b)) = Total(b)
         /\ \A k \in 1..Total(b) : FirstFrame(b)[k] = b[k]
<1>1. Total(b) \in 2..Len(b) /\ Len(b) \in Nat
  BY TotalRange, LenProperties DEF Bytes
<1>2. \A k \in 1..Total(b) : b[k] \in Byte
  <2> TAKE k \in 1..Total(b)
  <2>1. k \in 1..Len(b)
    BY <1>1
  <2> QED
    BY <2>1, ElementOfSeq DEF Bytes
<1>3. /\ FirstFrame(b) \in Seq(Byte)
      /\ Len(FirstFrame(b)) = IF 1 <= Total(b) THEN (Total(b) - 1) + 1 ELSE 0
      /\ \A k \in 1..((Total(b) - 1) + 1) : FirstFrame(b)[k] = b[(1 + k) - 1]
  BY <1>1, <1>2, SubSeqProperties DEF FirstFrame
<1>4. (Total(b) - 1) + 1 = Total(b) /\ 1 <= Total(b)
  BY <1>1
<1>5. ASSUME NEW k \in 1..Total(b) PROVE FirstFrame(b)[k] = b[k]
  <2>1. (1 + k) - 1 = k /\ k \in 1..((Total(b) - 1) + 1)
    BY <1>1
  <2> QED
    BY <1>3, <2>1
<1> QED
  BY <1>3, <1>4, <1>5 DEF Bytes

SplitTyped(b) ==
  /\ split_frames(b).frames \in Seq(Bytes)
  /\ split_frames(b).rest \in Bytes
  /\ ~Whole(split_frames(b).rest)

\* split_frames leaves no complete frame behind.
LEMMA SplitType ==
  ASSUME NEW b \in Bytes
  PROVE  SplitTyped(b)
<1> DEFINE S == {n \in Nat : \A x \in Bytes : Len(x) = n => SplitTyped(x)}
<1>1. ASSUME NEW n \in Nat, \A m \in 0..(n - 1) : m \in S
      PROVE  n \in S
  <2> SUFFICES ASSUME NEW x \in Bytes, Len(x) = n
               PROVE  SplitTyped(x)
    OBVIOUS
  <2>1. CASE ~Whole(x)
    BY <2>1, SplitNone, EmptySeq DEF SplitTyped
  <2>2. CASE Whole(x)
    <3>1. Ahead(x, Total(x)) \in Bytes /\ Len(Ahead(x, Total(x))) \in 0..(n - 1)
      BY <2>2, AheadSize
    <3>2. SplitTyped(Ahead(x, Total(x)))
      BY <1>1, <3>1
    <3>3. <<FirstFrame(x)>> \in Seq(Bytes)
      BY <2>2, FirstFrameProperties
    <3>4. <<FirstFrame(x)>> \o split_frames(Ahead(x, Total(x))).frames \in Seq(Bytes)
      BY <3>2, <3>3, ConcatProperties DEF SplitTyped
    <3> QED
      BY <2>2, <3>2, <3>4, SplitOne DEF SplitTyped, FirstFrame
  <2> QED
    BY <2>1, <2>2
<1>2. Len(b) \in S
  <2>1. Len(b) \in Nat
    BY LenProperties DEF Bytes
  <2> HIDE DEF S
  <2> QED
    BY <1>1, <2>1, StrongInduct
<1> QED
  BY <1>2

\* Bytes behind a complete frame do not change it.
LEMMA WholePrefix ==
  ASSUME NEW x \in Bytes, NEW y \in Bytes, Whole(x)
  PROVE  /\ x \o y \in Bytes /\ Whole(x \o y) /\ Total(x \o y) = Total(x)
         /\ FirstFrame(x \o y) = FirstFrame(x)
         /\ Ahead(x \o y, Total(x)) = Ahead(x, Total(x)) \o y
<1>1. /\ x \o y \in Bytes
      /\ Len(x \o y) = Len(x) + Len(y)
      /\ \A k \in 1..(Len(x) + Len(y)) :
           (x \o y)[k] = IF k <= Len(x) THEN x[k] ELSE y[k - Len(x)]
  BY ConcatProperties DEF Bytes
<1>2. Len(x) \in Nat /\ Len(y) \in Nat /\ Total(x) \in 2..Len(x)
  BY TotalRange, LenProperties DEF Bytes
<1>3. (x \o y)[1] = x[1] /\ (x \o y)[2] = x[2]
  BY <1>1, <1>2
<1>4. Total(x \o y) = Total(x)
  BY <1>3 DEF Total
<1>5. Whole(x \o y)
  BY <1>1, <1>2, <1>4 DEF Whole
<1>6. FirstFrame(x \o y) = FirstFrame(x)
  <2>1. /\ FirstFrame(x) \in Bytes /\ Len(FirstFrame(x)) = Total(x)
        /\ \A k \in 1..Total(x) : FirstFrame(x)[k] = x[k]
    BY FirstFrameProperties
  <2>2. /\ FirstFrame(x \o y) \in Bytes /\ Len(FirstFrame(x \o y)) = Total(x)
        /\ \A k \in 1..Total(x) : FirstFrame(x \o y)[k] = (x \o y)[k]
    BY <1>1, <1>4, <1>5, FirstFrameProperties
  <2>3. \A k \in 1..Total(x) : FirstFrame(x \o y)[k] = FirstFrame(x)[k]
    BY <1>1, <1>2, <2>1, <2>2
  <2> QED
    BY <2>1, <2>2, <2>3, SeqEqual DEF Bytes
<1>7. Ahead(x \o y, Total(x)) = Ahead(x, Total(x)) \o y
  <2>1. Total(x) \in 0..Len(x) /\ Total(x) \in 0..Len(x \o y)
    BY <1>1, <1>2
  <2>2. /\ Ahead(x \o y, Total(x)) \in Bytes
        /\ Len(Ahead(x \o y, Total(x))) = Len(x \o y) - Total(x)
        /\ \A k \in 1..(Len(x \o y) - Total(x)) :
             Ahead(x \o y, Total(x))[k] = (x \o y)[Total(x) + k]
    BY <1>1, <2>1, AheadProperties
  <2>3. /\ Ahead(x, Total(x)) \in Bytes
        /\ Len(Ahead(x, Total(x))) = Len(x) - Total(x)
        /\ \A k \in 1..(Len(x) - Total(x)) : Ahead(x, Total(x))[k] = x[Total(x) + k]
    BY <2>1, AheadProperties
  <2>4. PICK a : a = Ahead(x, Total(x))
    OBVIOUS
  <2>5. /\ a \o y \in Bytes
        /\ Len(a \o y) = Len(a) + Len(y)
        /\ \A k \in 1..(Len(a) + Len(y)) :
             (a \o y)[k] = IF k <= Len(a) THEN a[k] ELSE y[k - Len(a)]
    BY <2>3, <2>4, ConcatProperties DEF Bytes
  <2>6. Len(a \o y) = Len(Ahead(x \o y, Total(x)))
    BY <1>1, <1>2, <2>2, <2>3, <2>4, <2>5
  <2>7. ASSUME NEW k \in 1..Len(a \o y)
        PROVE  Ahead(x \o y, Total(x))[k] = (a \o y)[k]
    <3>1. /\ k \in 1..(Len(x \o y) - Total(x)) /\ k \in Int
          /\ Total(x) + k \in 1..(Len(x) + Len(y))
          /\ k \in 1..(Len(a) + Len(y))
          /\ Len(a) = Len(x) - Total(x)
      BY <1>1, <1>2, <2>2, <2>3, <2>4, <2>5, <2>6
    <3>2. CASE k <= Len(a)
      <4>1. k \in 1..(Len(x) - Total(x)) /\ Total(x) + k <= Len(x)
        BY <1>2, <3>1, <3>2
      <4> QED
        BY <1>1, <2>2, <2>3, <2>4, <2>5, <3>1, <3>2, <4>1
    <3>3. CASE ~(k <= Len(a))
      <4>1. ~(Total(x) + k <= Len(x)) /\ (Total(x) + k) - Len(x) = k - Len(a)
        BY <1>2, <3>1, <3>3
      <4>2. (x \o y)[Total(x) + k] = y[(Total(x) + k) - Len(x)]
        <5>1. PICK z \in 1..(Len(x) + Len(y)) : z = Total(x) + k
          BY <3>1
        <5>2. ~(z <= Len(x))
          BY <4>1, <5>1
        <5>3. (x \o y)[z] = y[z - Len(x)]
          BY <1>1, <5>2
        <5> QED
          BY <5>1, <5>3, Zenon
      <4>3. (a \o y)[k] = y[k - Len(a)]
        BY <2>5, <3>1, <3>3
      <4>4. Ahead(x \o y, Total(x))[k] = (x \o y)[Total(x) + k]
        BY <2>2, <3>1
      <4> QED
        BY <4>1, <4>2, <4>3, <4>4
    <3> QED
      BY <3>2, <3>3
  <2> QED
    BY <2>2, <2>4, <2>5, <2>6, <2>7, SeqEqual DEF Bytes
<1> QED
  BY <1>1, <1>4, <1>5, <1>6, <1>7

SplitJoins(x, y) ==
  LET before == split_frames(x)
      after  == split_frames(before.rest \o y)
  IN /\ split_frames(x \o y).frames = before.frames \o after.frames
     /\ split_frames(x \o y).rest = after.rest

\* For all bytes, wherever the stream is cut: split_frames yields the frames of the
\* first part and then those of what it left in the buffer with the second, the same
\* as of the whole.
THEOREM SplitAnywhere ==
  ASSUME NEW b \in Bytes, NEW y \in Bytes
  PROVE  SplitJoins(b, y)
<1> DEFINE S == {n \in Nat : \A x \in Bytes : Len(x) = n => SplitJoins(x, y)}
<1>1. ASSUME NEW n \in Nat, \A m \in 0..(n - 1) : m \in S
      PROVE  n \in S
  <2> SUFFICES ASSUME NEW x \in Bytes, Len(x) = n
               PROVE  SplitJoins(x, y)
    OBVIOUS
  <2>1. x \o y \in Bytes
    BY ConcatProperties DEF Bytes
  <2>2. CASE ~Whole(x)
    <3>1. split_frames(x).frames = <<>> /\ split_frames(x).rest = x
      BY <2>2, SplitNone
    <3>2. split_frames(x \o y).frames \in Seq(Bytes)
      BY <2>1, SplitType DEF SplitTyped
    <3>3. <<>> \o split_frames(x \o y).frames = split_frames(x \o y).frames
      BY <3>2, ConcatEmptySeq
    <3> QED
      BY <3>1, <3>3 DEF SplitJoins
  <2>3. CASE Whole(x)
    <3>1. PICK a : a = Ahead(x, Total(x))
      OBVIOUS
    <3>2. a \in Bytes /\ Len(a) \in 0..(n - 1)
      BY <2>3, <3>1, AheadSize
    <3>3. SplitJoins(a, y)
      BY <1>1, <3>2
    <3>4. PICK t : t = split_frames(split_frames(a).rest \o y)
      OBVIOUS
    <3>5. /\ split_frames(x).frames = <<FirstFrame(x)>> \o split_frames(a).frames
          /\ split_frames(x).rest = split_frames(a).rest
      BY <2>3, <3>1, SplitOne DEF FirstFrame
    <3>6. /\ split_frames(x \o y).frames = <<FirstFrame(x)>> \o split_frames(a \o y).frames
          /\ split_frames(x \o y).rest = split_frames(a \o y).rest
      <4>1. /\ x \o y \in Bytes /\ Whole(x \o y) /\ Total(x \o y) = Total(x)
            /\ FirstFrame(x \o y) = FirstFrame(x)
            /\ Ahead(x \o y, Total(x)) = a \o y
        BY <2>3, <3>1, WholePrefix
      <4>2. /\ split_frames(x \o y).frames =
                 <<FirstFrame(x \o y)>> \o split_frames(Ahead(x \o y, Total(x \o y))).frames
            /\ split_frames(x \o y).rest = split_frames(Ahead(x \o y, Total(x \o y))).rest
        BY <4>1, SplitOne DEF FirstFrame
      <4> QED
        BY <4>1, <4>2
    <3>7. /\ split_frames(a \o y).frames = split_frames(a).frames \o t.frames
          /\ split_frames(a \o y).rest = t.rest
      BY <3>3, <3>4 DEF SplitJoins
    <3>8. split_frames(a).frames \in Seq(Bytes) /\ split_frames(a).rest \in Bytes
      BY <3>2, SplitType DEF SplitTyped
    <3>9. t.frames \in Seq(Bytes)
      <4>1. split_frames(a).rest \o y \in Bytes
        BY <3>8, ConcatProperties DEF Bytes
      <4> QED
        BY <3>4, <4>1, SplitType DEF SplitTyped
    <3>10. <<FirstFrame(x)>> \in Seq(Bytes)
      BY <2>3, FirstFrameProperties
    <3>11. <<FirstFrame(x)>> \o (split_frames(a).frames \o t.frames)
             = (<<FirstFrame(x)>> \o split_frames(a).frames) \o t.frames
      <4>1. PICK p \in Seq(Bytes), q \in Seq(Bytes), r \in Seq(Bytes) :
              p = <<FirstFrame(x)>> /\ q = split_frames(a).frames /\ r = t.frames
        BY <3>8, <3>9, <3>10
      <4>2. (p \o q) \o r = p \o (q \o r)
        BY ConcatAssociative
      <4> QED
        BY <4>1, <4>2
    <3> QED
      BY <3>4, <3>5, <3>6, <3>7, <3>11 DEF SplitJoins
  <2> QED
    BY <2>2, <2>3
<1>2. Len(b) \in S
  <2>1. Len(b) \in Nat
    BY LenProperties DEF Bytes
  <2> HIDE DEF S
  <2> QED
    BY <1>1, <2>1, StrongInduct
<1> QED
  BY <1>2

-----------------------------------------------------------------------------
\* Escape is a byte and not zero.
LEMMA EscapeRange == Escape \in Byte /\ Escape \in Nat \ {0} /\ Byte \subseteq Nat
BY FramingConstants DEF Escape, Byte

\* A set of numbers with a bound has a greatest one.
LEMMA GreatestExists ==
  ASSUME NEW S, NEW bound \in Nat, S \subseteq 0..bound, S # {}
  PROVE  \E x \in S : \A y \in S : x >= y
<1> DEFINE T == {n \in Nat : bound - n \in S}
<1>1. PICK s \in S : TRUE
  OBVIOUS
<1>2. bound - s \in T
  <2>1. s \in 0..bound
    OBVIOUS
  <2>2. bound - s \in Nat /\ bound - (bound - s) = s
    BY <2>1
  <2> QED
    BY <2>2
<1>3. PICK n \in T : \A m \in T : n <= m
  <2> DEFINE R == OpToRel(<, Nat)
  <2>1. PICK n \in T : \A m \in T : ~(<<m, n>> \in R)
    BY <1>2, NatLessThanWellFounded, WFMin, Zenon
  <2>2. R = {ss \in Nat \X Nat : ss[1] < ss[2]}
    BY DEF OpToRel
  <2>3. \A m \in T : ~(m < n)
    <3> HIDE DEF R
    <3> TAKE m \in T
    <3> QED BY <2>1, <2>2
  <2> QED
    BY <2>3
<1>4. ASSUME NEW y \in S PROVE bound - n >= y
  <2>1. y \in 0..bound
    OBVIOUS
  <2>2. bound - y \in Nat /\ bound - (bound - y) = y
    BY <2>1
  <2>3. n <= bound - y
    BY <1>3, <2>2
  <2> QED
    BY <2>1, <2>3
<1> QED
  BY <1>3, <1>4

RunLengths(p, idx) ==
  {n \in 1..Escape : idx + n <= Len(p) /\ \A k \in 1..n : p[idx + k] = p[idx + 1]}

\* A run has at least one byte, stays within the payload and repeats its first byte.
LEMMA RunProperties ==
  ASSUME NEW p \in Bytes, NEW idx \in 0..(Len(p) - 1)
  PROVE  /\ Run(p, idx) \in 1..Escape
         /\ idx + Run(p, idx) <= Len(p)
         /\ \A k \in 1..Run(p, idx) : p[idx + k] = p[idx + 1]
<1>1. Len(p) \in Nat
  BY LenProperties DEF Bytes
<1>2. 1 \in RunLengths(p, idx)
  <2>1. 1 \in 1..Escape /\ idx + 1 <= Len(p)
    BY <1>1, EscapeRange
  <2>2. \A k \in 1..1 : k = 1
    OBVIOUS
  <2> QED
    BY <2>1, <2>2 DEF RunLengths
<1>3. RunLengths(p, idx) \subseteq 0..Escape /\ Escape \in Nat
  BY EscapeRange DEF RunLengths
<1>4. \E x \in RunLengths(p, idx) : \A y \in RunLengths(p, idx) : x >= y
  BY <1>2, <1>3, GreatestExists
<1>5. Run(p, idx) = Max(RunLengths(p, idx))
  BY DEF Run, RunLengths
<1>6. Run(p, idx) \in RunLengths(p, idx)
  BY <1>4, <1>5, Zenon DEF Max
<1> QED
  BY <1>6 DEF RunLengths

\* The copies of a byte are bytes.
LEMMA CopiesProperties ==
  ASSUME NEW n \in Nat, NEW byte \in Byte
  PROVE  /\ Copies(n, byte) \in Bytes
         /\ Len(Copies(n, byte)) = n
         /\ \A k \in 1..n : Copies(n, byte)[k] = byte
<1>1. Copies(n, byte) \in [1..n -> Byte]
  BY DEF Copies
<1> QED
  BY <1>1 DEF Copies, Bytes

\* What stands for a run are bytes.
LEMMA PackedType ==
  ASSUME NEW run \in 1..Escape, NEW byte \in Byte
  PROVE  Packed(run, byte) \in Bytes
<1>1. run \in Nat /\ run \in Byte /\ Escape \in Byte
  BY FramingConstants, EscapeRange DEF Escape, Byte
<1>2. CASE run >= MinRun \/ byte = Escape
  <2>1. <<Escape, run, byte>> \in Seq(Byte)
    BY <1>1
  <2> QED
    BY <1>2, <2>1 DEF Packed, Bytes
<1>3. CASE ~(run >= MinRun \/ byte = Escape)
  BY <1>1, <1>3, CopiesProperties DEF Packed
<1> QED
  BY <1>2, <1>3

-----------------------------------------------------------------------------
\* The recursion of compression.
CompressStep(p, g, idx) ==
  IF idx = Len(p) THEN <<>>
  ELSE Packed(Run(p, idx), p[idx + 1]) \o g[idx + Run(p, idx)]

\* The step of compression at a position only looks at later positions.
LEMMA CompressLocal ==
  ASSUME NEW p \in Bytes, NEW idx \in 0..Len(p), NEW g, NEW h,
         \A k \in (idx + 1)..Len(p) : g[k] = h[k]
  PROVE  CompressStep(p, g, idx) = CompressStep(p, h, idx)
<1>1. CASE idx = Len(p)
  BY <1>1 DEF CompressStep
<1>2. CASE idx # Len(p)
  <2>1. Len(p) \in Nat
    BY LenProperties DEF Bytes
  <2>2. idx \in 0..(Len(p) - 1)
    BY <1>2, <2>1
  <2>3. Run(p, idx) \in 1..Escape /\ idx + Run(p, idx) <= Len(p)
    BY <2>2, RunProperties
  <2>4. idx + Run(p, idx) \in (idx + 1)..Len(p)
    BY <2>1, <2>2, <2>3, EscapeRange
  <2> QED
    BY <2>4 DEF CompressStep
<1> QED
  BY <1>1, <1>2

Compresses(p, m, g) == \A i \in m..Len(p) : g[i] = CompressStep(p, g, i)

\* The function exists: it is built from the end of the payload.
LEMMA CompressExists ==
  ASSUME NEW p \in Bytes
  PROVE  \E g : g = [idx \in 0..Len(p) |-> CompressStep(p, g, idx)]
<1>1. Len(p) \in Nat
  BY LenProperties DEF Bytes
<1> DEFINE S == {n \in Nat : n <= Len(p) => \E g : Compresses(p, Len(p) - n, g)}
<1>2. 0 \in S
  <2> DEFINE g0 == [i \in {Len(p)} |-> <<>>]
  <2>1. \A i \in Len(p)..Len(p) : i = Len(p)
    BY <1>1
  <2>2. CompressStep(p, g0, Len(p)) = <<>>
    BY DEF CompressStep
  <2>3. Compresses(p, Len(p) - 0, g0)
    BY <1>1, <2>1, <2>2 DEF Compresses
  <2> QED
    BY <2>3
<1>3. \A n \in Nat : n \in S => n + 1 \in S
  <2> SUFFICES ASSUME NEW n \in Nat, n \in S, n + 1 <= Len(p)
               PROVE  \E g : Compresses(p, Len(p) - (n + 1), g)
    OBVIOUS
  <2>1. PICK g : Compresses(p, Len(p) - n, g)
    BY <1>1
  <2>2. PICK m : m = Len(p) - (n + 1)
    OBVIOUS
  <2>3. m \in 0..Len(p) /\ m + 1 = Len(p) - n
    BY <1>1, <2>2
  <2> DEFINE h == [i \in m..Len(p) |-> IF i = m THEN CompressStep(p, g, m) ELSE g[i]]
  <2>4. \A i \in (m + 1)..Len(p) : h[i] = g[i]
    BY <2>3
  <2>5. h[m] = CompressStep(p, g, m)
    BY <1>1, <2>3
  <2> HIDE DEF h
  <2>6. ASSUME NEW i \in m..Len(p) PROVE h[i] = CompressStep(p, h, i)
    <3>1. i \in 0..Len(p) /\ \A k \in (i + 1)..Len(p) : k \in (m + 1)..Len(p)
      BY <1>1, <2>3
    <3>2. CompressStep(p, h, i) = CompressStep(p, g, i)
      BY <2>4, <3>1, CompressLocal
    <3>3. CASE i = m
      BY <2>5, <3>2, <3>3
    <3>4. CASE i # m
      <4>1. i \in (m + 1)..Len(p)
        BY <1>1, <2>3, <3>4
      <4>2. g[i] = CompressStep(p, g, i)
        BY <2>1, <2>3, <4>1 DEF Compresses
      <4> QED
        BY <2>4, <3>2, <4>1, <4>2
    <3> QED
      BY <3>3, <3>4
  <2>7. Compresses(p, m, h)
    BY <2>6 DEF Compresses
  <2> QED
    BY <2>2, <2>7
<1>4. Len(p) \in S
  <2> HIDE DEF S
  <2> QED BY <1>1, <1>2, <1>3, NatInduct
<1>5. PICK g : Compresses(p, 0, g)
  BY <1>1, <1>4
<1> DEFINE f == [i \in 0..Len(p) |-> CompressStep(p, g, i)]
<1>6. \A i \in 0..Len(p) : f[i] = g[i]
  BY <1>5 DEF Compresses
<1>7. \A i \in 0..Len(p) : CompressStep(p, f, i) = CompressStep(p, g, i)
  <2> HIDE DEF f
  <2> TAKE i \in 0..Len(p)
  <2>1. \A k \in (i + 1)..Len(p) : k \in 0..Len(p)
    BY <1>1
  <2> QED
    BY <1>6, <2>1, CompressLocal
<1>8. f = [i \in 0..Len(p) |-> CompressStep(p, f, i)]
  BY <1>7
<1> QED
  BY <1>8

\* CompressFrom is a function with the equation of its recursion ...
LEMMA CompressDef ==
  ASSUME NEW p
  PROVE  CompressFrom(p) =
           CHOOSE g : g = [idx \in 0..Len(p) |-> CompressStep(p, g, idx)]
BY DEF CompressFrom, CompressStep

\* ... which holds at each position.
LEMMA CompressAt ==
  ASSUME NEW p \in Bytes, NEW idx \in 0..Len(p)
  PROVE  CompressFrom(p)[idx] = CompressStep(p, CompressFrom(p), idx)
<1> DEFINE g == CompressFrom(p)
<1>1. g = [k \in 0..Len(p) |-> CompressStep(p, g, k)]
  BY CompressDef, CompressExists, Zenon
<1> HIDE DEF g
<1>2. g[idx] = CompressStep(p, g, idx)
  BY <1>1
<1> QED
  BY <1>2 DEF g

\* Compression yields bytes.
LEMMA CompressType ==
  ASSUME NEW p \in Bytes, NEW idx \in 0..Len(p)
  PROVE  CompressFrom(p)[idx] \in Bytes
<1>1. Len(p) \in Nat
  BY LenProperties DEF Bytes
<1> DEFINE S == {n \in Nat : \A i \in 0..Len(p) :
                               Len(p) - i = n => CompressFrom(p)[i] \in Bytes}
<1>2. ASSUME NEW n \in Nat, \A m \in 0..(n - 1) : m \in S
      PROVE  n \in S
  <2> SUFFICES ASSUME NEW i \in 0..Len(p), Len(p) - i = n
               PROVE  CompressFrom(p)[i] \in Bytes
    OBVIOUS
  <2>1. CompressFrom(p)[i] = CompressStep(p, CompressFrom(p), i)
    BY CompressAt
  <2>2. CASE i = Len(p)
    BY <2>1, <2>2, EmptySeq DEF CompressStep, Bytes
  <2>3. CASE i # Len(p)
    <3>1. i \in 0..(Len(p) - 1)
      BY <1>1, <2>3
    <3>2. Run(p, i) \in 1..Escape /\ i + Run(p, i) <= Len(p)
      BY <3>1, RunProperties
    <3>3. /\ i + Run(p, i) \in 0..Len(p)
          /\ Len(p) - (i + Run(p, i)) \in 0..(n - 1)
      BY <1>1, <3>1, <3>2, EscapeRange
    <3>4. CompressFrom(p)[i + Run(p, i)] \in Bytes
      BY <1>2, <3>3
    <3>5. p[i + 1] \in Byte
      <4>1. i + 1 \in 1..Len(p)
        BY <1>1, <3>1
      <4> QED
        BY <4>1, ElementOfSeq DEF Bytes
    <3>6. Packed(Run(p, i), p[i + 1]) \in Bytes
      BY <3>2, <3>5, PackedType
    <3> QED
      BY <2>1, <2>3, <3>4, <3>6, ConcatProperties DEF CompressStep, Bytes
  <2> QED
    BY <2>2, <2>3
<1>3. Len(p) - idx \in S
  <2>1. Len(p) - idx \in Nat
    BY <1>1
  <2> HIDE DEF S
  <2> QED
    BY <1>2, <2>1, StrongInduct
<1> QED
  BY <1>3

-----------------------------------------------------------------------------
\* The recursion of decompression.
DecompressCell(c, m, g, idx, n) ==
  IF idx = Len(c) THEN [ok |-> TRUE, payload |-> <<>>]
  ELSE IF c[idx + 1] # Escape THEN
    IF n + 1 > m THEN Refused("DecompressedPayloadTooLarge")
    ELSE Then(Copies(1, c[idx + 1]), g[idx + 1][n + 1])
  ELSE IF idx + 2 >= Len(c) \/ c[idx + 2] = 0 THEN Refused("MalformedCompressionStream")
  ELSE IF n + c[idx + 2] > m THEN Refused("DecompressedPayloadTooLarge")
  ELSE Then(Copies(c[idx + 2], c[idx + 3]), g[idx + 3][n + c[idx + 2]])

DecompressStep(c, m, g, idx) == [n \in 0..m |-> DecompressCell(c, m, g, idx, n)]

\* The step of decompression at a position only looks at later positions.
LEMMA DecompressLocal ==
  ASSUME NEW c \in Bytes, NEW m \in Nat, NEW idx \in 0..Len(c), NEW g, NEW h,
         \A k \in (idx + 1)..Len(c) : g[k] = h[k]
  PROVE  DecompressStep(c, m, g, idx) = DecompressStep(c, m, h, idx)
<1>1. Len(c) \in Nat
  BY LenProperties DEF Bytes
<1>2. ASSUME NEW n \in 0..m
      PROVE  DecompressCell(c, m, g, idx, n) = DecompressCell(c, m, h, idx, n)
  <2>1. CASE idx = Len(c)
    BY <2>1 DEF DecompressCell
  <2>2. CASE idx # Len(c) /\ c[idx + 1] # Escape
    <3>1. idx + 1 \in (idx + 1)..Len(c)
      BY <1>1, <2>2
    <3>2. g[idx + 1] = h[idx + 1]
      BY <3>1
    <3> QED
      BY <2>2, <3>2, Zenon DEF DecompressCell
  <2>3. CASE idx # Len(c) /\ c[idx + 1] = Escape /\ idx + 2 >= Len(c)
    BY <2>3, Zenon DEF DecompressCell
  <2>4. CASE idx # Len(c) /\ c[idx + 1] = Escape /\ ~(idx + 2 >= Len(c))
    <3>1. idx + 3 \in (idx + 1)..Len(c)
      BY <1>1, <2>4
    <3>2. g[idx + 3] = h[idx + 3]
      BY <3>1
    <3> QED
      BY <2>4, <3>2, Zenon DEF DecompressCell
  <2> QED
    BY <2>1, <2>2, <2>3, <2>4
<1> QED
  BY <1>2, Zenon DEF DecompressStep

Decompresses(c, m, first, g) == \A i \in first..Len(c) : g[i] = DecompressStep(c, m, g, i)

\* The function exists: it is built from the end of the stream.
LEMMA DecompressExists ==
  ASSUME NEW c \in Bytes, NEW max \in Nat
  PROVE  \E g : g = [idx \in 0..Len(c) |-> DecompressStep(c, max, g, idx)]
<1>1. Len(c) \in Nat
  BY LenProperties DEF Bytes
<1> DEFINE S == {n \in Nat : n <= Len(c) => \E g : Decompresses(c, max, Len(c) - n, g)}
<1>2. 0 \in S
  <2> DEFINE g0 == [i \in {Len(c)} |-> DecompressStep(c, max, <<>>, i)]
  <2>1. \A i \in Len(c)..Len(c) : i = Len(c) /\ i \in 0..Len(c)
    BY <1>1
  <2>2. DecompressStep(c, max, g0, Len(c)) = DecompressStep(c, max, <<>>, Len(c))
    <3> HIDE DEF g0
    <3>1. Len(c) \in 0..Len(c) /\ \A k \in (Len(c) + 1)..Len(c) : g0[k] = <<>>[k]
      BY <1>1
    <3> QED
      BY <3>1, DecompressLocal
  <2>3. Decompresses(c, max, Len(c) - 0, g0)
    BY <1>1, <2>1, <2>2 DEF Decompresses
  <2> QED
    BY <2>3
<1>3. \A n \in Nat : n \in S => n + 1 \in S
  <2>0. \A n \in Nat : n + 1 \in Nat
    OBVIOUS
  <2> SUFFICES ASSUME NEW n \in Nat, n \in S, n + 1 <= Len(c)
               PROVE  \E g : Decompresses(c, max, Len(c) - (n + 1), g)
    BY <2>0, Zenon
  <2>1. PICK g : Decompresses(c, max, Len(c) - n, g)
    BY <1>1
  <2>2. PICK m : m = Len(c) - (n + 1)
    OBVIOUS
  <2>3. m \in 0..Len(c) /\ m + 1 = Len(c) - n
    BY <1>1, <2>2
  <2> DEFINE h == [i \in m..Len(c) |-> IF i = m THEN DecompressStep(c, max, g, m) ELSE g[i]]
  <2>4. \A i \in (m + 1)..Len(c) : h[i] = g[i]
    BY <2>3
  <2>5. h[m] = DecompressStep(c, max, g, m)
    BY <1>1, <2>3
  <2> HIDE DEF h
  <2>6. ASSUME NEW i \in m..Len(c) PROVE h[i] = DecompressStep(c, max, h, i)
    <3>1. i \in 0..Len(c) /\ \A k \in (i + 1)..Len(c) : k \in (m + 1)..Len(c)
      BY <1>1, <2>3
    <3>2. DecompressStep(c, max, h, i) = DecompressStep(c, max, g, i)
      BY <2>4, <3>1, DecompressLocal
    <3>3. CASE i = m
      BY <2>5, <3>2, <3>3
    <3>4. CASE i # m
      <4>1. i \in (m + 1)..Len(c)
        BY <1>1, <2>3, <3>4
      <4>2. g[i] = DecompressStep(c, max, g, i)
        BY <2>1, <2>3, <4>1 DEF Decompresses
      <4> QED
        BY <2>4, <3>2, <4>1, <4>2
    <3> QED
      BY <3>3, <3>4
  <2>7. Decompresses(c, max, m, h)
    BY <2>6 DEF Decompresses
  <2> QED
    BY <2>2, <2>7
<1>4. Len(c) \in S
  <2> HIDE DEF S
  <2> QED BY <1>1, <1>2, <1>3, NatInduct
<1>5. PICK g : Decompresses(c, max, 0, g)
  BY <1>1, <1>4
<1> DEFINE f == [i \in 0..Len(c) |-> DecompressStep(c, max, g, i)]
<1>6. \A i \in 0..Len(c) : f[i] = g[i]
  BY <1>5 DEF Decompresses
<1>7. \A i \in 0..Len(c) : DecompressStep(c, max, f, i) = DecompressStep(c, max, g, i)
  <2> HIDE DEF f
  <2> TAKE i \in 0..Len(c)
  <2>1. \A k \in (i + 1)..Len(c) : k \in 0..Len(c)
    BY <1>1
  <2> QED
    BY <1>6, <2>1, DecompressLocal
<1>8. f = [i \in 0..Len(c) |-> DecompressStep(c, max, f, i)]
  BY <1>7
<1> QED
  BY <1>8

\* DecompressFrom is a function with the equation of its recursion ...
LEMMA DecompressDef ==
  ASSUME NEW c, NEW max
  PROVE  DecompressFrom(c, max) =
           CHOOSE g : g = [idx \in 0..Len(c) |-> DecompressStep(c, max, g, idx)]
BY DEF DecompressFrom, DecompressStep, DecompressCell

\* ... which holds at each position and for each length of the output.
LEMMA DecompressAt ==
  ASSUME NEW c \in Bytes, NEW max \in Nat, NEW idx \in 0..Len(c), NEW n \in 0..max
  PROVE  DecompressFrom(c, max)[idx][n] =
           DecompressCell(c, max, DecompressFrom(c, max), idx, n)
<1> DEFINE g == DecompressFrom(c, max)
<1>1. g = [k \in 0..Len(c) |-> DecompressStep(c, max, g, k)]
  BY DecompressDef, DecompressExists, Zenon
<1> HIDE DEF g
<1>2. g[idx] = DecompressStep(c, max, g, idx)
  BY <1>1
<1>3. DecompressStep(c, max, g, idx)[n] = DecompressCell(c, max, g, idx, n)
  BY DEF DecompressStep
<1> QED
  BY <1>2, <1>3 DEF g

-----------------------------------------------------------------------------
\* What is ahead of the first part of a sequence, and of a run.
LEMMA AheadOfConcat ==
  ASSUME NEW x \in Bytes, NEW t \in Bytes
  PROVE  /\ x \o t \in Bytes /\ Len(x) \in 0..Len(x \o t)
         /\ Len(x \o t) = Len(x) + Len(t)
         /\ \A k \in 1..Len(x) : (x \o t)[k] = x[k]
         /\ Ahead(x \o t, Len(x)) = t
<1>1. /\ x \o t \in Bytes
      /\ Len(x \o t) = Len(x) + Len(t)
      /\ \A k \in 1..(Len(x) + Len(t)) :
           (x \o t)[k] = IF k <= Len(x) THEN x[k] ELSE t[k - Len(x)]
  BY ConcatProperties DEF Bytes
<1>2. Len(x) \in Nat /\ Len(t) \in Nat
  BY LenProperties DEF Bytes
<1>3. Len(x) \in 0..Len(x \o t) /\ \A k \in 1..Len(x) : (x \o t)[k] = x[k]
  BY <1>1, <1>2
<1>4. /\ Ahead(x \o t, Len(x)) \in Bytes
      /\ Len(Ahead(x \o t, Len(x))) = Len(x \o t) - Len(x)
      /\ \A k \in 1..(Len(x \o t) - Len(x)) :
           Ahead(x \o t, Len(x))[k] = (x \o t)[Len(x) + k]
  BY <1>1, <1>3, AheadProperties
<1>5. Len(Ahead(x \o t, Len(x))) = Len(t)
  BY <1>1, <1>2, <1>4
<1>6. ASSUME NEW k \in 1..Len(t) PROVE Ahead(x \o t, Len(x))[k] = t[k]
  <2>1. PICK z \in 1..(Len(x) + Len(t)) : z = Len(x) + k
    BY <1>2
  <2>2. ~(z <= Len(x)) /\ z - Len(x) = k
    BY <1>2, <2>1
  <2>3. (x \o t)[z] = t[k]
    BY <1>1, <2>2
  <2>4. k \in 1..(Len(x \o t) - Len(x))
    BY <1>1, <1>2
  <2> QED
    BY <1>4, <2>1, <2>3, <2>4
<1> QED
  BY <1>1, <1>3, <1>4, <1>5, <1>6, SeqEqual DEF Bytes

\* x comes next and then t.
Comes(c, idx, x, t) == Ahead(c, idx) = x \o t

\* If x comes next, its bytes do, and then what is behind it.
LEMMA AheadPart ==
  ASSUME NEW c \in Bytes, NEW idx \in 0..Len(c), NEW x \in Bytes, NEW t \in Bytes,
         Comes(c, idx, x, t)
  PROVE  /\ idx + Len(x) \in 0..Len(c)
         /\ \A k \in 1..Len(x) : c[idx + k] = x[k]
         /\ Ahead(c, idx + Len(x)) = t
<1>1. /\ Len(x \o t) = Len(x) + Len(t)
      /\ \A k \in 1..Len(x) : (x \o t)[k] = x[k]
      /\ Ahead(x \o t, Len(x)) = t
  BY AheadOfConcat
<1>2. Len(c) \in Nat /\ Len(x) \in Nat /\ Len(t) \in Nat
  BY LenProperties DEF Bytes
<1>3. /\ Len(Ahead(c, idx)) = Len(c) - idx
      /\ \A k \in 1..(Len(c) - idx) : Ahead(c, idx)[k] = c[idx + k]
  BY AheadProperties
<1>4. Len(c) - idx = Len(x) + Len(t) /\ Ahead(c, idx) = x \o t
  BY <1>1, <1>3 DEF Comes
<1>5. Len(x) \in 0..(Len(c) - idx) /\ idx + Len(x) \in 0..Len(c)
  BY <1>2, <1>4
<1>6. ASSUME NEW k \in 1..Len(x) PROVE c[idx + k] = x[k]
  <2>1. k \in 1..(Len(c) - idx)
    BY <1>2, <1>4
  <2> QED
    BY <1>1, <1>3, <1>4, <2>1
<1>7. Ahead(Ahead(c, idx), Len(x)) = Ahead(c, idx + Len(x))
  BY <1>5, AheadAhead
<1> QED
  BY <1>1, <1>4, <1>5, <1>6, <1>7

\* The payload ahead is its first run and what is behind the run.
LEMMA RunAhead ==
  ASSUME NEW p \in Bytes, NEW i \in 0..Len(p), NEW r \in Nat, i + r <= Len(p),
         NEW byte \in Byte, \A k \in 1..r : p[i + k] = byte
  PROVE  Ahead(p, i) = Copies(r, byte) \o Ahead(p, i + r)
<1>1. Len(p) \in Nat /\ i + r \in 0..Len(p)
  BY LenProperties DEF Bytes
<1>2. PICK x : x = Copies(r, byte)
  OBVIOUS
<1>3. x \in Bytes /\ Len(x) = r /\ \A k \in 1..r : x[k] = byte
  BY <1>2, CopiesProperties
<1>4. PICK t : t = Ahead(p, i + r)
  OBVIOUS
<1>5. /\ t \in Bytes /\ Len(t) = Len(p) - (i + r)
      /\ \A k \in 1..(Len(p) - (i + r)) : t[k] = p[(i + r) + k]
  BY <1>1, <1>4, AheadProperties
<1>6. /\ Ahead(p, i) \in Bytes /\ Len(Ahead(p, i)) = Len(p) - i
      /\ \A k \in 1..(Len(p) - i) : Ahead(p, i)[k] = p[i + k]
  BY AheadProperties
<1>7. /\ x \o t \in Bytes
      /\ Len(x \o t) = Len(x) + Len(t)
      /\ \A k \in 1..(Len(x) + Len(t)) :
           (x \o t)[k] = IF k <= Len(x) THEN x[k] ELSE t[k - Len(x)]
  BY <1>3, <1>5, ConcatProperties DEF Bytes
<1>8. Len(Ahead(p, i)) = Len(x \o t)
  BY <1>1, <1>3, <1>5, <1>6, <1>7
<1>9. ASSUME NEW k \in 1..Len(Ahead(p, i)) PROVE Ahead(p, i)[k] = (x \o t)[k]
  <2>1. k \in 1..(Len(p) - i) /\ k \in 1..(Len(x) + Len(t)) /\ k \in Int
    BY <1>1, <1>6, <1>7, <1>8
  <2>2. Ahead(p, i)[k] = p[i + k]
    BY <1>6, <2>1
  <2>3. CASE k <= r
    <3>1. k \in 1..r
      BY <2>1, <2>3
    <3> QED
      BY <1>3, <1>7, <2>1, <2>2, <2>3, <3>1
  <2>4. CASE ~(k <= r)
    <3>1. PICK z \in 1..(Len(p) - (i + r)) : z = k - r
      BY <1>1, <2>1, <2>4
    <3>2. (i + r) + z = i + k
      BY <1>1, <2>1, <3>1
    <3>3. t[z] = p[i + k]
      BY <1>5, <3>2
    <3>4. (x \o t)[k] = t[z]
      BY <1>3, <1>7, <2>1, <2>4, <3>1
    <3> QED
      BY <2>2, <3>3, <3>4
  <2> QED
    BY <2>3, <2>4
<1> QED
  BY <1>2, <1>4, <1>6, <1>7, <1>8, <1>9, SeqEqual DEF Bytes

-----------------------------------------------------------------------------
\* What decompression should make of the rest of the compressed payload, from
\* byte i of the payload on.
Restored(p, max, i, result) ==
  /\ Len(p) <= max => result = [ok |-> TRUE, payload |-> Ahead(p, i)]
  /\ Len(p) > max => ~result.ok

\* A run in front of what is restored.
LEMMA RestoredRun ==
  ASSUME NEW p \in Bytes, NEW max \in Nat, NEW i \in 0..Len(p), NEW r \in Nat,
         i + r <= Len(p), NEW byte \in Byte, \A k \in 1..r : p[i + k] = byte,
         NEW result, Restored(p, max, i + r, result)
  PROVE  Restored(p, max, i, Then(Copies(r, byte), result))
<1>1. Ahead(p, i) = Copies(r, byte) \o Ahead(p, i + r)
  BY RunAhead
<1>2. CASE Len(p) <= max
  <2>1. result = [ok |-> TRUE, payload |-> Ahead(p, i + r)]
    BY <1>2 DEF Restored
  <2>2. result.ok /\ result.payload = Ahead(p, i + r)
    BY <2>1
  <2>3. Then(Copies(r, byte), result) = [ok |-> TRUE, payload |-> Ahead(p, i)]
    BY <1>1, <2>2 DEF Then
  <2>4. ~(Len(p) > max)
    BY <1>2, LenProperties DEF Bytes
  <2> QED
    BY <2>3, <2>4 DEF Restored
<1>3. CASE Len(p) > max
  <2>1. ~result.ok
    BY <1>3 DEF Restored
  <2>2. ~(Len(p) <= max)
    BY <1>3, LenProperties DEF Bytes
  <2> QED
    BY <2>1, <2>2 DEF Restored, Then
<1> QED
  BY <1>2, <1>3, LenProperties DEF Bytes

\* A refusal is right where the payload does not fit.
LEMMA RestoredRefused ==
  ASSUME NEW p \in Bytes, NEW max \in Nat, NEW i, NEW err, Len(p) > max
  PROVE  Restored(p, max, i, Refused(err))
<1>1. ~(Len(p) <= max)
  BY LenProperties DEF Bytes
<1> QED
  BY <1>1 DEF Restored, Refused

\* A run that was written as an escape.
LEMMA DecompressEscape ==
  ASSUME NEW p \in Bytes, NEW c \in Bytes, NEW max \in Nat,
         NEW i \in 0..max, NEW j \in 0..Len(c), NEW t \in Bytes,
         NEW r \in 1..Escape, NEW byte \in Byte,
         i + r <= Len(p), \A k \in 1..r : p[i + k] = byte,
         Comes(c, j, <<Escape, r, byte>>, t),
         i + r <= max => Restored(p, max, i + r, DecompressFrom(c, max)[j + 3][i + r])
  PROVE  Restored(p, max, i, DecompressFrom(c, max)[j][i])
<1>1. PICK x : x = <<Escape, r, byte>>
  OBVIOUS
<1>2. x \in Bytes /\ Len(x) = 3 /\ x[1] = Escape /\ x[2] = r /\ x[3] = byte
  <2>1. Escape \in Byte /\ r \in Byte
    BY EscapeRange, FramingConstants DEF Escape, Byte
  <2> QED
    BY <1>1, <2>1 DEF Bytes
<1>3. j + 3 \in 0..Len(c) /\ c[j + 1] = Escape /\ c[j + 2] = r /\ c[j + 3] = byte
  <2>1. j + Len(x) \in 0..Len(c) /\ \A k \in 1..Len(x) : c[j + k] = x[k]
    <3>1. Comes(c, j, x, t)
      BY <1>1
    <3> QED
      BY <1>2, <3>1, AheadPart
  <2> QED
    BY <1>2, <2>1
<1>4. Len(c) \in Nat /\ Len(p) \in Nat /\ r \in Nat \ {0} /\ i \in Nat /\ j \in Nat
  BY LenProperties, EscapeRange DEF Bytes
<1>5. j # Len(c) /\ ~(j + 2 >= Len(c)) /\ c[j + 2] # 0
  BY <1>3, <1>4
<1>6. PICK g : g = DecompressFrom(c, max)
  OBVIOUS
<1>7. g[j][i] = DecompressCell(c, max, g, j, i)
  BY <1>6, DecompressAt
<1>8. CASE i + r > max
  <2>1. g[j][i] = Refused("DecompressedPayloadTooLarge")
    BY <1>3, <1>5, <1>7, <1>8 DEF DecompressCell
  <2>2. Len(p) > max
    BY <1>4, <1>8
  <2> QED
    BY <1>6, <2>1, <2>2, RestoredRefused
<1>9. CASE i + r <= max
  <2>1. ~(i + r > max)
    BY <1>4, <1>9
  <2>2. g[j][i] = Then(Copies(r, byte), g[j + 3][i + r])
    BY <1>3, <1>5, <1>7, <2>1 DEF DecompressCell
  <2>3. i \in 0..Len(p)
    BY <1>4
  <2>4. Restored(p, max, i, Then(Copies(r, byte), g[j + 3][i + r]))
    BY <1>4, <1>6, <1>9, <2>3, RestoredRun
  <2> QED
    BY <1>6, <2>2, <2>4
<1> QED
  BY <1>4, <1>8, <1>9

\* Where the last n + 1 bytes of a run of r begin, in the payload and in the stream,
\* and what follows if the first of them exceeds the limit.
LEMMA CopyPlaces ==
  ASSUME NEW lp \in Nat, NEW lc \in Nat, NEW max \in Nat, NEW i \in 0..max,
         NEW j \in 0..lc, NEW r \in Nat, NEW n \in Nat,
         i + r <= lp, j + r <= lc, n + 1 <= r, i + (r - (n + 1)) <= max
  PROVE  \E k \in 0..(r - 1) :
           /\ k = r - (n + 1) /\ k + 1 \in 1..r
           /\ n <= r /\ r - n = k + 1
           /\ i + (k + 1) = (i + k) + 1 /\ j + (k + 1) = (j + k) + 1
           /\ i + k \in 0..max /\ i + k \in 0..lp /\ (i + k) + 1 <= lp
           /\ j + k \in 0..lc /\ j + k # lc
           /\ \/ (i + k) + 1 <= max /\ ~((i + k) + 1 > max)
              \/ (i + k) + 1 > max /\ ~((i + k) + 1 <= max) /\ lp > max
<1>1. PICK k \in 0..(r - 1) : k = r - (n + 1)
  OBVIOUS
<1>2. i \in Nat /\ j \in Nat /\ k \in Nat
  BY <1>1
<1>3. /\ k + 1 \in 1..r /\ n <= r /\ r - n = k + 1
      /\ i + (k + 1) = (i + k) + 1 /\ j + (k + 1) = (j + k) + 1
  BY <1>1, <1>2
<1>4. /\ i + k \in 0..max /\ i + k \in 0..lp /\ (i + k) + 1 <= lp
      /\ j + k \in 0..lc /\ j + k # lc
  BY <1>1, <1>2
<1>5. PICK z \in Nat : z = (i + k) + 1
  BY <1>2
<1>6. \/ z <= max /\ ~(z > max)
      \/ z > max /\ ~(z <= max) /\ lp > max
  BY <1>4, <1>5
<1> QED
  BY <1>1, <1>3, <1>4, <1>5, <1>6

\* A run that was copied, byte by byte.
LEMMA DecompressCopies ==
  ASSUME NEW p \in Bytes, NEW c \in Bytes, NEW max \in Nat,
         NEW i \in 0..max, NEW j \in 0..Len(c), NEW t \in Bytes,
         NEW r \in Nat, NEW byte \in Byte, byte # Escape,
         i + r <= Len(p), \A k \in 1..r : p[i + k] = byte,
         Comes(c, j, Copies(r, byte), t),
         i + r <= max => Restored(p, max, i + r, DecompressFrom(c, max)[j + r][i + r])
  PROVE  Restored(p, max, i, DecompressFrom(c, max)[j][i])
<1>1. Len(c) \in Nat /\ Len(p) \in Nat /\ i \in Nat /\ j \in Nat
  BY LenProperties DEF Bytes
<1>2. j + r \in 0..Len(c) /\ \A k \in 1..r : c[j + k] = byte
  <2>1. PICK x : x = Copies(r, byte)
    OBVIOUS
  <2>2. x \in Bytes /\ Len(x) = r /\ \A k \in 1..r : x[k] = byte
    BY <2>1, CopiesProperties
  <2>3. j + Len(x) \in 0..Len(c) /\ \A k \in 1..Len(x) : c[j + k] = x[k]
    BY <2>1, <2>2, AheadPart
  <2> QED
    BY <2>2, <2>3
<1>3. PICK g : g = DecompressFrom(c, max)
  OBVIOUS
<1> DEFINE S == {n \in Nat : n <= r =>
                   (i + (r - n) <= max =>
                      Restored(p, max, i + (r - n), g[j + (r - n)][i + (r - n)]))}
<1>4. 0 \in S
  BY <1>3
<1>5. ASSUME NEW n \in Nat, n \in S PROVE n + 1 \in S
  <2> SUFFICES ASSUME n + 1 <= r, i + (r - (n + 1)) <= max
               PROVE  Restored(p, max, i + (r - (n + 1)),
                               g[j + (r - (n + 1))][i + (r - (n + 1))])
    OBVIOUS
  <2>1. PICK k \in 0..(r - 1) :
          /\ k = r - (n + 1) /\ k + 1 \in 1..r
          /\ n <= r /\ r - n = k + 1
          /\ i + (k + 1) = (i + k) + 1 /\ j + (k + 1) = (j + k) + 1
          /\ i + k \in 0..max /\ i + k \in 0..Len(p) /\ (i + k) + 1 <= Len(p)
          /\ j + k \in 0..Len(c) /\ j + k # Len(c)
          /\ \/ (i + k) + 1 <= max /\ ~((i + k) + 1 > max)
             \/ (i + k) + 1 > max /\ ~((i + k) + 1 <= max) /\ Len(p) > max
    <3>1. j + r <= Len(c)
      BY <1>1, <1>2
    <3> QED
      BY <1>1, <3>1, CopyPlaces
  <2>3. (i + k) + 1 <= max => Restored(p, max, (i + k) + 1, g[(j + k) + 1][(i + k) + 1])
    BY <1>5, <2>1
  <2>4. c[(j + k) + 1] = byte /\ p[(i + k) + 1] = byte
    BY <1>2, <2>1
  <2>5. g[j + k][i + k] = DecompressCell(c, max, g, j + k, i + k)
    BY <1>3, <2>1, DecompressAt
  <2>6. CASE (i + k) + 1 > max /\ Len(p) > max
    <3>1. g[j + k][i + k] = Refused("DecompressedPayloadTooLarge")
      BY <2>1, <2>4, <2>5, <2>6 DEF DecompressCell
    <3>2. Restored(p, max, i + k, g[j + k][i + k])
      BY <2>6, <3>1, RestoredRefused
    <3> QED
      BY <2>1, <3>2
  <2>7. CASE (i + k) + 1 <= max /\ ~((i + k) + 1 > max)
    <3>2. g[j + k][i + k] = Then(Copies(1, byte), g[(j + k) + 1][(i + k) + 1])
      BY <2>1, <2>4, <2>5, <2>7 DEF DecompressCell
    <3>3. \A z \in 1..1 : p[(i + k) + z] = byte
      <4>1. \A z \in 1..1 : z = 1
        OBVIOUS
      <4> QED
        BY <2>4, <4>1
    <3>4. Restored(p, max, i + k, Then(Copies(1, byte), g[(j + k) + 1][(i + k) + 1]))
      BY <2>1, <2>3, <2>7, <3>3, RestoredRun
    <3> QED
      BY <2>1, <3>2, <3>4
  <2> QED
    BY <2>1, <2>6, <2>7, Zenon
<1>6. r \in S
  <2> HIDE DEF S
  <2> QED
    BY <1>4, <1>5, NatInduct
<1>7. r - r = 0 /\ i + 0 = i /\ j + 0 = j /\ i <= max
  BY <1>1
<1> QED
  BY <1>3, <1>6, <1>7

\* Decompression restores every payload that fits, and refuses every other.
THEOREM CompressionRestores ==
  ASSUME NEW p \in Seq(Byte), NEW max \in Nat
  PROVE  LET result == decompress_wire_payload(compress_wire_payload(p), max)
         IN  /\ Len(p) <= max => result = [ok |-> TRUE, payload |-> p]
             /\ Len(p) > max => ~result.ok
<1>1. p \in Bytes /\ Len(p) \in Nat
  BY LenProperties DEF Bytes
<1>2. PICK f : f = CompressFrom(p)
  OBVIOUS
<1>3. \A i \in 0..Len(p) : f[i] \in Bytes
  BY <1>1, <1>2, CompressType
<1>4. PICK c : c = f[0]
  OBVIOUS
<1>5. c \in Bytes /\ Len(c) \in Nat
  BY <1>1, <1>3, <1>4, LenProperties DEF Bytes
<1>6. PICK g : g = DecompressFrom(c, max)
  OBVIOUS
<1> DEFINE S == {n \in Nat : \A i \in 0..Len(p) : \A j \in 0..Len(c) :
                   (Len(p) - i = n /\ i <= max /\ Ahead(c, j) = f[i]) =>
                     Restored(p, max, i, g[j][i])}
<1>7. ASSUME NEW n \in Nat, \A k \in 0..(n - 1) : k \in S
      PROVE  n \in S
  <2> SUFFICES ASSUME NEW i \in 0..Len(p), NEW j \in 0..Len(c),
                      Len(p) - i = n, i <= max, Ahead(c, j) = f[i]
               PROVE  Restored(p, max, i, g[j][i])
    OBVIOUS
  <2> HIDE DEF S
  <2>1. i \in 0..max
    BY <1>1
  <2>2. f[i] = CompressStep(p, f, i)
    BY <1>1, <1>2, CompressAt
  <2>3. CASE i = Len(p)
    <3>1. Ahead(c, j) = <<>>
      BY <2>2, <2>3 DEF CompressStep
    <3>2. Len(Ahead(c, j)) = Len(c) - j /\ Len(<<>>) = 0
      BY <1>5, AheadProperties
    <3>3. j = Len(c)
      BY <1>5, <3>1, <3>2
    <3>4. g[j][i] = [ok |-> TRUE, payload |-> <<>>]
      BY <1>5, <1>6, <2>1, <3>3, DecompressAt DEF DecompressCell
    <3>5. Ahead(p, i) = <<>>
      BY <1>1, <2>3, SubSeqEmpty DEF Ahead
    <3>6. ~(Len(p) > max)
      BY <1>1, <2>1, <2>3
    <3> QED
      BY <3>4, <3>5, <3>6 DEF Restored
  <2>4. CASE i # Len(p)
    <3>1. i \in 0..(Len(p) - 1)
      BY <1>1, <2>4
    <3>2. PICK r : r = Run(p, i)
      OBVIOUS
    <3>3. PICK byte : byte = p[i + 1]
      OBVIOUS
    <3>4. r \in 1..Escape /\ i + r <= Len(p) /\ \A k \in 1..r : p[i + k] = byte
      BY <1>1, <3>1, <3>2, <3>3, RunProperties
    <3>5. r \in Nat /\ r >= 1
      BY <3>4, EscapeRange
    <3>6. byte \in Byte
      <4>1. i + 1 \in 1..Len(p)
        BY <1>1, <3>1
      <4> QED
        BY <1>1, <3>3, <4>1, ElementOfSeq DEF Bytes
    <3>7. i + r \in 0..Len(p) /\ Len(p) - (i + r) \in 0..(n - 1)
      BY <1>1, <3>1, <3>4, <3>5
    <3>8. PICK t : t = f[i + r]
      OBVIOUS
    <3>9. t \in Bytes
      BY <1>3, <3>7, <3>8
    <3>10. Comes(c, j, Packed(r, byte), t)
      BY <2>2, <2>4, <3>2, <3>3, <3>8 DEF CompressStep, Comes
    <3>11. ASSUME NEW k \in 0..Len(c), Ahead(c, k) = t, i + r <= max
           PROVE  Restored(p, max, i + r, g[k][i + r])
      BY <1>7, <3>7, <3>8, <3>11 DEF S
    <3>12. Packed(r, byte) \in Bytes
      BY <3>4, <3>6, PackedType
    <3>13. /\ j + Len(Packed(r, byte)) \in 0..Len(c)
           /\ Ahead(c, j + Len(Packed(r, byte))) = t
      <4>1. c \in Bytes
        BY <1>5
      <4>2. t \in Bytes
        BY <3>9
      <4> QED
        BY <3>10, <3>12, <4>1, <4>2, AheadPart
    <3>14. CASE r >= MinRun \/ byte = Escape
      <4>1. Packed(r, byte) = <<Escape, r, byte>> /\ Len(Packed(r, byte)) = 3
        BY <3>14 DEF Packed
      <4>2. i + r <= max => Restored(p, max, i + r, g[j + 3][i + r])
        BY <3>11, <3>13, <4>1
      <4> QED
        BY <1>1, <1>5, <1>6, <2>1, <3>4, <3>6, <3>9, <3>10, <4>1, <4>2, DecompressEscape
    <3>15. CASE ~(r >= MinRun \/ byte = Escape)
      <4>1. Packed(r, byte) = Copies(r, byte) /\ byte # Escape
        BY <3>15 DEF Packed
      <4>2. Len(Packed(r, byte)) = r
        BY <3>5, <3>6, <4>1, CopiesProperties
      <4>3. i + r <= max => Restored(p, max, i + r, g[j + r][i + r])
        BY <3>11, <3>13, <4>2
      <4> QED
        BY <1>1, <1>5, <1>6, <2>1, <3>4, <3>5, <3>6, <3>9, <3>10, <4>1, <4>3,
           DecompressCopies
    <3> QED
      BY <3>14, <3>15
  <2> QED
    BY <2>3, <2>4
<1>8. Len(p) \in S
  <2> HIDE DEF S
  <2> QED
    BY <1>1, <1>7, StrongInduct
<1>9. 0 \in 0..Len(p) /\ 0 \in 0..Len(c) /\ Len(p) - 0 = Len(p) /\ 0 <= max
  BY <1>1, <1>5
<1>10. Ahead(c, 0) = f[0] /\ Ahead(p, 0) = p
  BY <1>1, <1>4, <1>5, AheadZero
<1>11. Restored(p, max, 0, g[0][0])
  BY <1>8, <1>9, <1>10
<1>12. decompress_wire_payload(compress_wire_payload(p), max) = g[0][0]
  BY <1>2, <1>4, <1>6 DEF decompress_wire_payload, compress_wire_payload
<1> QED
  BY <1>10, <1>11, <1>12 DEF Restored

-----------------------------------------------------------------------------
\* Obfuscation is its own inverse.
Key(seed, i) == (seed + (i - 1) * KeyStep) % Base

\* The key of a position is a byte.
LEMMA KeyIsByte ==
  ASSUME NEW seed \in Byte, NEW i \in Nat \ {0}
  PROVE  Key(seed, i) \in Byte
<1>1. Base \in Nat \ {0} /\ seed \in Nat /\ KeyStep \in Nat
  BY FramingConstants, CodecConstants DEF Byte
<1>2. (i - 1) * KeyStep \in Nat
  BY <1>1
<1>3. seed + (i - 1) * KeyStep \in Nat
  BY <1>1, <1>2
<1> QED
  BY <1>1, <1>3 DEF Key, Byte

\* Obfuscation keeps the length and yields bytes.
LEMMA ObfuscateProperties ==
  ASSUME NEW x \in Bytes, NEW seed \in Byte
  PROVE  /\ obfuscate_wire_payload(x, seed) \in Bytes
         /\ Len(obfuscate_wire_payload(x, seed)) = Len(x)
         /\ \A i \in 1..Len(x) :
              obfuscate_wire_payload(x, seed)[i] = XorByte(x[i], Key(seed, i))
<1>1. Len(x) \in Nat
  BY LenProperties DEF Bytes
<1>2. ASSUME NEW i \in 1..Len(x)
      PROVE  XorByte(x[i], Key(seed, i)) \in Byte
  <2>1. x[i] \in Byte
    BY ElementOfSeq DEF Bytes
  <2>2. Key(seed, i) \in Byte
    BY <1>1, KeyIsByte
  <2> QED
    BY <2>1, <2>2, CodecConstants
<1>3. obfuscate_wire_payload(x, seed) = [i \in 1..Len(x) |-> XorByte(x[i], Key(seed, i))]
  BY DEF obfuscate_wire_payload, Key
<1>4. obfuscate_wire_payload(x, seed) \in [1..Len(x) -> Byte]
  BY <1>2, <1>3
<1> QED
  BY <1>1, <1>3, <1>4 DEF Bytes

\* Obfuscation with the same seed restores the payload.
LEMMA ObfuscateTwice ==
  ASSUME NEW x \in Bytes, NEW seed \in Byte
  PROVE  deobfuscate_wire_payload(obfuscate_wire_payload(x, seed), seed) = x
<1>1. PICK y : y = obfuscate_wire_payload(x, seed)
  OBVIOUS
<1>2. /\ y \in Bytes /\ Len(y) = Len(x)
      /\ \A i \in 1..Len(x) : y[i] = XorByte(x[i], Key(seed, i))
  BY <1>1, ObfuscateProperties
<1>3. PICK z : z = obfuscate_wire_payload(y, seed)
  OBVIOUS
<1>4. /\ z \in Bytes /\ Len(z) = Len(x)
      /\ \A i \in 1..Len(x) : z[i] = XorByte(y[i], Key(seed, i))
  BY <1>2, <1>3, ObfuscateProperties
<1>5. ASSUME NEW i \in 1..Len(x) PROVE z[i] = x[i]
  <2>1. x[i] \in Byte
    BY ElementOfSeq DEF Bytes
  <2>2. Key(seed, i) \in Byte
    BY LenProperties, KeyIsByte DEF Bytes
  <2> QED
    BY <1>2, <1>4, <2>1, <2>2, CodecConstants
<1>6. z = x
  BY <1>2, <1>4, <1>5, SeqEqual DEF Bytes
<1> QED
  BY <1>1, <1>3, <1>6 DEF deobfuscate_wire_payload

-----------------------------------------------------------------------------
\* The length field says the length as long as it fits, and otherwise a wrong one.
LEMMA LengthField ==
  ASSUME NEW n \in Nat
  PROVE  /\ ToLe(n)[1] \in Byte /\ ToLe(n)[2] \in Byte
         /\ FromLe(ToLe(n)[1], ToLe(n)[2]) \in Nat
         /\ FromLe(ToLe(n)[1], ToLe(n)[2]) = n <=> n < Base * Base
<1>1. Base \in Nat \ {0}
  BY FramingConstants
<1>2. PICK q \in Nat, r \in Nat : q = n \div Base /\ r = n % Base
  BY <1>1
<1>3. n = Base * q + r
  BY <1>1, <1>2
<1>4. r < Base
  BY <1>1, <1>2
<1>5. PICK s \in Nat : s = q % Base
  BY <1>1
<1>6. s < Base
  BY <1>1, <1>5
<1>7. ToLe(n) = <<r, s>>
  BY <1>2, <1>5 DEF ToLe
<1>8. r + Base * s < Base * Base /\ r + Base * s \in Nat
  BY <1>1, <1>4, <1>6
<1>9. ASSUME n < Base * Base PROVE r + Base * s = n
  <2>1. q < Base
    BY <1>1, <1>3, <1>4, <1>9
  <2>2. s = q
    BY <1>1, <1>5, <2>1
  <2> QED
    BY <1>1, <1>3, <2>2
<1>10. r \in Byte /\ s \in Byte
  BY <1>1, <1>4, <1>6 DEF Byte
<1> QED
  BY <1>7, <1>8, <1>9, <1>10 DEF FromLe

\* Two bytes.
Opcode(opcode) == opcode \in Seq(Byte) /\ Len(opcode) = 2

\* Two sequences of bytes in a row.
LEMMA ConcatBytes ==
  ASSUME NEW x \in Bytes, NEW y \in Bytes
  PROVE  /\ x \o y \in Bytes /\ Len(x \o y) = Len(x) + Len(y)
         /\ \A k \in 1..Len(x) : (x \o y)[k] = x[k]
         /\ \A k \in 1..Len(y) : (x \o y)[Len(x) + k] = y[k]
<1>1. /\ x \o y \in Bytes /\ Len(x \o y) = Len(x) + Len(y)
      /\ \A k \in 1..Len(x) : (x \o y)[k] = x[k]
      /\ Ahead(x \o y, Len(x)) = y
      /\ Len(x) \in 0..Len(x \o y)
  BY AheadOfConcat
<1>2. \A k \in 1..(Len(x \o y) - Len(x)) : Ahead(x \o y, Len(x))[k] = (x \o y)[Len(x) + k]
  BY <1>1, AheadProperties
<1>3. Len(x \o y) - Len(x) = Len(y)
  BY <1>1, LenProperties DEF Bytes
<1> QED
  BY <1>1, <1>2, <1>3

\* The parts of an encoded frame.
LEMMA FrameParts ==
  ASSUME NEW opcode, Opcode(opcode), NEW x \in Bytes
  PROVE  LET f == encode_frame(opcode, x)
         IN  /\ f \in Bytes /\ Len(f) = Len(x) + 4
             /\ f[1] = ToLe(2 + Len(x))[1] /\ f[2] = ToLe(2 + Len(x))[2]
             /\ SubSeq(f, 3, 4) = opcode
             /\ SubSeq(f, 5, Len(f)) = x
<1>1. Len(x) \in Nat /\ 2 + Len(x) \in Nat
  BY LenProperties DEF Bytes
<1>2. PICK h : h = ToLe(2 + Len(x))
  OBVIOUS
<1>3. h \in Seq(Byte) /\ Len(h) = 2
  <2>1. h = <<h[1], h[2]>> /\ h[1] \in Byte /\ h[2] \in Byte
    <3>1. h[1] \in Byte /\ h[2] \in Byte
      BY <1>1, <1>2, LengthField
    <3>2. h = <<h[1], h[2]>>
      BY <1>2 DEF ToLe
    <3> QED
      BY <3>1, <3>2
  <2>2. PICK u \in Byte, v \in Byte : h = <<u, v>>
    BY <2>1
  <2> QED
    BY <2>2
<1>4. PICK f : f = encode_frame(opcode, x)
  OBVIOUS
<1>5. opcode \in Bytes /\ Len(opcode) = 2 /\ h \in Bytes /\ Len(h) = 2
  BY <1>3 DEF Opcode, Bytes
<1>51. opcode \in Bytes
  BY <1>5
<1>52. h \in Bytes
  BY <1>5
<1>53. /\ h \o opcode \in Bytes /\ Len(h \o opcode) = Len(h) + Len(opcode)
       /\ \A k \in 1..Len(h) : (h \o opcode)[k] = h[k]
       /\ \A k \in 1..Len(opcode) : (h \o opcode)[Len(h) + k] = opcode[k]
  BY <1>51, <1>52, ConcatBytes
<1>6. f = h \o (opcode \o x) /\ f = (h \o opcode) \o x
  <2>1. (h \o opcode) \o x = h \o (opcode \o x)
    BY <1>5, ConcatAssociative DEF Bytes
  <2> QED
    BY <1>2, <1>4, <2>1 DEF encode_frame
<1>7. opcode \o x \in Bytes /\ h \o opcode \in Bytes /\ Len(h \o opcode) = 4
  <2>1. opcode \o x \in Bytes
    BY <1>51, ConcatBytes
  <2> QED
    BY <1>5, <1>53, <2>1
<1>8. /\ f \in Bytes /\ Len(f) = Len(x) + 4
      /\ \A k \in 1..4 : f[k] = (h \o opcode)[k]
      /\ Ahead(f, 4) = x
  <2>1. PICK y \in Bytes : y = h \o opcode
    BY <1>7
  <2>2. /\ y \o x \in Bytes /\ Len(y \o x) = Len(y) + Len(x)
        /\ \A k \in 1..Len(y) : (y \o x)[k] = y[k]
        /\ Ahead(y \o x, Len(y)) = x
    BY AheadOfConcat
  <2> QED
    BY <1>1, <1>6, <1>7, <2>1, <2>2
<1>9. /\ (h \o opcode)[1] = h[1] /\ (h \o opcode)[2] = h[2]
      /\ (h \o opcode)[3] = opcode[1] /\ (h \o opcode)[4] = opcode[2]
  <2>1. /\ \A k \in 1..2 : (h \o opcode)[k] = h[k]
        /\ \A k \in 1..2 : (h \o opcode)[2 + k] = opcode[k]
    BY <1>5, <1>53
  <2>2. 1 \in 1..2 /\ 2 \in 1..2 /\ 2 + 1 = 3 /\ 2 + 2 = 4
    OBVIOUS
  <2>3. (h \o opcode)[1] = h[1] /\ (h \o opcode)[2] = h[2]
    BY <2>1, <2>2
  <2>4. (h \o opcode)[2 + 1] = opcode[1] /\ (h \o opcode)[2 + 2] = opcode[2]
    BY <2>1, <2>2
  <2> QED
    BY <2>2, <2>3, <2>4
<1>10. f[1] = h[1] /\ f[2] = h[2]
  <2>1. 1 \in 1..4 /\ 2 \in 1..4
    OBVIOUS
  <2> QED
    BY <1>8, <1>9, <2>1
<1>11. SubSeq(f, 3, 4) = opcode
  <2>1. f[3] = opcode[1] /\ f[4] = opcode[2]
    <3>1. 3 \in 1..4 /\ 4 \in 1..4
      OBVIOUS
    <3> QED
      BY <1>8, <1>9, <3>1
  <2>2. opcode[1] \in Byte /\ opcode[2] \in Byte
    <3>1. 1 \in 1..Len(opcode) /\ 2 \in 1..Len(opcode)
      BY <1>5
    <3> QED
      BY <1>5, <3>1, ElementOfSeq DEF Bytes
  <2>3. \A k \in 3..4 : f[k] \in Byte
    BY <2>1, <2>2
  <2>4. /\ SubSeq(f, 3, 4) \in Seq(Byte) /\ Len(SubSeq(f, 3, 4)) = 2
        /\ \A k \in 1..2 : SubSeq(f, 3, 4)[k] = f[(3 + k) - 1]
    BY <2>3, SubSeqProperties
  <2>5. \A k \in 1..2 : SubSeq(f, 3, 4)[k] = opcode[k]
    <3>1. SubSeq(f, 3, 4)[1] = f[3] /\ SubSeq(f, 3, 4)[2] = f[4]
      BY <2>4
    <3> QED
      BY <2>1, <3>1
  <2> QED
    BY <1>5, <2>4, <2>5, SeqEqual DEF Bytes
<1>12. SubSeq(f, 5, Len(f)) = x
  BY <1>8 DEF Ahead
<1> QED
  BY <1>2, <1>4, <1>8, <1>10, <1>11, <1>12

Decoded(opcode, x, max, result) ==
  /\ (2 + Len(x) < Base * Base /\ Len(x) <= max) =>
       result = [ok |-> TRUE, opcode |-> opcode, payload |-> x]
  /\ ~(2 + Len(x) < Base * Base /\ Len(x) <= max) => ~result.ok

\* An encoded frame decodes to what was encoded, if its length fits in the field
\* and the limit admits it; otherwise it is refused.
THEOREM FrameDecodes ==
  ASSUME NEW opcode, Opcode(opcode), NEW x \in Bytes, NEW max \in Nat
  PROVE  Decoded(opcode, x, max, decode_frame(encode_frame(opcode, x), max))
<1>1. PICK n \in Nat : n = 2 + Len(x)
  BY LenProperties DEF Bytes
<1>2. Len(x) \in Nat
  BY LenProperties DEF Bytes
<1>3. PICK f : f = encode_frame(opcode, x)
  OBVIOUS
<1>4. /\ Len(f) = Len(x) + 4
      /\ f[1] = ToLe(n)[1] /\ f[2] = ToLe(n)[2]
      /\ SubSeq(f, 3, 4) = opcode
      /\ SubSeq(f, 5, Len(f)) = x
  BY <1>1, <1>3, FrameParts
<1>5. PICK length \in Nat : length = FromLe(f[1], f[2])
  BY <1>4, LengthField
<1>6. length = n <=> n < Base * Base
  BY <1>4, <1>5, LengthField
<1>7. Len(f) >= 4 /\ ~(Len(f) < 4) /\ Len(f) - 4 = Len(x) /\ Len(f) = n + 2
  BY <1>1, <1>2, <1>4
<1>8. CASE ~(n < Base * Base)
  <2>1. FromLe(f[1], f[2]) + 2 # Len(f)
    BY <1>5, <1>6, <1>7, <1>8
  <2>2. decode_frame(f, max) = Refused("InvalidLength")
    BY <1>7, <2>1 DEF decode_frame
  <2> QED
    BY <1>1, <1>3, <1>8, <2>2 DEF Decoded, Refused
<1>9. CASE n < Base * Base /\ ~(Len(x) <= max)
  <2>1. FromLe(f[1], f[2]) + 2 = Len(f) /\ Len(f) - 4 > max
    BY <1>2, <1>5, <1>6, <1>7, <1>9
  <2>2. decode_frame(f, max) = Refused("PayloadTooLarge")
    BY <1>7, <2>1 DEF decode_frame
  <2> QED
    BY <1>1, <1>3, <1>9, <2>2 DEF Decoded, Refused
<1>10. CASE n < Base * Base /\ Len(x) <= max
  <2>1. FromLe(f[1], f[2]) + 2 = Len(f) /\ ~(Len(f) - 4 > max)
    BY <1>2, <1>5, <1>6, <1>7, <1>10
  <2>2. decode_frame(f, max) = [ok |-> TRUE, opcode |-> opcode, payload |-> x]
    BY <1>4, <1>7, <2>1 DEF decode_frame
  <2> QED
    BY <1>1, <1>3, <1>10, <2>2 DEF Decoded
<1> QED
  BY <1>8, <1>9, <1>10

-----------------------------------------------------------------------------
\* The steps of a payload on its way, and back.
Packing(p, compression) == IF compression THEN compress_wire_payload(p) ELSE p

Sent(x, seed) == IF seed = NoSeed THEN x ELSE obfuscate_wire_payload(x, seed)

Received(y, seed) == IF seed = NoSeed THEN y ELSE deobfuscate_wire_payload(y, seed)

\* What is sent, compressed or not, are bytes.
LEMMA PackingType ==
  ASSUME NEW p \in Bytes, NEW compression \in BOOLEAN
  PROVE  Packing(p, compression) \in Bytes
<1>1. 0 \in 0..Len(p)
  BY LenProperties DEF Bytes
<1> QED
  BY <1>1, CompressType DEF Packing, compress_wire_payload

\* What is received is what was sent.
LEMMA SentReceived ==
  ASSUME NEW x \in Bytes, NEW seed \in Byte \cup {NoSeed}
  PROVE  /\ Sent(x, seed) \in Bytes
         /\ Len(Sent(x, seed)) = Len(x)
         /\ Received(Sent(x, seed), seed) = x
<1>1. CASE seed = NoSeed
  BY <1>1 DEF Sent, Received
<1>2. CASE seed # NoSeed
  <2>1. seed \in Byte
    BY <1>2
  <2> QED
    BY <1>2, <2>1, ObfuscateProperties, ObfuscateTwice DEF Sent, Received
<1> QED
  BY <1>1, <1>2

\* For every payload, limit and seed: what is encoded decodes to itself or is
\* refused, and it is refused exactly when it is longer than the limit before or
\* after compression or too long for the length field.
THEOREM WireRoundTrip ==
  ASSUME NEW opcode \in Byte \X Byte, NEW p \in Seq(Byte), NEW max \in Nat,
         NEW compression \in BOOLEAN, NEW seed \in Byte \cup {NoSeed}
  PROVE  RoundTrip(opcode, p, max, compression, seed)
<1>1. Opcode(opcode)
  <2>1. PICK u \in Byte, v \in Byte : opcode = <<u, v>>
    OBVIOUS
  <2> QED
    BY <2>1 DEF Opcode
<1>2. p \in Bytes
  BY DEF Bytes
<1>3. PICK packed : packed = Packing(p, compression)
  OBVIOUS
<1>4. packed \in Bytes
  BY <1>2, <1>3, PackingType
<1>5. PICK sent : sent = Sent(packed, seed)
  OBVIOUS
<1>6. sent \in Bytes /\ Len(sent) = Len(packed) /\ Received(sent, seed) = packed
  BY <1>4, <1>5, SentReceived
<1>7. PICK frame : frame = encode_frame(opcode, sent)
  OBVIOUS
<1>8. encode_wire_frame(opcode, p, compression, seed) = frame
  BY <1>3, <1>5, <1>7 DEF encode_wire_frame, Packing, Sent
<1>9. PICK decoded : decoded = decode_frame(frame, max)
  OBVIOUS
<1>10. PICK plain : plain = Received(decoded.payload, seed)
  OBVIOUS
<1>11. PICK result : result = IF compression THEN decompress_wire_payload(plain, max)
                              ELSE [ok |-> TRUE, payload |-> plain]
  OBVIOUS
<1>12. decode_wire_frame(frame, max, compression, seed) =
         IF ~decoded.ok THEN decoded
         ELSE IF ~result.ok THEN result
         ELSE [ok |-> TRUE, opcode |-> decoded.opcode, payload |-> result.payload]
  BY <1>9, <1>10, <1>11 DEF decode_wire_frame, Received
<1>13. Decoded(opcode, sent, max, decoded)
  <2>1. sent \in Bytes
    BY <1>6
  <2> QED
    BY <1>1, <1>7, <1>9, <2>1, FrameDecodes
<1>14. PICK final : final = decode_wire_frame(frame, max, compression, seed)
  OBVIOUS
<1> DEFINE fits == 2 + Len(packed) < Base * Base /\ Len(packed) <= max
<1>15. ASSUME ~fits PROVE ~final.ok
  <2>1. ~decoded.ok
    BY <1>6, <1>13, <1>15 DEF Decoded
  <2> QED
    BY <1>12, <1>14, <2>1
<1>16. ASSUME fits
       PROVE  /\ Len(p) <= max => final = [ok |-> TRUE, opcode |-> opcode, payload |-> p]
              /\ ~(Len(p) <= max) => ~final.ok
  <2>1. decoded = [ok |-> TRUE, opcode |-> opcode, payload |-> sent]
    BY <1>6, <1>13, <1>16 DEF Decoded
  <2>2. plain = packed /\ decoded.ok /\ decoded.opcode = opcode
    BY <1>6, <1>10, <2>1
  <2>3. CASE compression
    <3>1. result = decompress_wire_payload(compress_wire_payload(p), max)
      BY <1>3, <1>11, <2>2, <2>3 DEF Packing
    <3>2. /\ Len(p) <= max => result = [ok |-> TRUE, payload |-> p]
          /\ Len(p) > max => ~result.ok
      BY <3>1, CompressionRestores
    <3>3. ~(Len(p) <= max) => Len(p) > max
      BY LenProperties
    <3>4. ASSUME Len(p) <= max
          PROVE  final = [ok |-> TRUE, opcode |-> opcode, payload |-> p]
      <4>1. result.ok /\ result.payload = p
        BY <3>2, <3>4
      <4> QED
        BY <1>12, <1>14, <2>2, <4>1
    <3>5. ASSUME ~(Len(p) <= max) PROVE ~final.ok
      <4>1. ~result.ok
        BY <3>2, <3>3, <3>5
      <4> QED
        BY <1>12, <1>14, <2>2, <4>1
    <3> QED
      BY <3>4, <3>5
  <2>4. CASE ~compression
    <3>1. packed = p /\ result.ok /\ result.payload = p
      BY <1>3, <1>11, <2>2, <2>4 DEF Packing
    <3>2. final = [ok |-> TRUE, opcode |-> opcode, payload |-> p]
      BY <1>12, <1>14, <2>2, <3>1
    <3> QED
      BY <1>16, <3>1, <3>2
  <2> QED
    BY <2>3, <2>4
<1>17. RoundTrip(opcode, p, max, compression, seed) <=>
         IF Len(p) <= max /\ Len(packed) <= max /\ 2 + Len(packed) < Base * Base
         THEN final = [ok |-> TRUE, opcode |-> opcode, payload |-> p]
         ELSE ~final.ok
  BY <1>3, <1>8, <1>14 DEF RoundTrip, Packing
<1> QED
  BY <1>15, <1>16, <1>17

\* No opcode and payload (encode_wire_frame) ever arrive as another one
\* (decode_wire_frame), compressed, obfuscated or plain.
THEOREM CodecIsFaithful == CodecFaithful
BY WireRoundTrip, CodecConstants DEF CodecFaithful

=============================================================================
