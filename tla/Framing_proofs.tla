---------------------------- MODULE Framing_proofs ----------------------------
(***************************************************************************)
(* Proofs about Framing, for every length of the tag, all payloads, limits *)
(* and versions that FramingAssumption allows.  What a frame is follows    *)
(* field by field; what many frames in a row are needs an induction over   *)
(* the packets, which Induction gives for sets of numbers.                 *)
(***************************************************************************)
EXTENDS Framing, FiniteSetTheorems, SequenceTheorems, TLAPS

(* Induction over the naturals, as a fact about sets. *)
LEMMA Induction ==
  ASSUME NEW S, 0 \in S, \A n \in Nat : n \in S => n + 1 \in S
  PROVE  \A n \in Nat : n \in S
<1> SUFFICES ASSUME NEW m \in Nat, m \notin S PROVE FALSE
  OBVIOUS
<1> DEFINE Bad == {0 .. n : n \in Nat \ S}
<1>1. IsWellFoundedOn(StrictSubsetOrdering(Nat), FiniteSubsetsOf(Nat))
  BY FS_StrictSubsetOrderingWellFounded
<1>2. Bad \subseteq FiniteSubsetsOf(Nat) /\ Bad # {}
  <2>1. \A n \in Nat : IsFiniteSet(0 .. n)
    BY FS_Interval
  <2> QED BY <2>1 DEF FiniteSubsetsOf
<1>3. PICK X \in Bad : \A Y \in Bad : <<Y, X>> \notin StrictSubsetOrdering(Nat)
  <2> HIDE DEF Bad
  <2> QED BY <1>1, <1>2, WFMin
<1>4. PICK n \in Nat \ S : X = 0 .. n
  OBVIOUS
<1>5. n - 1 \in Nat /\ n - 1 \notin S
  BY <1>4
<1>6. 0 .. (n - 1) \in Bad
  BY <1>5
<1>7. <<0 .. (n - 1), X>> \in StrictSubsetOrdering(Nat)
  <2>1. 0 .. (n - 1) \subseteq X /\ X \subseteq Nat /\ n \in X /\ n \notin 0 .. (n - 1)
    BY <1>4, <1>5
  <2> QED BY <2>1 DEF StrictSubsetOrdering
<1> QED BY <1>3, <1>6, <1>7
-----------------------------------------------------------------------------
(* A name for what is associated, so that a proof says which sequences.    *)
Associates(a, b, c) == (a \o b) \o c = a \o (b \o c)

LEMMA Assoc == \A B : \A a, b, c \in Seq(B) : Associates(a, b, c)
BY ConcatAssociative DEF Associates
-----------------------------------------------------------------------------
(* FlattenSeq.                                                             *)

IsFlat(ss, f) ==
  f = [i \in 1 .. Len(ss) |-> IF i = 1 THEN ss[i] ELSE f[i-1] \o ss[i]]

Flat(ss) == CHOOSE f : IsFlat(ss, f)

LEMMA FlattenIsFlat ==
  ASSUME NEW ss
  PROVE  FlattenSeq(ss) = IF Len(ss) = 0 THEN ss ELSE Flat(ss)[Len(ss)]
BY Zenon DEF FlattenSeq, Flat, IsFlat

LEMMA FlatExists ==
  ASSUME NEW B, NEW ss \in Seq(Seq(B))
  PROVE  \E f \in [1 .. Len(ss) -> Seq(B)] : IsFlat(ss, f)
<1> DEFINE Step(f, i) == f[i] = IF i = 1 THEN ss[i] ELSE f[i-1] \o ss[i]
           Upto(n) == \E f \in [1 .. n -> Seq(B)] : \A i \in 1 .. n : Step(f, i)
           S == {n \in Nat : n <= Len(ss) => Upto(n)}
<1>1. 0 \in S
  <2> DEFINE h == [i \in 1 .. 0 |-> <<>>]
  <2>1. h \in [1 .. 0 -> Seq(B)] /\ \A i \in 1 .. 0 : Step(h, i)
    OBVIOUS
  <2>2. Upto(0)
    <3> HIDE DEF h, Step
    <3> QED BY <2>1
  <2> HIDE DEF Upto
  <2> QED BY <2>2
<1>2. ASSUME NEW n \in Nat, n \in S, n + 1 <= Len(ss) PROVE Upto(n + 1)
  <2>1. PICK f \in [1 .. n -> Seq(B)] : \A i \in 1 .. n : Step(f, i)
    BY <1>2
  <2> DEFINE x == IF n = 0 THEN ss[1] ELSE f[n] \o ss[n + 1]
             g == [i \in 1 .. n + 1 |-> IF i = n + 1 THEN x ELSE f[i]]
  <2>2. x \in Seq(B)
    <3>1. ss[n + 1] \in Seq(B)
      BY <1>2
    <3>2. n # 0 => f[n] \in Seq(B)
      OBVIOUS
    <3> QED BY <3>1, <3>2
  <2>3. g \in [1 .. n + 1 -> Seq(B)]
    <3> HIDE DEF x
    <3> QED BY <2>2
  <2>4. \A i \in 1 .. n + 1 : Step(g, i)
    <3> SUFFICES ASSUME NEW i \in 1 .. n + 1 PROVE Step(g, i)
      OBVIOUS
    <3>1. CASE i = n + 1
      BY <3>1
    <3>2. CASE i # n + 1
      <4>1. i \in 1 .. n
        BY <3>2
      <4>2. f[i] = IF i = 1 THEN ss[i] ELSE f[i-1] \o ss[i]
        BY <4>1, <2>1
      <4>3. \A j \in 1 .. n : j \in 1 .. n + 1 /\ j # n + 1
        OBVIOUS
      <4>4. \A j \in 1 .. n : g[j] = f[j]
        <5> HIDE DEF x
        <5> QED BY <4>3
      <4>5. i # 1 => i - 1 \in 1 .. n
        OBVIOUS
      <4> HIDE DEF g
      <4> QED BY <4>1, <4>2, <4>4, <4>5
    <3> QED BY <3>1, <3>2
  <2> HIDE DEF g, Step
  <2> QED BY <2>3, <2>4
<1>3. \A n \in Nat : n \in S => n + 1 \in S
  <2> SUFFICES ASSUME NEW n \in Nat, n \in S, n + 1 <= Len(ss)
               PROVE  Upto(n + 1)
    <3> HIDE DEF Upto
    <3> QED OBVIOUS
  <2> HIDE DEF Upto, S
  <2> QED BY <1>2
<1>4. \A n \in Nat : n \in S
  <2> HIDE DEF S
  <2> QED BY <1>1, <1>3, Induction
<1>5. Len(ss) \in Nat
  OBVIOUS
<1>6. Upto(Len(ss))
  <2> HIDE DEF Upto
  <2> QED BY <1>4, <1>5
<1>7. PICK f \in [1 .. Len(ss) -> Seq(B)] : \A i \in 1 .. Len(ss) : Step(f, i)
  BY <1>6
<1>8. f = [i \in 1 .. Len(ss) |-> f[i]]
  OBVIOUS
<1>9. f = [i \in 1 .. Len(ss) |-> IF i = 1 THEN ss[i] ELSE f[i-1] \o ss[i]]
  BY <1>7, <1>8
<1> QED BY <1>9 DEF IsFlat

LEMMA IsFlatAt ==
  ASSUME NEW ss, NEW f, IsFlat(ss, f), NEW i \in 1 .. Len(ss)
  PROVE  f[i] = IF i = 1 THEN ss[i] ELSE f[i-1] \o ss[i]
<1> DEFINE e(j) == IF j = 1 THEN ss[j] ELSE f[j-1] \o ss[j]
<1>1. f = [j \in 1 .. Len(ss) |-> e(j)]
  BY DEF IsFlat
<1>2. \A g : g = [j \in 1 .. Len(ss) |-> e(j)] => g[i] = e(i)
  <2> HIDE DEF e
  <2> QED OBVIOUS
<1>3. f[i] = e(i)
  <2> HIDE DEF e
  <2> QED BY <1>1, <1>2
<1> QED BY <1>3

LEMMA FlatUnique ==
  ASSUME NEW ss, Len(ss) \in Nat, NEW f, NEW g, IsFlat(ss, f), IsFlat(ss, g)
  PROVE  f = g
<1> DEFINE S == {n \in Nat : n \in 1 .. Len(ss) => f[n] = g[n]}
<1>0. /\ \A i \in 1 .. Len(ss) :
           f[i] = IF i = 1 THEN ss[i] ELSE f[i-1] \o ss[i]
      /\ \A i \in 1 .. Len(ss) :
           g[i] = IF i = 1 THEN ss[i] ELSE g[i-1] \o ss[i]
  BY IsFlatAt
<1>1. 0 \in S
  OBVIOUS
<1>2. \A n \in Nat : n \in S => n + 1 \in S
  <2> SUFFICES ASSUME NEW n \in Nat, n \in S, n + 1 \in 1 .. Len(ss)
               PROVE  f[n + 1] = g[n + 1]
    OBVIOUS
  <2>1. f[n + 1] = IF n + 1 = 1 THEN ss[n + 1] ELSE f[n + 1 - 1] \o ss[n + 1]
    BY <1>0
  <2>2. g[n + 1] = IF n + 1 = 1 THEN ss[n + 1] ELSE g[n + 1 - 1] \o ss[n + 1]
    BY <1>0
  <2>3. n + 1 # 1 => f[n + 1 - 1] = g[n + 1 - 1]
    OBVIOUS
  <2> QED BY <2>1, <2>2, <2>3
<1>3. \A n \in Nat : n \in S
  <2> HIDE DEF S
  <2> QED BY <1>1, <1>2, Induction
<1>4. \A n \in 1 .. Len(ss) : f[n] = g[n]
  BY <1>3
<1>5. f = [n \in 1 .. Len(ss) |-> f[n]] /\ g = [n \in 1 .. Len(ss) |-> g[n]]
  BY DEF IsFlat
<1> QED BY <1>4, <1>5

LEMMA FlattenValue ==
  ASSUME NEW B, NEW ss \in Seq(Seq(B)), NEW f, IsFlat(ss, f)
  PROVE  FlattenSeq(ss) = IF Len(ss) = 0 THEN <<>> ELSE f[Len(ss)]
<1>1. IsFlat(ss, Flat(ss))
  BY Zenon DEF Flat
<1>2. Len(ss) \in Nat
  OBVIOUS
<1>3. f = Flat(ss)
  BY <1>1, <1>2, FlatUnique
<1>4. Len(ss) = 0 => ss = <<>>
  OBVIOUS
<1> QED BY <1>3, <1>4, FlattenIsFlat

LEMMA FlattenEmpty == FlattenSeq(<<>>) = <<>>
BY FlattenIsFlat

LEMMA FlattenType ==
  ASSUME NEW B, NEW ss \in Seq(Seq(B)) PROVE FlattenSeq(ss) \in Seq(B)
<1>1. PICK f \in [1 .. Len(ss) -> Seq(B)] : IsFlat(ss, f)
  BY FlatExists
<1>2. FlattenSeq(ss) = IF Len(ss) = 0 THEN <<>> ELSE f[Len(ss)]
  BY <1>1, FlattenValue
<1>3. Len(ss) # 0 => Len(ss) \in 1 .. Len(ss)
  OBVIOUS
<1>4. Len(ss) # 0 => f[Len(ss)] \in Seq(B)
  BY <1>3
<1> QED BY <1>2, <1>4, EmptySeq

LEMMA FlattenAppend ==
  ASSUME NEW B, NEW ss \in Seq(Seq(B)), NEW x \in Seq(B)
  PROVE  FlattenSeq(Append(ss, x)) = FlattenSeq(ss) \o x
<1> DEFINE tt == Append(ss, x)
<1>1. tt \in Seq(Seq(B)) /\ Len(tt) = Len(ss) + 1 /\ tt[Len(ss) + 1] = x
      /\ \A i \in 1 .. Len(ss) : tt[i] = ss[i]
  OBVIOUS
<1> HIDE DEF tt
<1>2. PICK f \in [1 .. Len(tt) -> Seq(B)] : IsFlat(tt, f)
  BY <1>1, FlatExists
<1> DEFINE g == [i \in 1 .. Len(ss) |-> f[i]]
<1>3. \A i \in 1 .. Len(tt) : f[i] = IF i = 1 THEN tt[i] ELSE f[i-1] \o tt[i]
  BY <1>2, IsFlatAt
<1>4. \A i \in 1 .. Len(ss) : g[i] = IF i = 1 THEN ss[i] ELSE g[i-1] \o ss[i]
  <2> SUFFICES ASSUME NEW i \in 1 .. Len(ss)
               PROVE  g[i] = IF i = 1 THEN ss[i] ELSE g[i-1] \o ss[i]
    OBVIOUS
  <2>0. i \in 1 .. Len(tt) /\ tt[i] = ss[i]
    BY <1>1
  <2>1. f[i] = IF i = 1 THEN ss[i] ELSE f[i-1] \o ss[i]
    BY <2>0, <1>3
  <2>2. i # 1 => i - 1 \in 1 .. Len(ss)
    OBVIOUS
  <2> QED BY <2>1, <2>2
<1>5. IsFlat(ss, g)
  <2>1. g = [i \in 1 .. Len(ss) |-> g[i]]
    OBVIOUS
  <2> HIDE DEF g
  <2> QED BY <1>4, <2>1 DEF IsFlat
<1>6. FlattenSeq(ss) = IF Len(ss) = 0 THEN <<>> ELSE g[Len(ss)]
  <2> HIDE DEF g
  <2> QED BY <1>5, FlattenValue
<1>7. FlattenSeq(tt) = f[Len(tt)]
  BY <1>1, <1>2, FlattenValue
<1>8. f[Len(tt)] = IF Len(ss) = 0 THEN x ELSE f[Len(ss)] \o x
  <2>1. Len(tt) \in 1 .. Len(tt) /\ Len(tt) - 1 = Len(ss)
        /\ (Len(tt) = 1 <=> Len(ss) = 0)
    BY <1>1
  <2>2. f[Len(tt)] = IF Len(tt) = 1 THEN tt[Len(tt)]
                     ELSE f[Len(tt) - 1] \o tt[Len(tt)]
    BY <2>1, <1>3
  <2> QED BY <1>1, <2>1, <2>2
<1>9. <<>> \o x = x
  OBVIOUS
<1>10. Len(ss) # 0 => g[Len(ss)] = f[Len(ss)]
  OBVIOUS
<1>11. FlattenSeq(tt) = FlattenSeq(ss) \o x
  <2> HIDE DEF g
  <2> QED BY <1>6, <1>7, <1>8, <1>9, <1>10
<1> QED BY <1>11 DEF tt

LEMMA FlattenCons ==
  ASSUME NEW B, NEW ss \in Seq(Seq(B)), NEW x \in Seq(B)
  PROVE  FlattenSeq(<<x>> \o ss) = x \o FlattenSeq(ss)
<1> DEFINE Good(tt) == FlattenSeq(<<x>> \o tt) = x \o FlattenSeq(tt)
           S == {n \in Nat : \A tt \in Seq(Seq(B)) : Len(tt) = n => Good(tt)}
<1>1. 0 \in S
  <2> SUFFICES ASSUME NEW tt \in Seq(Seq(B)), Len(tt) = 0 PROVE Good(tt)
    OBVIOUS
  <2>1. tt = <<>> /\ <<x>> \o tt = Append(<<>>, x) /\ <<>> \in Seq(Seq(B))
    OBVIOUS
  <2>2. FlattenSeq(Append(<<>>, x)) = <<>> \o x
    BY <2>1, FlattenAppend, FlattenEmpty
  <2>3. <<>> \o x = x /\ x \o <<>> = x
    OBVIOUS
  <2> QED BY <2>1, <2>2, <2>3, FlattenEmpty
<1>2. \A n \in Nat : n \in S => n + 1 \in S
  <2> SUFFICES ASSUME NEW n \in Nat, n \in S PROVE n + 1 \in S
    OBVIOUS
  <2> SUFFICES ASSUME NEW tt \in Seq(Seq(B)), Len(tt) = n + 1 PROVE Good(tt)
    <3> HIDE DEF Good
    <3> QED OBVIOUS
  <2> DEFINE front == SubSeq(tt, 1, n)
             last == tt[n + 1]
  <2>1. front \in Seq(Seq(B)) /\ Len(front) = n /\ last \in Seq(B)
        /\ tt = Append(front, last)
    OBVIOUS
  <2>2. <<x>> \o Append(front, last) = Append(<<x>> \o front, last)
        /\ <<x>> \o front \in Seq(Seq(B))
    <3> HIDE DEF front, last
    <3> QED BY <2>1
  <2>3. Good(front)
    <3> HIDE DEF Good, front, last
    <3> QED BY <2>1
  <2> HIDE DEF front, last
  <2>4. FlattenSeq(tt) = FlattenSeq(front) \o last
    BY <2>1, FlattenAppend
  <2>5. FlattenSeq(<<x>> \o tt) = FlattenSeq(<<x>> \o front) \o last
    BY <2>1, <2>2, FlattenAppend
  <2>6. FlattenSeq(front) \in Seq(B)
    BY <2>1, FlattenType
  <2>7. Associates(x, FlattenSeq(front), last)
    BY <2>1, <2>6, Assoc
  <2> QED BY <2>3, <2>4, <2>5, <2>7 DEF Associates
<1>3. \A n \in Nat : n \in S
  <2> HIDE DEF S
  <2> QED BY <1>1, <1>2, Induction
<1>4. Good(ss)
  <2> HIDE DEF Good
  <2> QED BY <1>3
<1> QED BY <1>4
-----------------------------------------------------------------------------
(* Sequences of bytes.                                                     *)

Byte == 0 .. 255
T == SUPLA_TAG_SIZE

(* What two ways to cut the same stream have in common.                    *)
LEMMA Peel ==
  ASSUME NEW B, NEW b \in Seq(B), NEW rest \in Seq(B),
         NEW front \in Seq(B), NEW more \in Seq(B), b \o rest = front \o more
  PROVE  /\ Len(b) + Len(rest) = Len(front) + Len(more)
         /\ \A i \in 1 .. Len(b) : i <= Len(front) => b[i] = front[i]
         /\ Len(b) >= Len(front) =>
              SubSeq(b, Len(front) + 1, Len(b)) \o rest = more
<1> DEFINE s == b \o rest
<1>1. /\ s \in Seq(B) /\ Len(s) = Len(b) + Len(rest)
      /\ \A i \in 1 .. Len(b) + Len(rest) :
           s[i] = IF i <= Len(b) THEN b[i] ELSE rest[i - Len(b)]
  BY ConcatProperties
<1>2. /\ Len(s) = Len(front) + Len(more)
      /\ \A i \in 1 .. Len(front) + Len(more) :
           s[i] = IF i <= Len(front) THEN front[i] ELSE more[i - Len(front)]
  BY ConcatProperties
<1> HIDE DEF s
<1>3. ASSUME NEW i \in 1 .. Len(b), i <= Len(front) PROVE b[i] = front[i]
  <2>1. i \in 1 .. Len(b) + Len(rest) /\ i \in 1 .. Len(front) + Len(more)
    OBVIOUS
  <2> QED BY <1>1, <1>2, <1>3, <2>1
<1>4. ASSUME Len(b) >= Len(front)
      PROVE  SubSeq(b, Len(front) + 1, Len(b)) \o rest = more
  <2> DEFINE c == SubSeq(b, Len(front) + 1, Len(b))
  <2>1. /\ c \in Seq(B) /\ Len(c) = Len(b) - Len(front)
        /\ \A i \in 1 .. Len(b) - Len(front) : c[i] = b[Len(front) + i]
    <3>1. \A i \in Len(front) + 1 .. Len(b) : b[i] \in B
      BY ElementOfSeq
    <3> QED BY <1>4, <3>1, SubSeqProperties
  <2> HIDE DEF c
  <2>2. /\ c \o rest \in Seq(B) /\ Len(c \o rest) = Len(c) + Len(rest)
        /\ \A i \in 1 .. Len(c) + Len(rest) :
             (c \o rest)[i] = IF i <= Len(c) THEN c[i] ELSE rest[i - Len(c)]
    BY <2>1, ConcatProperties
  <2>3. Len(c \o rest) = Len(more)
    BY <1>1, <1>2, <2>1, <2>2
  <2>4. ASSUME NEW i \in 1 .. Len(more) PROVE (c \o rest)[i] = more[i]
    <3> DEFINE k == Len(front) + i
    <3>1. /\ k \in 1 .. Len(b) + Len(rest) /\ k \in 1 .. Len(front) + Len(more)
          /\ ~(k <= Len(front)) /\ k - Len(front) = i
          /\ (k <= Len(b) <=> i <= Len(c))
          /\ k - Len(b) = i - Len(c)
      BY <1>1, <1>2, <2>1
    <3>2. s[k] = more[i]
      BY <1>2, <3>1
    <3>3. s[k] = IF i <= Len(c) THEN b[k] ELSE rest[i - Len(c)]
      BY <1>1, <3>1
    <3>4. (c \o rest)[i] = IF i <= Len(c) THEN c[i] ELSE rest[i - Len(c)]
      BY <2>2, <2>3
    <3>5. i <= Len(c) => c[i] = b[k]
      BY <2>1
    <3> QED BY <3>2, <3>3, <3>4, <3>5
  <2>5. c \o rest = more
    BY <2>2, <2>3, <2>4, SeqEqual
  <2> QED BY <2>5 DEF c
<1>5. Len(b) + Len(rest) = Len(front) + Len(more)
  BY <1>1, <1>2
<1> QED BY <1>3, <1>4, <1>5

(* A sequence cut in two.                                                  *)
LEMMA Cut ==
  ASSUME NEW B, NEW s \in Seq(B), NEW n \in 0 .. Len(s)
  PROVE  /\ SubSeq(s, 1, n) \in Seq(B) /\ Len(SubSeq(s, 1, n)) = n
         /\ SubSeq(s, n + 1, Len(s)) \in Seq(B)
         /\ Len(SubSeq(s, n + 1, Len(s))) = Len(s) - n
         /\ SubSeq(s, 1, n) \o SubSeq(s, n + 1, Len(s)) = s
<1>1. \A i \in 1 .. Len(s) : s[i] \in B
  BY ElementOfSeq
<1>2. 1 \in Int /\ n \in Int /\ n + 1 \in Int /\ Len(s) \in Int
  OBVIOUS
<1>3. (\A i \in 1 .. n : s[i] \in B) /\ (\A i \in n + 1 .. Len(s) : s[i] \in B)
  BY <1>1
<1>4. SubSeq(s, 1, n) \in Seq(B) /\ Len(SubSeq(s, 1, n)) = n
  BY <1>2, <1>3, SubSeqProperties
<1>5. SubSeq(s, n + 1, Len(s)) \in Seq(B)
      /\ Len(SubSeq(s, n + 1, Len(s))) = Len(s) - n
  <2>1. Len(SubSeq(s, n + 1, Len(s))) =
          IF n + 1 <= Len(s) THEN Len(s) - (n + 1) + 1 ELSE 0
    BY <1>2, <1>3, SubSeqProperties
  <2> QED BY <2>1, <1>2, <1>3, SubSeqProperties
<1>6. SubSeq(s, 1, n) \o SubSeq(s, n + 1, Len(s)) = SubSeq(s, 1, Len(s))
  <2>1. 1 \in 1 .. Len(s) + 1 /\ n \in 1 - 1 .. Len(s) /\ Len(s) \in n .. Len(s)
    OBVIOUS
  <2> QED BY <2>1, ConcatAdjacentSubSeq
<1>7. SubSeq(s, 1, Len(s)) = s
  BY SubSeqFull
<1> QED BY <1>4, <1>5, <1>6, <1>7

LEMMA Concat ==
  ASSUME NEW B, NEW s \in Seq(B), NEW t \in Seq(B)
  PROVE  /\ s \o t \in Seq(B)
         /\ Len(s \o t) = Len(s) + Len(t)
         /\ \A i \in 1 .. Len(s) : (s \o t)[i] = s[i]
         /\ \A i \in 1 .. Len(t) : (s \o t)[Len(s) + i] = t[i]
<1>1. /\ s \o t \in Seq(B) /\ Len(s \o t) = Len(s) + Len(t)
      /\ \A i \in 1 .. Len(s) + Len(t) :
           (s \o t)[i] = IF i <= Len(s) THEN s[i] ELSE t[i - Len(s)]
  BY ConcatProperties
<1>2. \A i \in 1 .. Len(s) : (s \o t)[i] = s[i]
  <2>1. \A i \in 1 .. Len(s) : i \in 1 .. Len(s) + Len(t) /\ i <= Len(s)
    OBVIOUS
  <2> QED BY <1>1, <2>1
<1>3. \A i \in 1 .. Len(t) : (s \o t)[Len(s) + i] = t[i]
  <2> SUFFICES ASSUME NEW i \in 1 .. Len(t) PROVE (s \o t)[Len(s) + i] = t[i]
    OBVIOUS
  <2>1. Len(s) + i \in 1 .. Len(s) + Len(t) /\ ~(Len(s) + i <= Len(s))
        /\ Len(s) + i - Len(s) = i
    OBVIOUS
  <2>2. (s \o t)[Len(s) + i] = t[Len(s) + i - Len(s)]
    BY <1>1, <2>1
  <2> QED BY <2>1, <2>2
<1> QED BY <1>1, <1>2, <1>3

LEMMA UpTo255 == ASSUME NEW n \in Nat, n <= 255 PROVE n \in 0 .. 255
OBVIOUS

LEMMA TakenType ==
  ASSUME NEW B, NEW s \in Seq(B) PROVE Taken(s) \in 0 .. Len(s)
<1> DEFINE S == {Len(s), SRPC_BUFFER_SIZE}
<1>1. Len(s) \in Nat /\ SRPC_BUFFER_SIZE \in Nat
  BY FramingAssumption
<1>2. \E x \in S : \A y \in S : x =< y
  BY <1>1
<1>3. Min(S) \in S /\ \A y \in S : Min(S) =< y
  <2> HIDE DEF S
  <2> QED BY <1>2, Zenon DEF Min
<1> QED BY <1>1, <1>3 DEF Taken
-----------------------------------------------------------------------------
(* A frame, field by field.                                                *)

LEMMA TagFacts ==
  /\ T \in 1 .. 5
  /\ sproto_tag \in Seq(Byte) /\ Len(sproto_tag) = T
<1>1. T \in 1 .. 5
  BY FramingAssumption DEF T
<1> DEFINE supla == <<83, 85, 80, 76, 65>>
<1>2. supla \in Seq(Byte) /\ Len(supla) = 5
  BY DEF Byte
<1>3. \A i \in 1 .. T : supla[i] \in Byte
  <2> HIDE DEF supla
  <2>1. \A i \in 1 .. T : i \in 1 .. Len(supla)
    BY <1>1, <1>2
  <2> QED BY <1>2, <2>1, ElementOfSeq
<1>4. SubSeq(supla, 1, T) \in Seq(Byte) /\ Len(SubSeq(supla, 1, T)) = T
  <2> HIDE DEF supla
  <2> QED BY <1>1, <1>3, SubSeqProperties
<1> QED BY <1>1, <1>4 DEF sproto_tag, T

LEMMA FrameFacts ==
  ASSUME NEW p \in Packet
  PROVE  /\ Frame(p) \in Seq(Byte)
         /\ p.data \in Seq(Byte) /\ Len(p.data) \in Nat /\ Len(p.data) <= 255
         /\ p.version \in Byte /\ p.rr_id \in Byte
         /\ Len(Frame(p)) = header_size + Len(p.data) + T
         /\ Frame(p)[VersionAt] = p.version
         /\ Frame(p)[RRidAt] = p.rr_id
         /\ Frame(p)[SizeAt] = Len(p.data)
         /\ \A i \in 1 .. T : Frame(p)[i] = sproto_tag[i]
         /\ \A i \in 1 .. Len(p.data) : Frame(p)[header_size + i] = p.data[i]
         /\ \A i \in 1 .. T :
              Frame(p)[header_size + Len(p.data) + i] = sproto_tag[i]
<1> DEFINE d == p.data
           fields == <<p.version, p.rr_id, Len(d)>>
           h == sproto_tag \o fields
           f == h \o d
           r == f \o sproto_tag
<1>1. /\ p.version \in 1 .. SenderVersion /\ p.rr_id \in 1 .. 255
      /\ d \in Payloads
      BY DEF Packet
<1>2. d \in Seq(Byte) /\ Len(d) \in Nat /\ Len(d) <= 255
  <2> HIDE DEF d
  <2>1. \A x \in Payloads : x \in Seq(Byte) /\ Len(x) <= 255
    BY FramingAssumption DEF Byte
  <2> QED BY <1>1, <2>1
<1>3. p.version \in Byte /\ p.rr_id \in Byte
  <2>1. SenderVersion \in 1 .. 255
    BY FramingAssumption
  <2> QED BY <1>1, <2>1 DEF Byte
<1>4. /\ fields \in Seq(Byte) /\ Len(fields) = 3
      /\ fields[1] = p.version /\ fields[2] = p.rr_id /\ fields[3] = Len(d)
  <2> HIDE DEF d
  <2>1. Len(d) \in Byte
    BY <1>2, UpTo255 DEF Byte
  <2> QED BY <2>1, <1>3
<1> HIDE DEF d, fields
<1>5. /\ h \in Seq(Byte) /\ Len(h) = T + 3
      /\ \A i \in 1 .. T : h[i] = sproto_tag[i]
      /\ \A i \in 1 .. 3 : h[T + i] = fields[i]
  <2>1. sproto_tag \in Seq(Byte) /\ fields \in Seq(Byte)
    BY <1>4, TagFacts
  <2>2. /\ h \in Seq(Byte) /\ Len(h) = Len(sproto_tag) + Len(fields)
        /\ \A i \in 1 .. Len(sproto_tag) : h[i] = sproto_tag[i]
        /\ \A i \in 1 .. Len(fields) : h[Len(sproto_tag) + i] = fields[i]
    BY <2>1, Concat
  <2> HIDE DEF h
  <2> QED BY <1>4, TagFacts, <2>2
<1> HIDE DEF h
<1>6. /\ f \in Seq(Byte) /\ Len(f) = T + 3 + Len(d)
      /\ \A i \in 1 .. T + 3 : f[i] = h[i]
      /\ \A i \in 1 .. Len(d) : f[T + 3 + i] = d[i]
  <2>1. h \in Seq(Byte) /\ d \in Seq(Byte)
    BY <1>2, <1>5
  <2>2. /\ f \in Seq(Byte) /\ Len(f) = Len(h) + Len(d)
        /\ \A i \in 1 .. Len(h) : f[i] = h[i]
        /\ \A i \in 1 .. Len(d) : f[Len(h) + i] = d[i]
    BY <2>1, Concat
  <2> HIDE DEF f
  <2> QED BY <1>2, <1>5, <2>2
<1> HIDE DEF f
<1>7. /\ r \in Seq(Byte) /\ Len(r) = T + 3 + Len(d) + T
      /\ \A i \in 1 .. T + 3 + Len(d) : r[i] = f[i]
      /\ \A i \in 1 .. T : r[T + 3 + Len(d) + i] = sproto_tag[i]
  <2>1. f \in Seq(Byte) /\ sproto_tag \in Seq(Byte)
    BY <1>6, TagFacts
  <2>2. /\ r \in Seq(Byte) /\ Len(r) = Len(f) + Len(sproto_tag)
        /\ \A i \in 1 .. Len(f) : r[i] = f[i]
        /\ \A i \in 1 .. Len(sproto_tag) : r[Len(f) + i] = sproto_tag[i]
    BY <2>1, Concat
  <2> HIDE DEF r
  <2> QED BY <1>6, TagFacts, <2>2
<1> HIDE DEF r
<1>8. \A i \in 1 .. T + 3 : r[i] = h[i]
  <2>1. \A i \in 1 .. T + 3 : i \in 1 .. T + 3 + Len(d)
    BY <1>2, TagFacts
  <2> QED BY <1>6, <1>7, <2>1
<1>9. \A i \in 1 .. Len(d) : r[T + 3 + i] = d[i]
  <2>1. \A i \in 1 .. Len(d) : T + 3 + i \in 1 .. T + 3 + Len(d)
    BY <1>2, TagFacts
  <2> QED BY <1>6, <1>7, <2>1
<1>10. \A i \in 1 .. T : r[i] = sproto_tag[i]
  <2>1. \A i \in 1 .. T : i \in 1 .. T + 3
    BY TagFacts
  <2> QED BY <1>5, <1>8, <2>1
<1>11. r[T + 1] = p.version /\ r[T + 2] = p.rr_id /\ r[T + 3] = Len(d)
  <2>1. \A j \in 1 .. 3 : T + j \in 1 .. T + 3
    BY TagFacts
  <2>2. \A j \in 1 .. 3 : r[T + j] = fields[j]
    BY <1>5, <1>8, <2>1
  <2> QED BY <1>4, <2>2
<1>12. header_size = T + 3 /\ VersionAt = T + 1 /\ RRidAt = T + 2 /\ SizeAt = T + 3
  BY DEF header_size, VersionAt, RRidAt, SizeAt, T
<1>13. r = Frame(p) /\ d = p.data
  BY DEF Frame, r, f, h, fields, d
<1> QED BY <1>2, <1>3, <1>7, <1>9, <1>10, <1>11, <1>12, <1>13
-----------------------------------------------------------------------------
(* The packets that are on their way, and their frames.                    *)

Pending(s, k) == [i \in 1 .. Len(s) - k |-> Frame(s[k + i])]

LEMMA PendingType ==
  ASSUME NEW s \in Seq(Packet), NEW k \in Nat, k <= Len(s)
  PROVE  /\ Pending(s, k) \in Seq(Seq(Byte))
         /\ Len(Pending(s, k)) = Len(s) - k
         /\ \A i \in 1 .. Len(s) - k : Pending(s, k)[i] = Frame(s[k + i])
<1>1. \A i \in 1 .. Len(s) - k : Frame(s[k + i]) \in Seq(Byte)
  <2> SUFFICES ASSUME NEW i \in 1 .. Len(s) - k PROVE Frame(s[k + i]) \in Seq(Byte)
    OBVIOUS
  <2>1. k + i \in 1 .. Len(s)
    OBVIOUS
  <2>2. s[k + i] \in Packet
    BY <2>1, ElementOfSeq
  <2> QED BY <2>2, FrameFacts
<1>2. Len(s) - k \in Nat
  OBVIOUS
<1> QED BY <1>1, <1>2 DEF Pending

LEMMA PendingNone ==
  ASSUME NEW s \in Seq(Packet), NEW k \in Nat, k = Len(s)
  PROVE  Pending(s, k) = <<>>
<1>1. Pending(s, k) \in Seq(Seq(Byte)) /\ Len(Pending(s, k)) = 0
  BY PendingType
<1> QED BY <1>1, EmptySeq

LEMMA PendingAppend ==
  ASSUME NEW s \in Seq(Packet), NEW k \in Nat, k <= Len(s), NEW p \in Packet
  PROVE  Pending(Append(s, p), k) = Append(Pending(s, k), Frame(p))
<1> DEFINE t == Append(s, p)
           old == Pending(s, k)
           new == Pending(t, k)
<1>1. /\ t \in Seq(Packet) /\ Len(t) = Len(s) + 1
      /\ \A i \in 1 .. Len(s) : t[i] = s[i]
      /\ t[Len(s) + 1] = p
  BY AppendProperties
<1> HIDE DEF t
<1>2. /\ old \in Seq(Seq(Byte)) /\ Len(old) = Len(s) - k
      /\ \A i \in 1 .. Len(s) - k : old[i] = Frame(s[k + i])
  BY PendingType
<1>3. /\ new \in Seq(Seq(Byte)) /\ Len(new) = Len(t) - k
      /\ \A i \in 1 .. Len(t) - k : new[i] = Frame(t[k + i])
  <2>1. k <= Len(t)
    BY <1>1
  <2> QED BY <1>1, <2>1, PendingType
<1> HIDE DEF old, new
<1>4. Frame(p) \in Seq(Byte)
  BY FrameFacts
<1> DEFINE app == Append(old, Frame(p))
<1>5. /\ app \in Seq(Seq(Byte)) /\ Len(app) = Len(old) + 1
      /\ \A i \in 1 .. Len(old) : app[i] = old[i]
      /\ app[Len(old) + 1] = Frame(p)
  BY <1>2, <1>4, AppendProperties
<1> HIDE DEF app
<1>6. \A i \in 1 .. Len(old) : new[i] = app[i]
  <2> SUFFICES ASSUME NEW i \in 1 .. Len(old) PROVE new[i] = app[i]
    OBVIOUS
  <2>1. i \in 1 .. Len(s) - k /\ i \in 1 .. Len(t) - k /\ k + i \in 1 .. Len(s)
    BY <1>1, <1>2
  <2>2. old[i] = Frame(s[k + i]) /\ new[i] = Frame(t[k + i])
    BY <2>1, <1>2, <1>3
  <2> QED BY <2>1, <2>2, <1>1, <1>5
<1>7. new[Len(old) + 1] = app[Len(old) + 1]
  <2>1. Len(old) + 1 \in 1 .. Len(t) - k /\ k + (Len(old) + 1) = Len(s) + 1
    BY <1>1, <1>2
  <2>2. new[Len(old) + 1] = Frame(t[k + (Len(old) + 1)])
    BY <2>1, <1>3
  <2> QED BY <2>1, <2>2, <1>1, <1>5
<1>8. \A i \in 1 .. Len(new) : new[i] = app[i]
  <2>1. Len(new) = Len(old) + 1
    BY <1>1, <1>2, <1>3
  <2> QED BY <2>1, <1>2, <1>6, <1>7
<1>9. new = app
  <2>1. Len(new) = Len(app)
    BY <1>1, <1>2, <1>3, <1>5
  <2> QED BY <2>1, <1>3, <1>5, <1>8, SeqEqual
<1> QED BY <1>9 DEF new, app, old, t

LEMMA PendingNext ==
  ASSUME NEW s \in Seq(Packet), NEW k \in Nat, k < Len(s)
  PROVE  Pending(s, k) = <<Frame(s[k + 1])>> \o Pending(s, k + 1)
<1> DEFINE first == <<Frame(s[k + 1])>>
           old == Pending(s, k)
           new == Pending(s, k + 1)
<1>1. /\ old \in Seq(Seq(Byte)) /\ Len(old) = Len(s) - k
      /\ \A i \in 1 .. Len(s) - k : old[i] = Frame(s[k + i])
  <2> HIDE DEF first, new
  <2>1. k <= Len(s)
    OBVIOUS
  <2> QED BY <2>1, PendingType
<1>2. /\ new \in Seq(Seq(Byte)) /\ Len(new) = Len(s) - (k + 1)
      /\ \A i \in 1 .. Len(s) - (k + 1) : new[i] = Frame(s[k + 1 + i])
  <2>1. k + 1 \in Nat /\ k + 1 <= Len(s)
    OBVIOUS
  <2> HIDE DEF old
  <2> QED BY <2>1, PendingType
<1> HIDE DEF old, new
<1>3. first \in Seq(Seq(Byte)) /\ Len(first) = 1 /\ first[1] = Frame(s[k + 1])
  <2>1. k + 1 \in 1 .. Len(s)
    OBVIOUS
  <2>2. Frame(s[k + 1]) \in Seq(Byte)
    BY <2>1, ElementOfSeq, FrameFacts
  <2> QED BY <2>2
<1> HIDE DEF first
<1> DEFINE all == first \o new
<1>4. /\ all \in Seq(Seq(Byte)) /\ Len(all) = Len(first) + Len(new)
      /\ \A i \in 1 .. Len(first) : all[i] = first[i]
      /\ \A i \in 1 .. Len(new) : all[Len(first) + i] = new[i]
  <2>1. new \in Seq(Seq(Byte)) /\ first \in Seq(Seq(Byte))
    BY <1>2, <1>3
  <2> QED BY <2>1, Concat
<1> HIDE DEF all
<1>5. all[1] = old[1]
  <2>1. 1 \in 1 .. Len(s) - k /\ 1 \in 1 .. Len(first)
    BY <1>3
  <2> QED BY <2>1, <1>1, <1>3, <1>4
<1>6. \A i \in 1 .. Len(new) : all[1 + i] = old[1 + i]
  <2> SUFFICES ASSUME NEW i \in 1 .. Len(new) PROVE all[1 + i] = old[1 + i]
    OBVIOUS
  <2>1. /\ 1 + i \in 1 .. Len(s) - k /\ i \in 1 .. Len(s) - (k + 1)
        /\ k + (1 + i) = k + 1 + i
    BY <1>2
  <2>2. old[1 + i] = Frame(s[k + (1 + i)])
    BY <2>1, <1>1
  <2>3. all[1 + i] = new[i]
    BY <1>3, <1>4
  <2> QED BY <2>1, <2>2, <2>3, <1>2
<1>7. \A i \in 1 .. Len(old) : all[i] = old[i]
  <2> SUFFICES ASSUME NEW i \in 1 .. Len(old), i # 1 PROVE all[i] = old[i]
    BY <1>5
  <2> DEFINE j == i - 1
  <2>1. j \in 1 .. Len(new) /\ 1 + j = i
    BY <1>1, <1>2
  <2>2. all[1 + j] = old[1 + j]
    BY <2>1, <1>6
  <2> QED BY <2>1, <2>2
<1>8. old = all
  <2>1. Len(old) = Len(all)
    BY <1>1, <1>2, <1>3, <1>4
  <2> QED BY <2>1, <1>1, <1>4, <1>7, SeqEqual
<1> QED BY <1>8 DEF all, old, new, first

(* The frame of the next packet stands at the head of what is unread.      *)
LEMMA NextFrame ==
  ASSUME NEW s \in Seq(Packet), NEW k \in Nat, k < Len(s)
  PROVE  /\ s[k + 1] \in Packet
         /\ FlattenSeq(Pending(s, k + 1)) \in Seq(Byte)
         /\ FlattenSeq(Pending(s, k))
              = Frame(s[k + 1]) \o FlattenSeq(Pending(s, k + 1))
<1>1. s[k + 1] \in Packet
  <2>1. k + 1 \in 1 .. Len(s)
    OBVIOUS
  <2> QED BY <2>1, ElementOfSeq
<1>2. k + 1 <= Len(s) /\ k + 1 \in Nat
  OBVIOUS
<1>3. Pending(s, k + 1) \in Seq(Seq(Byte))
  BY <1>2, PendingType
<1>4. FlattenSeq(Pending(s, k + 1)) \in Seq(Byte)
  BY <1>3, FlattenType
<1>5. Frame(s[k + 1]) \in Seq(Byte)
  BY <1>1, FrameFacts
<1>6. FlattenSeq(<<Frame(s[k + 1])>> \o Pending(s, k + 1))
        = Frame(s[k + 1]) \o FlattenSeq(Pending(s, k + 1))
  BY <1>3, <1>5, FlattenCons
<1> QED BY <1>1, <1>4, <1>6, PendingNext

LEMMA LastFrame ==
  ASSUME NEW s \in Seq(Packet), NEW k \in Nat, k <= Len(s), NEW p \in Packet
  PROVE  FlattenSeq(Pending(Append(s, p), k))
           = FlattenSeq(Pending(s, k)) \o Frame(p)
<1>1. Pending(s, k) \in Seq(Seq(Byte))
  BY PendingType
<1>2. Frame(p) \in Seq(Byte)
  BY FrameFacts
<1>3. FlattenSeq(Append(Pending(s, k), Frame(p)))
        = FlattenSeq(Pending(s, k)) \o Frame(p)
  BY <1>1, <1>2, FlattenAppend
<1> QED BY <1>3, PendingAppend
-----------------------------------------------------------------------------
(* Parts of sequences.                                                     *)

LEMMA Slice ==
  ASSUME NEW B, NEW b \in Seq(B), NEW t \in Seq(B), NEW n \in Nat,
         n + Len(t) <= Len(b), \A i \in 1 .. Len(t) : b[n + i] = t[i]
  PROVE  SubSeq(b, n + 1, n + Len(t)) = t
<1> DEFINE s == SubSeq(b, n + 1, n + Len(t))
<1>1. \A i \in n + 1 .. n + Len(t) : b[i] \in B
  <2>1. \A i \in n + 1 .. n + Len(t) : i \in 1 .. Len(b)
    OBVIOUS
  <2> QED BY <2>1, ElementOfSeq
<1>2. /\ s \in Seq(B)
      /\ Len(s) = IF n + 1 <= n + Len(t) THEN n + Len(t) - (n + 1) + 1 ELSE 0
      /\ \A i \in 1 .. n + Len(t) - (n + 1) + 1 : s[i] = b[n + 1 + i - 1]
  <2>1. n + 1 \in Int /\ n + Len(t) \in Int
    OBVIOUS
  <2> QED BY <1>1, <2>1, SubSeqProperties
<1> HIDE DEF s
<1>3. Len(s) = Len(t)
  BY <1>2
<1>4. \A i \in 1 .. Len(s) : s[i] = t[i]
  <2> SUFFICES ASSUME NEW i \in 1 .. Len(s) PROVE s[i] = t[i]
    OBVIOUS
  <2>1. i \in 1 .. n + Len(t) - (n + 1) + 1 /\ n + 1 + i - 1 = n + i
        /\ i \in 1 .. Len(t)
    BY <1>3
  <2>2. s[i] = b[n + i]
    BY <1>2, <2>1
  <2> QED BY <2>1, <2>2
<1>5. s = t
  BY <1>2, <1>3, <1>4, SeqEqual
<1> QED BY <1>5 DEF s

LEMMA PrefixFacts ==
  ASSUME NEW B, NEW s \in Seq(B), NEW t \in Seq(B)
  PROVE  IsPrefix(s, t) <=> /\ Len(s) <= Len(t)
                            /\ \A i \in 1 .. Len(s) : s[i] = t[i]
<1>1. SubSeq(s, 1, Len(s)) = s
  BY SubSeqFull
<1>2. ASSUME Len(s) <= Len(t), \A i \in 1 .. Len(s) : s[i] = t[i]
      PROVE  SubSeq(t, 1, Len(s)) = s
  <2>1. \A i \in 1 .. Len(s) : t[0 + i] = s[i]
    BY <1>2
  <2>2. SubSeq(t, 0 + 1, 0 + Len(s)) = s
    BY <1>2, <2>1, Slice
  <2> QED BY <2>2
<1>3. ASSUME Len(s) <= Len(t), SubSeq(t, 1, Len(s)) = s,
             NEW i \in 1 .. Len(s)
      PROVE  s[i] = t[i]
  <2>1. \A j \in 1 .. Len(s) : t[j] \in B
    BY <1>3, ElementOfSeq
  <2>2. \A j \in 1 .. Len(s) - 1 + 1 : SubSeq(t, 1, Len(s))[j] = t[1 + j - 1]
    BY <2>1, SubSeqProperties
  <2>3. i \in 1 .. Len(s) - 1 + 1 /\ 1 + i - 1 = i
    OBVIOUS
  <2> QED BY <1>3, <2>2, <2>3
<1> QED BY <1>1, <1>2, <1>3 DEF IsPrefix

LEMMA PrefixGrows ==
  ASSUME NEW B, NEW s \in Seq(B), NEW t \in Seq(B), NEW x \in B, IsPrefix(s, t)
  PROVE  /\ IsPrefix(s, Append(t, x))
         /\ Len(s) < Len(t) => IsPrefix(Append(s, t[Len(s) + 1]), t)
<1>1. Len(s) <= Len(t) /\ \A i \in 1 .. Len(s) : s[i] = t[i]
  BY PrefixFacts
<1>2. IsPrefix(s, Append(t, x))
  <2>1. Append(t, x) \in Seq(B) /\ Len(Append(t, x)) = Len(t) + 1
        /\ \A i \in 1 .. Len(t) : Append(t, x)[i] = t[i]
    BY AppendProperties
  <2>2. Len(s) <= Len(Append(t, x))
    BY <1>1, <2>1
  <2>3. \A i \in 1 .. Len(s) : s[i] = Append(t, x)[i]
    BY <1>1, <2>1
  <2> QED BY <2>1, <2>2, <2>3, PrefixFacts
<1>3. ASSUME Len(s) < Len(t) PROVE IsPrefix(Append(s, t[Len(s) + 1]), t)
  <2> DEFINE y == t[Len(s) + 1]
  <2>1. y \in B
    <3>1. Len(s) + 1 \in 1 .. Len(t)
      BY <1>3
    <3> QED BY <3>1, ElementOfSeq
  <2>2. /\ Append(s, y) \in Seq(B) /\ Len(Append(s, y)) = Len(s) + 1
        /\ \A i \in 1 .. Len(s) : Append(s, y)[i] = s[i]
        /\ Append(s, y)[Len(s) + 1] = y
    BY <2>1, AppendProperties
  <2>3. Len(Append(s, y)) <= Len(t)
    BY <1>3, <2>2
  <2>4. \A i \in 1 .. Len(Append(s, y)) : Append(s, y)[i] = t[i]
    <3> HIDE DEF y
    <3>1. \A i \in 1 .. Len(s) + 1 : i \in 1 .. Len(s) \/ i = Len(s) + 1
      OBVIOUS
    <3>2. Append(s, y)[Len(s) + 1] = t[Len(s) + 1]
      BY <2>2 DEF y
    <3> QED BY <1>1, <2>2, <3>1, <3>2
  <2> HIDE DEF y
  <2>5. IsPrefix(Append(s, y), t)
    BY <2>2, <2>3, <2>4, PrefixFacts
  <2> QED BY <2>5 DEF y
<1> QED BY <1>2, <1>3
-----------------------------------------------------------------------------
(* What sproto_pop_in_sdp does to the buffer, whatever it holds.           *)

TagStands(buffer) == Len(buffer) >= T /\ TagAt(buffer, 1)

LEMMA ShrinkType ==
  ASSUME NEW buffer \in Seq(Byte), NEW size \in Nat, size <= Len(buffer),
         Shrink(buffer, size)
  PROVE  /\ in_buffer' = SubSeq(buffer, size + 1, Len(buffer))
         /\ in_buffer' \in Seq(Byte) /\ Len(in_buffer') <= Len(buffer)
         /\ begin_tag' = FALSE
<1>1. in_buffer' = SubSeq(buffer, size + 1, Len(buffer)) /\ begin_tag' = FALSE
  BY DEF Shrink
<1>2. size \in 0 .. Len(buffer)
  OBVIOUS
<1>3. /\ SubSeq(buffer, size + 1, Len(buffer)) \in Seq(Byte)
      /\ Len(SubSeq(buffer, size + 1, Len(buffer))) = Len(buffer) - size
  BY <1>2, Cut
<1> QED BY <1>1, <1>3

LEMMA SizeByte ==
  ASSUME NEW buffer \in Seq(Byte), Len(buffer) >= header_size + T
  PROVE  /\ header_size \in Nat /\ header_size = T + 3
         /\ buffer[VersionAt] \in Nat /\ buffer[SizeAt] \in Nat
         /\ buffer[RRidAt] \in 0 .. 255
<1>1. header_size = T + 3 /\ VersionAt = T + 1 /\ RRidAt = T + 2 /\ SizeAt = T + 3
  BY DEF header_size, VersionAt, RRidAt, SizeAt, T
<1>2. /\ VersionAt \in 1 .. Len(buffer) /\ RRidAt \in 1 .. Len(buffer)
      /\ SizeAt \in 1 .. Len(buffer)
  BY <1>1, TagFacts
<1>3. buffer[VersionAt] \in Byte /\ buffer[RRidAt] \in Byte /\ buffer[SizeAt] \in Byte
  BY <1>2, ElementOfSeq
<1>4. header_size \in Nat
  BY <1>1, TagFacts
<1>5. \A x \in Byte : x \in Nat /\ x \in 0 .. 255
  BY DEF Byte
<1> QED BY <1>1, <1>3, <1>4, <1>5

(* The cases of the function, each with the condition it is taken on.      *)
Results == {"true", "false", "version_error", "data_error", "overflow"}

LEMMA PopType ==
  ASSUME NEW buffer \in Seq(Byte), received \in Seq(PoppedPacket),
         begin_tag => TagStands(buffer), begin_tag \in BOOLEAN, Pop(buffer)
  PROVE  /\ in_buffer' \in Seq(Byte) /\ Len(in_buffer') <= Len(buffer)
         /\ begin_tag' \in BOOLEAN /\ (begin_tag' => TagStands(in_buffer'))
         /\ result' \in Results
         /\ received' \in Seq(PoppedPacket)
<1> DEFINE Goal == /\ in_buffer' \in Seq(Byte) /\ Len(in_buffer') <= Len(buffer)
                   /\ begin_tag' \in BOOLEAN /\ (begin_tag' => TagStands(in_buffer'))
                   /\ result' \in Results
                   /\ received' \in Seq(PoppedPacket)
           tagged == begin_tag \/ (Len(buffer) >= T /\ TagAt(buffer, 1))
<1>1. Len(buffer) \in Nat
  OBVIOUS
<1>2. ASSUME NEW e \in {"version_error", "data_error"}, Fail(buffer, e) PROVE Goal
  <2>1. Shrink(buffer, Len(buffer)) /\ result' = e /\ received' = received
    BY <1>2 DEF Fail
  <2>2. /\ in_buffer' \in Seq(Byte) /\ Len(in_buffer') <= Len(buffer)
        /\ begin_tag' = FALSE
    <3>1. Shrink(buffer, Len(buffer)) /\ Len(buffer) <= Len(buffer)
      BY <1>1, <2>1
    <3> QED BY <3>1, <1>1, ShrinkType
  <2>3. result' \in Results /\ received' \in Seq(PoppedPacket)
    BY <2>1 DEF Results
  <2> QED BY <2>2, <2>3
<1>3. ASSUME NEW t \in BOOLEAN, t => TagStands(buffer), Incomplete(buffer, t)
      PROVE  Goal
  BY <1>1, <1>3 DEF Incomplete, Results
<1>4. tagged <=> TagStands(buffer)
  BY DEF TagStands
<1>5. ASSUME Len(buffer) >= header_size + T, PopHeaded(buffer), TagStands(buffer)
      PROVE  Goal
  <2>1. /\ header_size \in Nat /\ header_size = T + 3
        /\ buffer[VersionAt] \in Nat /\ buffer[SizeAt] \in Nat
        /\ buffer[RRidAt] \in 0 .. 255
    BY <1>5, SizeByte
  <2>2. CASE VersionAccepted(buffer) /\ Complete(buffer) /\ TakePacket(buffer)
    <3> DEFINE end == header_size + buffer[SizeAt]
               p == [version |-> buffer[VersionAt], rr_id |-> buffer[RRidAt],
                     data |-> SubSeq(buffer, header_size + 1, end)]
    <3>1. /\ received' = Append(received, p) /\ Shrink(buffer, end + T)
          /\ result' = "true"
      BY <2>2 DEF TakePacket, T
    <3>2. end \in Nat /\ end + T \in Nat /\ end + T <= Len(buffer)
      BY <2>1, <2>2, TagFacts DEF Complete, T
    <3>3. SubSeq(buffer, header_size + 1, end) \in Seq(0 .. 255)
      <4>1. \A i \in header_size + 1 .. end : i \in 1 .. Len(buffer)
        BY <2>1, <3>2, TagFacts
      <4>2. \A i \in header_size + 1 .. end : buffer[i] \in Byte
        BY <4>1, ElementOfSeq
      <4>3. header_size + 1 \in Int /\ end \in Int
        BY <2>1
      <4> HIDE DEF end
      <4>4. SubSeq(buffer, header_size + 1, end) \in Seq(Byte)
        BY <4>2, <4>3, SubSeqProperties
      <4> QED BY <4>4 DEF Byte
    <3>4. p \in PoppedPacket
      <4>1. buffer[VersionAt] \in SUPLA_PROTO_VERSION_MIN .. SUPLA_PROTO_VERSION
        BY <2>2 DEF VersionAccepted
      <4> HIDE DEF end
      <4> QED BY <4>1, <2>1, <3>3 DEF PoppedPacket
    <3> HIDE DEF p, end
    <3>5. received' \in Seq(PoppedPacket)
      BY <3>1, <3>4, AppendProperties
    <3>6. /\ in_buffer' \in Seq(Byte) /\ Len(in_buffer') <= Len(buffer)
          /\ begin_tag' = FALSE
      BY <3>1, <3>2, ShrinkType
    <3> QED BY <3>1, <3>5, <3>6 DEF Results
  <2> HIDE DEF Goal
  <2> QED BY <1>2, <1>3, <1>5, <2>2 DEF PopHeaded
<1>6. \/ \E e \in {"version_error", "data_error"} : Fail(buffer, e)
      \/ \E t \in BOOLEAN : (t => TagStands(buffer)) /\ Incomplete(buffer, t)
      \/ Len(buffer) >= header_size + T /\ PopHeaded(buffer) /\ TagStands(buffer)
  <2> HIDE DEF Goal
  <2>1. \/ ~tagged /\ Len(buffer) >= T /\ Fail(buffer, "data_error")
        \/ ~tagged /\ Len(buffer) < T /\ Incomplete(buffer, FALSE)
        \/ /\ tagged /\ Len(buffer) < header_size + T
           /\ Incomplete(buffer, TRUE)
        \/ tagged /\ Len(buffer) >= header_size + T /\ PopHeaded(buffer)
    BY Zenon DEF Pop, T
  <2> HIDE DEF tagged
  <2> QED BY <2>1, <1>4
<1> HIDE DEF Goal
<1>7. Goal
  BY <1>2, <1>3, <1>5, <1>6
<1> QED BY <1>7 DEF Goal

(* What it does when the buffer and the rest behind it are the frames of   *)
(* the packets that were not yet received.                                 *)

LEMMA PopWhenDone ==
  ASSUME NEW buffer \in Seq(Byte), Len(buffer) = 0, ~begin_tag, Pop(buffer)
  PROVE  in_buffer' = buffer /\ result' = "false" /\ received' = received
<1>1. T \in 1 .. 5
  BY TagFacts
<1>2. ~(begin_tag \/ (Len(buffer) >= SUPLA_TAG_SIZE /\ TagAt(buffer, 1)))
      /\ ~(Len(buffer) >= SUPLA_TAG_SIZE)
  BY <1>1 DEF T
<1>3. Incomplete(buffer, FALSE)
  BY <1>2, Zenon DEF Pop
<1> QED BY <1>3 DEF Incomplete

LEMMA PopNext ==
  ASSUME NEW buffer \in Seq(Byte), NEW rest \in Seq(Byte), NEW p \in Packet,
         NEW more \in Seq(Byte), buffer \o rest = Frame(p) \o more,
         received \in Seq(PoppedPacket), begin_tag \in BOOLEAN, Pop(buffer)
  PROVE  \/ /\ in_buffer' = buffer /\ received' = received /\ result' = "false"
            /\ Len(buffer) < Len(Frame(p))
         \/ /\ in_buffer' \o rest = more
            /\ received' = Append(received, p) /\ result' = "true"
         \/ /\ received' = received
            /\ result' \in {"version_error", "data_error"}
            /\ result' = IF p.version > SUPLA_PROTO_VERSION THEN "version_error"
                         ELSE IF Len(p.data) > SUPLA_MAX_DATA_SIZE THEN "data_error"
                         ELSE "true"
<1> DEFINE F == Frame(p)
           L == Len(p.data)
           Kept == /\ in_buffer' = buffer /\ received' = received
                   /\ result' = "false" /\ Len(buffer) < Len(Frame(p))
           Taken1 == /\ in_buffer' \o rest = more
                     /\ received' = Append(received, p) /\ result' = "true"
           Refused == /\ received' = received
                      /\ result' \in {"version_error", "data_error"}
                      /\ result' = IF p.version > SUPLA_PROTO_VERSION
                                   THEN "version_error"
                                   ELSE IF L > SUPLA_MAX_DATA_SIZE
                                   THEN "data_error" ELSE "true"
<1>1. /\ F \in Seq(Byte)
      /\ p.data \in Seq(Byte) /\ L \in Nat /\ L <= 255
      /\ p.version \in Byte /\ p.rr_id \in Byte
      /\ Len(F) = header_size + L + T
      /\ F[VersionAt] = p.version /\ F[RRidAt] = p.rr_id /\ F[SizeAt] = L
      /\ \A i \in 1 .. T : F[i] = sproto_tag[i]
      /\ \A i \in 1 .. L : F[header_size + i] = p.data[i]
      /\ \A i \in 1 .. T : F[header_size + L + i] = sproto_tag[i]
  BY FrameFacts
<1>2. /\ \A i \in 1 .. Len(buffer) : i <= Len(F) => buffer[i] = F[i]
      /\ Len(buffer) >= Len(F) => SubSeq(buffer, Len(F) + 1, Len(buffer)) \o rest = more
  <2>1. F \in Seq(Byte) /\ buffer \o rest = F \o more
    BY <1>1
  <2> HIDE DEF F
  <2> QED BY <2>1, Peel
<1>3. /\ header_size = T + 3 /\ VersionAt = T + 1 /\ RRidAt = T + 2 /\ SizeAt = T + 3
      /\ T \in 1 .. 5 /\ Len(sproto_tag) = T /\ sproto_tag \in Seq(Byte)
      /\ Len(buffer) \in Nat /\ Len(F) \in Nat
  <2>1. header_size = T + 3 /\ VersionAt = T + 1 /\ RRidAt = T + 2 /\ SizeAt = T + 3
    BY DEF header_size, VersionAt, RRidAt, SizeAt, T
  <2>2. F \in Seq(Byte)
    BY <1>1
  <2> HIDE DEF F
  <2> QED BY <2>1, <2>2, TagFacts
<1> HIDE DEF F, L
<1>4. Len(buffer) >= T => TagAt(buffer, 1)
  <2> SUFFICES ASSUME Len(buffer) >= T PROVE TagAt(buffer, 1)
    OBVIOUS
  <2>1. \A i \in 1 .. Len(sproto_tag) : buffer[0 + i] = sproto_tag[i]
    <3> SUFFICES ASSUME NEW i \in 1 .. T PROVE buffer[i] = sproto_tag[i]
      BY <1>3
    <3>1. i \in 1 .. Len(buffer) /\ i <= Len(F)
      BY <1>1, <1>3
    <3> QED BY <3>1, <1>1, <1>2
  <2>2. SubSeq(buffer, 0 + 1, 0 + Len(sproto_tag)) = sproto_tag
    <3>1. 0 \in Nat /\ 0 + Len(sproto_tag) <= Len(buffer) /\ sproto_tag \in Seq(Byte)
      BY <1>3
    <3> QED BY <2>1, <3>1, Slice
  <2>3. 0 + 1 = 1 /\ 0 + Len(sproto_tag) = 1 + SUPLA_TAG_SIZE - 1
    BY <1>3 DEF T
  <2> QED BY <2>2, <2>3 DEF TagAt
<1>5. ASSUME Len(buffer) >= header_size + T
      PROVE  /\ buffer[VersionAt] = p.version /\ buffer[RRidAt] = p.rr_id
             /\ buffer[SizeAt] = L
  <2>1. /\ VersionAt \in 1 .. Len(buffer) /\ VersionAt <= Len(F)
        /\ RRidAt \in 1 .. Len(buffer) /\ RRidAt <= Len(F)
        /\ SizeAt \in 1 .. Len(buffer) /\ SizeAt <= Len(F)
    <3>1. Len(buffer) >= T + 3 /\ Len(F) >= T + 3
      BY <1>1, <1>3, <1>5
    <3> QED BY <3>1, <1>3
  <2> QED BY <2>1, <1>1, <1>2
<1>6. ASSUME Len(buffer) >= header_size + T, Complete(buffer)
      PROVE  /\ Len(buffer) >= Len(F)
             /\ TagAt(buffer, header_size + buffer[SizeAt] + 1)
             /\ SubSeq(buffer, header_size + 1, header_size + buffer[SizeAt]) = p.data
  <2>1. buffer[SizeAt] = L /\ Len(buffer) >= header_size + L + T
    BY <1>5, <1>6 DEF Complete, T
  <2>2. Len(buffer) >= Len(F)
    BY <2>1, <1>1
  <2>3. \A i \in 1 .. Len(sproto_tag) : buffer[header_size + L + i] = sproto_tag[i]
    <3> SUFFICES ASSUME NEW i \in 1 .. T
                 PROVE  buffer[header_size + L + i] = sproto_tag[i]
      BY <1>3
    <3>1. header_size + L + i \in 1 .. Len(buffer) /\ header_size + L + i <= Len(F)
      BY <2>1, <1>1, <1>3
    <3> QED BY <3>1, <1>1, <1>2
  <2>4. header_size + L \in Nat /\ header_size + L + Len(sproto_tag) <= Len(buffer)
    BY <2>1, <1>1, <1>3
  <2>5. SubSeq(buffer, header_size + L + 1, header_size + L + Len(sproto_tag))
          = sproto_tag
    BY <2>3, <2>4, <1>3, Slice
  <2>6. header_size + L + Len(sproto_tag)
          = header_size + L + 1 + SUPLA_TAG_SIZE - 1
    BY <1>1, <1>3 DEF T
  <2>7. TagAt(buffer, header_size + buffer[SizeAt] + 1)
    BY <2>1, <2>5, <2>6 DEF TagAt
  <2>8. \A i \in 1 .. Len(p.data) : buffer[header_size + i] = p.data[i]
    <3> SUFFICES ASSUME NEW i \in 1 .. L PROVE buffer[header_size + i] = p.data[i]
      BY DEF L
    <3>1. header_size + i \in 1 .. Len(buffer) /\ header_size + i <= Len(F)
      BY <2>1, <1>1, <1>3
    <3> QED BY <3>1, <1>1, <1>2
  <2>9. header_size \in Nat /\ header_size + Len(p.data) <= Len(buffer)
    <3>1. header_size \in Nat /\ header_size + L <= Len(buffer)
      BY <2>1, <1>1, <1>3
    <3> QED BY <3>1 DEF L
  <2>10. SubSeq(buffer, header_size + 1, header_size + Len(p.data)) = p.data
    BY <2>8, <2>9, <1>1, Slice
  <2> QED BY <2>1, <2>2, <2>7, <2>10 DEF L
<1>7. ASSUME NEW t, Incomplete(buffer, t), Len(buffer) < header_size + L + T
      PROVE  Kept
  <2>1. Len(buffer) < Len(F)
    BY <1>1, <1>3, <1>7
  <2>2. Len(buffer) < Len(Frame(p))
    BY <2>1 DEF F
  <2> QED BY <1>7, <2>2 DEF Incomplete
<1>8. ASSUME Len(buffer) >= header_size + T, PopHeaded(buffer)
      PROVE  Kept \/ Taken1 \/ Refused
  <2>1. /\ buffer[VersionAt] = p.version /\ buffer[RRidAt] = p.rr_id
        /\ buffer[SizeAt] = L
    BY <1>5, <1>8
  <2>2. /\ p.version \in 1 .. SenderVersion /\ SenderVersion \in Nat
        /\ SUPLA_PROTO_VERSION \in Nat
    BY FramingAssumption DEF Packet
  <2>3. VersionAccepted(buffer) <=> ~(p.version > SUPLA_PROTO_VERSION)
    BY <2>1, <2>2 DEF VersionAccepted, SUPLA_PROTO_VERSION_MIN
  <2>4. TooLarge(buffer) <=> L > SUPLA_MAX_DATA_SIZE
    BY <2>1 DEF TooLarge
  <2>5. CASE ~VersionAccepted(buffer) /\ Fail(buffer, "version_error")
    BY <2>3, <2>5 DEF Fail
  <2>6. CASE VersionAccepted(buffer) /\ TooLarge(buffer) /\ Fail(buffer, "data_error")
    BY <2>3, <2>4, <2>6 DEF Fail
  <2>7. CASE Complete(buffer) /\ TakePacket(buffer)
    <3>1. /\ Len(buffer) >= Len(F)
          /\ SubSeq(buffer, header_size + 1, header_size + buffer[SizeAt]) = p.data
      BY <1>6, <1>8, <2>7
    <3>2. p = [version |-> p.version, rr_id |-> p.rr_id, data |-> p.data]
      BY DEF Packet
    <3>3. /\ received' = Append(received, p) /\ result' = "true"
          /\ in_buffer' = SubSeq(buffer, header_size + buffer[SizeAt] + SUPLA_TAG_SIZE + 1,
                                 Len(buffer))
      BY <2>1, <2>7, <3>1, <3>2 DEF TakePacket, Shrink
    <3>4. header_size + buffer[SizeAt] + SUPLA_TAG_SIZE + 1 = Len(F) + 1
      BY <2>1, <1>1 DEF T
    <3>5. in_buffer' \o rest = more
      BY <1>2, <3>1, <3>3, <3>4
    <3> QED BY <3>3, <3>5
  <2>8. CASE ~Complete(buffer) /\ Incomplete(buffer, TRUE)
    <3>1. Len(buffer) < header_size + L + T
      BY <2>1, <2>8, <1>1, <1>3 DEF Complete, T
    <3> QED BY <2>8, <3>1, <1>7
  <2> HIDE DEF Kept, Taken1, Refused
  <2> QED BY <1>6, <1>8, <2>5, <2>6, <2>7, <2>8 DEF PopHeaded
<1>9. \/ \E t : Incomplete(buffer, t) /\ Len(buffer) < header_size + T
      \/ Len(buffer) >= header_size + T /\ PopHeaded(buffer)
  <2> DEFINE tagged == begin_tag \/ (Len(buffer) >= T /\ TagAt(buffer, 1))
  <2>1. \/ ~tagged /\ Len(buffer) >= T /\ Fail(buffer, "data_error")
        \/ ~tagged /\ Len(buffer) < T /\ Incomplete(buffer, FALSE)
        \/ /\ tagged /\ Len(buffer) < header_size + T
           /\ Incomplete(buffer, TRUE)
        \/ tagged /\ Len(buffer) >= header_size + T /\ PopHeaded(buffer)
    BY Zenon DEF Pop, T
  <2>2. Len(buffer) < T => Len(buffer) < header_size + T
    BY <1>3
  <2> QED BY <2>1, <2>2, <1>4, Zenon
<1>10. Kept \/ Taken1 \/ Refused
  <2>1. Len(buffer) < header_size + T => Len(buffer) < header_size + L + T
    BY <1>1, <1>3
  <2> HIDE DEF Kept, Taken1, Refused
  <2> QED BY <2>1, <1>7, <1>8, <1>9
<1> QED BY <1>10 DEF L
-----------------------------------------------------------------------------
(* The buffers and the stream in one step.                                 *)

LEMMA TypeFacts ==
  ASSUME TypeOK
  PROVE  /\ open \in BOOLEAN /\ version \in 1 .. SenderVersion
         /\ out_buffer \in Seq(Byte) /\ stream \in Seq(Byte) /\ in_buffer \in Seq(Byte)
         /\ Len(in_buffer) < BUFFER_MAX_SIZE /\ Len(out_buffer) < BUFFER_MAX_SIZE
         /\ begin_tag \in BOOLEAN /\ torn \in BOOLEAN
         /\ result \in Results
         /\ sent \in Seq(Packet) /\ received \in Seq(PoppedPacket)
BY DEF TypeOK, Byte, Results

LEMMA NewPacketType ==
  ASSUME TypeOK, NEW data \in Payloads PROVE NewPacket(data) \in Packet
<1>1. version \in 1 .. SenderVersion /\ sent \in Seq(Packet)
  BY TypeFacts
<1>2. \A n \in Nat : (n % 255) + 1 \in 1 .. 255
  OBVIOUS
<1>3. Len(sent) \in Nat
  BY <1>1
<1> QED BY <1>1, <1>2, <1>3 DEF NewPacket, Packet

LEMMA WriteType ==
  ASSUME stream \in Seq(Byte), torn \in BOOLEAN, NEW bytes \in Seq(Byte),
         Write(bytes)
  PROVE  /\ stream' \in Seq(Byte) /\ torn' \in BOOLEAN
         /\ ~torn' => ~torn /\ stream' = stream \o bytes
<1>1. PICK n \in IF Lossy /\ ~torn THEN 0 .. Len(bytes) ELSE {Len(bytes)} :
        /\ stream' = stream \o SubSeq(bytes, 1, n)
        /\ torn' = (torn \/ n < Len(bytes))
  BY DEF Write
<1>2. n \in 0 .. Len(bytes)
  OBVIOUS
<1>3. SubSeq(bytes, 1, n) \in Seq(Byte)
  BY <1>2, Cut
<1>4. stream' \in Seq(Byte)
  BY <1>1, <1>3, ConcatProperties
<1>5. ASSUME ~torn' PROVE ~torn /\ stream' = stream \o bytes
  <2>1. ~torn /\ ~(n < Len(bytes))
    BY <1>1, <1>5
  <2>2. n = Len(bytes)
    BY <1>2, <2>1
  <2>3. SubSeq(bytes, 1, n) = bytes
    BY <2>2, SubSeqFull
  <2> QED BY <1>1, <2>1, <2>3
<1> QED BY <1>1, <1>4, <1>5

LEMMA PopOutType ==
  ASSUME stream \in Seq(Byte), torn \in BOOLEAN, NEW buffer \in Seq(Byte),
         PopOut(buffer)
  PROVE  /\ stream' \in Seq(Byte) /\ torn' \in BOOLEAN
         /\ out_buffer' \in Seq(Byte) /\ Len(out_buffer') <= Len(buffer)
         /\ ~torn' => ~torn /\ stream' \o out_buffer' = stream \o buffer
<1> DEFINE n == Taken(buffer)
           front == SubSeq(buffer, 1, n)
           back == SubSeq(buffer, n + 1, Len(buffer))
<1>1. n \in 0 .. Len(buffer)
  BY TakenType
<1>2. /\ front \in Seq(Byte) /\ back \in Seq(Byte) /\ Len(back) = Len(buffer) - n
      /\ front \o back = buffer
  <2> HIDE DEF n
  <2> QED BY <1>1, Cut
<1>3. Write(front) /\ out_buffer' = back
  BY DEF PopOut
<1> HIDE DEF front, back
<1>4. /\ stream' \in Seq(Byte) /\ torn' \in BOOLEAN
      /\ ~torn' => ~torn /\ stream' = stream \o front
  BY <1>2, <1>3, WriteType
<1>5. Associates(stream, front, back)
  BY <1>2, Assoc
<1>6. Len(back) <= Len(buffer)
  <2> HIDE DEF n
  <2> QED BY <1>1, <1>2
<1> QED BY <1>2, <1>3, <1>4, <1>5, <1>6 DEF Associates

(* The buffer that a read of n bytes leaves to sproto_pop_in_sdp.          *)
LEMMA ReadType ==
  ASSUME TypeOK, BeginTagIsCurrent, NEW n \in Nat, n <= Len(stream),
         n > 0 => Len(in_buffer) + n < BUFFER_MAX_SIZE
  PROVE  /\ in_buffer \o SubSeq(stream, 1, n) \in Seq(Byte)
         /\ Len(in_buffer \o SubSeq(stream, 1, n)) < BUFFER_MAX_SIZE
         /\ begin_tag => TagStands(in_buffer \o SubSeq(stream, 1, n))
         /\ SubSeq(stream, n + 1, Len(stream)) \in Seq(Byte)
         /\ (in_buffer \o SubSeq(stream, 1, n))
              \o (SubSeq(stream, n + 1, Len(stream)) \o out_buffer) = Unread
<1> DEFINE front == SubSeq(stream, 1, n)
           back == SubSeq(stream, n + 1, Len(stream))
           buffer == in_buffer \o front
<1>1. /\ stream \in Seq(Byte) /\ in_buffer \in Seq(Byte) /\ out_buffer \in Seq(Byte)
      /\ Len(in_buffer) < BUFFER_MAX_SIZE
  BY TypeFacts
<1>2. n \in 0 .. Len(stream)
  BY <1>1
<1>3. /\ front \in Seq(Byte) /\ Len(front) = n /\ back \in Seq(Byte)
      /\ front \o back = stream
  BY <1>1, <1>2, Cut
<1> HIDE DEF front, back
<1>4. buffer \in Seq(Byte) /\ Len(buffer) = Len(in_buffer) + n
  BY <1>1, <1>3, ConcatProperties
<1>5. Len(buffer) < BUFFER_MAX_SIZE
  <2> HIDE DEF buffer
  <2>1. CASE n > 0
    BY <1>4, <2>1
  <2>2. CASE n = 0
    BY <1>1, <1>4, <2>2
  <2> QED BY <2>1, <2>2
<1>6. ASSUME begin_tag PROVE TagStands(buffer)
  <2>1. Len(in_buffer) >= T /\ SubSeq(in_buffer, 1, 1 + SUPLA_TAG_SIZE - 1) = sproto_tag
    BY <1>6 DEF BeginTagIsCurrent, TagAt, T
  <2>2. 1 \in 1 .. Len(in_buffer) /\ T \in 1 .. Len(in_buffer) /\ 1 + SUPLA_TAG_SIZE - 1 = T
    BY <1>1, <2>1, TagFacts DEF T
  <2>3. SubSeq(buffer, 1, T) = SubSeq(in_buffer, 1, T)
    BY <1>1, <1>3, <2>2, SubSeqOfConcat1
  <2> HIDE DEF buffer
  <2>4. Len(buffer) >= T
    BY <1>1, <1>4, <2>1, <2>2
  <2> QED BY <2>1, <2>2, <2>3, <2>4 DEF TagStands, TagAt
<1>7. buffer \o (back \o out_buffer) = Unread
  <2>1. Associates(buffer, back, out_buffer)
    BY <1>1, <1>3, <1>4, Assoc
  <2>2. Associates(in_buffer, front, back)
    BY <1>1, <1>3, Assoc
  <2> QED BY <1>3, <2>1, <2>2 DEF Unread, Associates
<1> QED BY <1>3, <1>4, <1>5, <1>6, <1>7 DEF front, back
-----------------------------------------------------------------------------
(* Types, and the flag of the tag.                                         *)

LEMMA SetVersionType ==
  ASSUME TypeOK, NEW v \in Nat, SetVersion(v) PROVE version' \in 1 .. SenderVersion
<1>1. SenderVersion \in 1 .. 255
  BY FramingAssumption
<1> QED BY <1>1 DEF SetVersion, SUPLA_PROTO_VERSION_MIN

LEMMA SendType ==
  ASSUME TypeOK, NEW data \in Payloads, Send(data)
  PROVE  /\ stream' \in Seq(Byte) /\ torn' \in BOOLEAN
         /\ out_buffer' \in Seq(Byte) /\ Len(out_buffer') < BUFFER_MAX_SIZE
         /\ sent' \in Seq(Packet)
         /\ ~torn' => /\ ~torn
                      /\ stream' \o out_buffer'
                           = stream \o (out_buffer \o Frame(NewPacket(data)))
<1> DEFINE F == Frame(NewPacket(data))
           buffer == out_buffer \o F
<1>1. NewPacket(data) \in Packet
  BY NewPacketType
<1>2. F \in Seq(Byte)
  BY <1>1, FrameFacts
<1>3. /\ stream \in Seq(Byte) /\ torn \in BOOLEAN /\ out_buffer \in Seq(Byte)
      /\ sent \in Seq(Packet)
  BY TypeFacts
<1>4. PopOut(buffer) /\ sent' = Append(sent, NewPacket(data)) /\ Len(F) <= Room
  BY DEF Send
<1> HIDE DEF F
<1>5. buffer \in Seq(Byte) /\ Len(buffer) = Len(out_buffer) + Len(F)
  BY <1>2, <1>3, ConcatProperties
<1>6. Len(buffer) < BUFFER_MAX_SIZE
  <2>1. BUFFER_MAX_SIZE \in Nat
    BY FramingAssumption
  <2> HIDE DEF buffer
  <2> QED BY <2>1, <1>2, <1>3, <1>4, <1>5 DEF Room
<1> HIDE DEF buffer
<1>7. /\ stream' \in Seq(Byte) /\ torn' \in BOOLEAN
      /\ out_buffer' \in Seq(Byte) /\ Len(out_buffer') <= Len(buffer)
      /\ ~torn' => ~torn /\ stream' \o out_buffer' = stream \o buffer
  BY <1>3, <1>4, <1>5, PopOutType
<1>8. Len(out_buffer') < BUFFER_MAX_SIZE
  <2>1. BUFFER_MAX_SIZE \in Nat
    BY FramingAssumption
  <2> QED BY <2>1, <1>5, <1>6, <1>7
<1>9. sent' \in Seq(Packet)
  BY <1>1, <1>3, <1>4, AppendProperties
<1> QED BY <1>7, <1>8, <1>9 DEF buffer, F

LEMMA FlushType ==
  ASSUME TypeOK, Flush
  PROVE  /\ stream' \in Seq(Byte) /\ torn' \in BOOLEAN
         /\ out_buffer' \in Seq(Byte) /\ Len(out_buffer') < BUFFER_MAX_SIZE
         /\ ~torn' => ~torn /\ stream' \o out_buffer' = stream \o out_buffer
<1>1. /\ stream \in Seq(Byte) /\ torn \in BOOLEAN /\ out_buffer \in Seq(Byte)
      /\ Len(out_buffer) < BUFFER_MAX_SIZE
  BY TypeFacts
<1>2. PopOut(out_buffer)
  BY DEF Flush
<1>3. /\ stream' \in Seq(Byte) /\ torn' \in BOOLEAN
      /\ out_buffer' \in Seq(Byte) /\ Len(out_buffer') <= Len(out_buffer)
      /\ ~torn' => ~torn /\ stream' \o out_buffer' = stream \o out_buffer
  BY <1>1, <1>2, PopOutType
<1>4. BUFFER_MAX_SIZE \in Nat
  BY FramingAssumption
<1>5. Len(out_buffer') < BUFFER_MAX_SIZE
  BY <1>1, <1>3, <1>4
<1> QED BY <1>3, <1>5

LEMMA IterateType ==
  ASSUME TypeOK, BeginTagIsCurrent, NEW n \in Nat, Iterate(n)
  PROVE  /\ stream' \in Seq(Byte)
         /\ in_buffer' \in Seq(Byte) /\ Len(in_buffer') < BUFFER_MAX_SIZE
         /\ begin_tag' \in BOOLEAN /\ (begin_tag' => TagStands(in_buffer'))
         /\ result' \in Results /\ received' \in Seq(PoppedPacket)
<1> DEFINE buffer == in_buffer \o SubSeq(stream, 1, n)
<1>1. /\ n <= Len(stream) /\ (n > 0 => Len(in_buffer) + n < BUFFER_MAX_SIZE)
      /\ stream' = SubSeq(stream, n + 1, Len(stream)) /\ Pop(buffer)
  BY DEF Iterate
<1>2. /\ buffer \in Seq(Byte) /\ Len(buffer) < BUFFER_MAX_SIZE
      /\ begin_tag => TagStands(buffer)
      /\ stream' \in Seq(Byte)
  BY <1>1, ReadType
<1>3. begin_tag \in BOOLEAN /\ received \in Seq(PoppedPacket)
  BY TypeFacts
<1> HIDE DEF buffer
<1>4. /\ in_buffer' \in Seq(Byte) /\ Len(in_buffer') <= Len(buffer)
      /\ begin_tag' \in BOOLEAN /\ (begin_tag' => TagStands(in_buffer'))
      /\ result' \in Results /\ received' \in Seq(PoppedPacket)
  BY <1>1, <1>2, <1>3, PopType
<1>5. BUFFER_MAX_SIZE \in Nat
  BY FramingAssumption
<1>6. Len(in_buffer') < BUFFER_MAX_SIZE
  BY <1>2, <1>4, <1>5
<1> QED BY <1>2, <1>4, <1>6

LEMMA TypeStep ==
  ASSUME TypeOK, BeginTagIsCurrent, [Next]_vars
  PROVE  TypeOK' /\ BeginTagIsCurrent'
<1> DEFINE Typed ==
             /\ open' \in BOOLEAN /\ version' \in 1 .. SenderVersion
             /\ out_buffer' \in Seq(Byte) /\ stream' \in Seq(Byte)
             /\ in_buffer' \in Seq(Byte)
             /\ Len(in_buffer') < BUFFER_MAX_SIZE /\ Len(out_buffer') < BUFFER_MAX_SIZE
             /\ begin_tag' \in BOOLEAN /\ torn' \in BOOLEAN
             /\ result' \in Results
             /\ sent' \in Seq(Packet) /\ received' \in Seq(PoppedPacket)
             /\ (begin_tag' => TagStands(in_buffer'))
<1>1. /\ open \in BOOLEAN /\ version \in 1 .. SenderVersion
      /\ out_buffer \in Seq(Byte) /\ stream \in Seq(Byte) /\ in_buffer \in Seq(Byte)
      /\ Len(in_buffer) < BUFFER_MAX_SIZE /\ Len(out_buffer) < BUFFER_MAX_SIZE
      /\ begin_tag \in BOOLEAN /\ torn \in BOOLEAN
      /\ result \in Results
      /\ sent \in Seq(Packet) /\ received \in Seq(PoppedPacket)
      /\ (begin_tag => TagStands(in_buffer))
  BY TypeFacts DEF BeginTagIsCurrent, TagStands, T
<1>2. ASSUME NEW v \in 0 .. SenderVersion, SetVersion(v) PROVE Typed
  <2>1. v \in Nat
    BY FramingAssumption
  <2>2. version' \in 1 .. SenderVersion
    BY <1>2, <2>1, SetVersionType
  <2> QED BY <1>1, <1>2, <2>2 DEF SetVersion, TagStands, TagAt
<1>3. ASSUME NEW data \in Payloads, Send(data) PROVE Typed
  <2>1. /\ stream' \in Seq(Byte) /\ torn' \in BOOLEAN
        /\ out_buffer' \in Seq(Byte) /\ Len(out_buffer') < BUFFER_MAX_SIZE
        /\ sent' \in Seq(Packet)
    BY <1>3, SendType
  <2> QED BY <1>1, <1>3, <2>1 DEF Send, TagStands, TagAt
<1>4. ASSUME NEW data \in Payloads, SendFails(data) PROVE Typed
  BY <1>1, <1>4 DEF SendFails, TagStands, TagAt
<1>5. ASSUME Flush PROVE Typed
  <2>1. /\ stream' \in Seq(Byte) /\ torn' \in BOOLEAN
        /\ out_buffer' \in Seq(Byte) /\ Len(out_buffer') < BUFFER_MAX_SIZE
    BY <1>5, FlushType
  <2> QED BY <1>1, <1>5, <2>1 DEF Flush, TagStands, TagAt
<1>6. ASSUME NEW n \in 0 .. SRPC_BUFFER_SIZE, Iterate(n) PROVE Typed
  <2>1. n \in Nat
    OBVIOUS
  <2>2. /\ stream' \in Seq(Byte)
        /\ in_buffer' \in Seq(Byte) /\ Len(in_buffer') < BUFFER_MAX_SIZE
        /\ begin_tag' \in BOOLEAN /\ (begin_tag' => TagStands(in_buffer'))
        /\ result' \in Results /\ received' \in Seq(PoppedPacket)
    BY <1>6, <2>1, IterateType
  <2> QED BY <1>1, <1>6, <2>2 DEF Iterate, senderVars
<1>7. ASSUME NEW n \in 0 .. SRPC_BUFFER_SIZE, Overflow(n) PROVE Typed
  <2>1. /\ n \in 0 .. Len(stream) /\ stream' = SubSeq(stream, n + 1, Len(stream))
        /\ result' = "overflow"
        /\ UNCHANGED <<senderVars, torn, in_buffer, begin_tag, received>>
    BY <1>1, <1>7 DEF Overflow
  <2>2. stream' \in Seq(Byte)
    BY <1>1, <2>1, Cut
  <2> QED BY <1>1, <2>1, <2>2 DEF senderVars, Results, TagStands, TagAt
<1>8. ASSUME UNCHANGED vars PROVE Typed
  BY <1>1, <1>8 DEF vars, senderVars, TagStands, TagAt
<1>9. Typed
  <2> HIDE DEF Typed
  <2> QED BY <1>2, <1>3, <1>4, <1>5, <1>6, <1>7, <1>8 DEF Next, Receive
<1> QED BY <1>9 DEF TypeOK, BeginTagIsCurrent, TagStands, TagAt, Byte, Results, T

LEMMA TypeInit == Init => TypeOK /\ BeginTagIsCurrent
<1>1. BUFFER_MAX_SIZE \in Nat \ {0} /\ SenderVersion \in 1 .. 255
  BY FramingAssumption
<1> SUFFICES ASSUME Init PROVE TypeOK /\ BeginTagIsCurrent
  OBVIOUS
<1>2. /\ open = TRUE /\ version = SenderVersion /\ torn = FALSE /\ begin_tag = FALSE
      /\ out_buffer = <<>> /\ stream = <<>> /\ in_buffer = <<>>
      /\ result = "false" /\ sent = <<>> /\ received = <<>>
  BY DEF Init
<1>3. Len(<<>>) < BUFFER_MAX_SIZE
  BY <1>1, EmptySeq
<1>4. version \in 1 .. SenderVersion
  BY <1>1, <1>2
<1>5. <<>> \in Seq(Packet) /\ <<>> \in Seq(PoppedPacket) /\ <<>> \in Seq(0 .. 255)
  BY EmptySeq
<1>6. /\ {out_buffer, stream, in_buffer} \subseteq Seq(0 .. 255)
      /\ Len(in_buffer) < BUFFER_MAX_SIZE /\ Len(out_buffer) < BUFFER_MAX_SIZE
  BY <1>2, <1>3, <1>5
<1>7. sent \in Seq(Packet) /\ received \in Seq(PoppedPacket)
  BY <1>2, <1>5
<1> QED BY <1>2, <1>4, <1>6, <1>7 DEF TypeOK, BeginTagIsCurrent

(* Every buffer holds bytes and stays below its largest size, and what is  *)
(* popped is a packet of a version that is accepted.                       *)
THEOREM TypeCorrect == Spec => []TypeOK
<1>1. TypeOK /\ BeginTagIsCurrent /\ [Next]_vars => (TypeOK /\ BeginTagIsCurrent)'
  BY TypeStep
<1> QED BY <1>1, TypeInit, PTL DEF Spec

(* The receiver never skips the look at the tag without the tag at the head *)
(* of the buffer (begin_tag, sproto_shrink_in_buffer).                     *)
THEOREM BeginTagStaysCurrent == Spec => []BeginTagIsCurrent
<1>1. TypeOK /\ BeginTagIsCurrent /\ [Next]_vars => (TypeOK /\ BeginTagIsCurrent)'
  BY TypeStep
<1> QED BY <1>1, TypeInit, PTL DEF Spec
-----------------------------------------------------------------------------
(* Nothing is lost, and an error is deserved.                              *)

Correct == TypeOK /\ BeginTagIsCurrent /\ FramesKept /\ ErrorIsDeserved

Both == Packet \cup PoppedPacket

LEMMA KeptFacts ==
  ASSUME TypeOK, FramesKept, Running, ~torn
  PROVE  /\ received \in Seq(Both) /\ sent \in Seq(Both)
         /\ IsPrefix(received, sent) /\ Len(received) <= Len(sent)
         /\ Unread = FlattenSeq(Pending(sent, Len(received)))
<1>1. sent \in Seq(Packet) /\ received \in Seq(PoppedPacket)
  BY TypeFacts
<1>2. sent \in Seq(Both) /\ received \in Seq(Both)
  BY <1>1, SeqMonotonic DEF Both
<1>3. /\ IsPrefix(received, sent)
      /\ Unread = FlattenSeq(Pending(sent, Len(received)))
  BY DEF FramesKept, Pending
<1> QED BY <1>2, <1>3, PrefixFacts

(* A packet more behind those that are on their way.                       *)
LEMMA SendKeeps ==
  ASSUME TypeOK, FramesKept, ErrorIsDeserved, NEW data \in Payloads, Send(data)
  PROVE  FramesKept' /\ ErrorIsDeserved'
<1> DEFINE p == NewPacket(data)
           k == Len(received)
<1>1. /\ result' = result /\ received' = received /\ in_buffer' = in_buffer
      /\ sent' = Append(sent, p)
  BY DEF Send
<1>2. p \in Packet
  BY NewPacketType
<1>3. /\ sent \in Seq(Packet) /\ received \in Seq(PoppedPacket) /\ k \in Nat
      /\ in_buffer \in Seq(Byte) /\ stream \in Seq(Byte) /\ out_buffer \in Seq(Byte)
  BY TypeFacts
<1>4. sent \in Seq(Both) /\ received \in Seq(Both) /\ p \in Both
  BY <1>2, <1>3, SeqMonotonic DEF Both
<1>5. /\ stream' \in Seq(Byte) /\ out_buffer' \in Seq(Byte)
      /\ ~torn' => ~torn /\ stream' \o out_buffer' = stream \o (out_buffer \o Frame(p))
  BY SendType
<1> HIDE DEF p
<1>6. ASSUME Running', ~torn' PROVE /\ IsPrefix(received', sent')
                                    /\ Unread' = FlattenSeq(Pending(sent', Len(received')))
  <2>1. Running /\ ~torn
    BY <1>1, <1>5, <1>6 DEF Running
  <2>2. /\ IsPrefix(received, sent) /\ k <= Len(sent)
        /\ Unread = FlattenSeq(Pending(sent, k))
    BY <2>1, KeptFacts
  <2>3. IsPrefix(received, Append(sent, p))
    BY <1>4, <2>2, PrefixGrows
  <2>4. FlattenSeq(Pending(Append(sent, p), k)) = Unread \o Frame(p)
    <3> HIDE DEF k
    <3> QED BY <1>2, <1>3, <2>2, LastFrame
  <2>5. Frame(p) \in Seq(Byte)
    BY <1>2, FrameFacts
  <2>6. Unread' = Unread \o Frame(p)
    <3> DEFINE u == stream \o out_buffer
    <3>1. u \in Seq(Byte)
      BY <1>3, ConcatProperties
    <3>2. Associates(in_buffer, stream', out_buffer')
      BY <1>3, <1>5, Assoc
    <3>3. Associates(stream, out_buffer, Frame(p))
      BY <1>3, <2>5, Assoc
    <3>4. Associates(in_buffer, u, Frame(p))
      <4> HIDE DEF u
      <4> QED BY <1>3, <2>5, <3>1, Assoc
    <3>5. Associates(in_buffer, stream, out_buffer)
      BY <1>3, Assoc
    <3>6. Unread' = in_buffer \o (u \o Frame(p))
      BY <1>1, <1>5, <1>6, <3>2, <3>3 DEF Unread, Associates
    <3>7. in_buffer \o u = Unread
      BY <3>5 DEF Unread, Associates
    <3> HIDE DEF u
    <3> QED BY <3>4, <3>6, <3>7 DEF Associates
  <2> QED BY <1>1, <2>3, <2>4, <2>6
<1>7. ASSUME result' \in {"version_error", "data_error"}, ~torn'
      PROVE  /\ Len(sent') > Len(received') /\ IsPrefix(received', sent')
             /\ sent'[Len(received') + 1] = sent[k + 1]
  <2>1. Len(sent) > k /\ IsPrefix(received, sent)
    BY <1>1, <1>5, <1>7 DEF ErrorIsDeserved
  <2>2. IsPrefix(received, Append(sent, p))
    BY <1>4, <2>1, PrefixGrows
  <2>3. /\ Len(Append(sent, p)) = Len(sent) + 1
        /\ \A i \in 1 .. Len(sent) : Append(sent, p)[i] = sent[i]
    BY <1>4, AppendProperties
  <2>4. k + 1 \in 1 .. Len(sent) /\ Len(sent) + 1 > k
    BY <1>3, <2>1
  <2> QED BY <1>1, <2>2, <2>3, <2>4
<1>8. FramesKept'
  BY <1>6 DEF FramesKept, Pending
<1>9. ErrorIsDeserved'
  BY <1>1, <1>5, <1>7 DEF ErrorIsDeserved
<1> QED BY <1>8, <1>9

LEMMA FlushKeeps ==
  ASSUME TypeOK, FramesKept, ErrorIsDeserved, Flush
  PROVE  FramesKept' /\ ErrorIsDeserved'
<1>1. /\ result' = result /\ received' = received /\ in_buffer' = in_buffer
      /\ sent' = sent
  BY DEF Flush
<1>2. in_buffer \in Seq(Byte) /\ stream \in Seq(Byte) /\ out_buffer \in Seq(Byte)
  BY TypeFacts
<1>3. /\ stream' \in Seq(Byte) /\ out_buffer' \in Seq(Byte)
      /\ ~torn' => ~torn /\ stream' \o out_buffer' = stream \o out_buffer
  BY FlushType
<1>4. ~torn' => Unread' = Unread
  <2>1. Associates(in_buffer, stream', out_buffer')
    BY <1>2, <1>3, Assoc
  <2>2. Associates(in_buffer, stream, out_buffer)
    BY <1>2, Assoc
  <2> QED BY <1>1, <1>3, <2>1, <2>2 DEF Unread, Associates
<1> QED BY <1>1, <1>3, <1>4 DEF FramesKept, ErrorIsDeserved, Running

(* A read takes nothing, or the next packet, or gives up on it.            *)

\* Nothing is received, or the next packet of those that were sent.
TakesNext ==
  \/ received' = received
  \/ /\ Len(received) < Len(sent)
     /\ received' = Append(received, sent[Len(received) + 1])

\* A read that took no packet has left no whole one in the buffer: the bytes there
\* are fewer than the next frame has, and the receiver may wait for more.  In
\* sproto_pop_in_sdp each return of SUPLA_RESULT_FALSE is for want of bytes.
NoFrameWaits ==
  result = "false" /\ ~torn /\ Len(received) < Len(sent) =>
    Len(in_buffer) < Len(Frame(sent[Len(received) + 1]))

LEMMA IterateKeeps ==
  ASSUME TypeOK, BeginTagIsCurrent, FramesKept, NEW n \in Nat, Iterate(n)
  PROVE  /\ FramesKept' /\ ErrorIsDeserved' /\ NoFrameWaits'
         /\ ~torn => TakesNext
<1> DEFINE buffer == in_buffer \o SubSeq(stream, 1, n)
           k == Len(received)
<1>1. /\ Running /\ n <= Len(stream)
      /\ n > 0 => Len(in_buffer) + n < BUFFER_MAX_SIZE
      /\ stream' = SubSeq(stream, n + 1, Len(stream)) /\ Pop(buffer)
      /\ sent' = sent /\ out_buffer' = out_buffer /\ torn' = torn
  BY DEF Iterate, senderVars
<1> DEFINE rest == stream' \o out_buffer
<1>2. /\ buffer \in Seq(Byte) /\ (begin_tag => TagStands(buffer))
      /\ stream' \in Seq(Byte) /\ buffer \o rest = Unread
  BY <1>1, ReadType
<1>3. /\ begin_tag \in BOOLEAN /\ received \in Seq(PoppedPacket)
      /\ sent \in Seq(Packet) /\ out_buffer \in Seq(Byte) /\ k \in Nat
  BY TypeFacts
<1>4. in_buffer' \in Seq(Byte) /\ result' \in Results
  BY IterateType
<1> HIDE DEF buffer
<1>5. rest \in Seq(Byte)
  BY <1>2, <1>3, ConcatProperties
<1>6. Unread' = in_buffer' \o rest
  <2>1. Associates(in_buffer', stream', out_buffer)
    BY <1>2, <1>3, <1>4, Assoc
  <2> QED BY <1>1, <2>1 DEF Unread, Associates
<1> HIDE DEF rest
<1> SUFFICES ASSUME ~torn
             PROVE  FramesKept' /\ ErrorIsDeserved' /\ NoFrameWaits' /\ TakesNext
  BY <1>1 DEF FramesKept, ErrorIsDeserved, NoFrameWaits
<1>7. /\ received \in Seq(Both) /\ sent \in Seq(Both)
      /\ IsPrefix(received, sent) /\ k <= Len(sent)
      /\ buffer \o rest = FlattenSeq(Pending(sent, k))
  BY <1>1, <1>2, KeptFacts
<1>8. ASSUME IsPrefix(received', sent),
             in_buffer' \o rest = FlattenSeq(Pending(sent, Len(received'))),
             result' \in {"true", "false"}
      PROVE  FramesKept' /\ ErrorIsDeserved'
  <2>1. Unread' = FlattenSeq(Pending(sent', Len(received')))
    BY <1>1, <1>6, <1>8
  <2> QED BY <1>1, <1>8, <2>1 DEF FramesKept, ErrorIsDeserved, Pending
<1>9. CASE k = Len(sent)
  <2>1. FlattenSeq(Pending(sent, k)) = <<>>
    <3>1. Pending(sent, k) = <<>>
      <4> HIDE DEF k
      <4> QED BY <1>3, <1>9, PendingNone
    <3> QED BY <3>1, FlattenEmpty
  <2>2. buffer = <<>>
    BY <1>2, <1>5, <1>7, <2>1, ConcatEqualIffEmpty
  <2>3. Len(buffer) = 0 /\ ~begin_tag
    BY <1>2, <2>2, TagFacts DEF TagStands
  <2>4. in_buffer' = buffer /\ result' = "false" /\ received' = received
    BY <1>1, <1>2, <2>3, PopWhenDone
  <2>5. NoFrameWaits'
    BY <1>1, <1>9, <2>4 DEF NoFrameWaits
  <2> QED BY <1>7, <1>8, <2>4, <2>5 DEF TakesNext
<1>10. CASE k < Len(sent)
  <2> DEFINE p == sent[k + 1]
             more == FlattenSeq(Pending(sent, k + 1))
  <2>1. /\ p \in Packet /\ more \in Seq(Byte)
        /\ FlattenSeq(Pending(sent, k)) = Frame(p) \o more
    <3> HIDE DEF k
    <3> QED BY <1>3, <1>10, NextFrame
  <2> HIDE DEF p, more
  <2>2. buffer \o rest = Frame(p) \o more
    BY <1>7, <2>1
  <2>3. \/ /\ in_buffer' = buffer /\ received' = received /\ result' = "false"
           /\ Len(buffer) < Len(Frame(p))
        \/ /\ in_buffer' \o rest = more
           /\ received' = Append(received, p) /\ result' = "true"
        \/ /\ received' = received
           /\ result' \in {"version_error", "data_error"}
           /\ result' = IF p.version > SUPLA_PROTO_VERSION THEN "version_error"
                        ELSE IF Len(p.data) > SUPLA_MAX_DATA_SIZE THEN "data_error"
                        ELSE "true"
    <3>1. received \in Seq(PoppedPacket) /\ begin_tag \in BOOLEAN /\ Pop(buffer)
      BY <1>1, <1>3
    <3> QED BY <1>2, <1>5, <2>1, <2>2, <3>1, PopNext
  <2>4. CASE /\ in_buffer' = buffer /\ received' = received /\ result' = "false"
             /\ Len(buffer) < Len(Frame(p))
    <3>1. NoFrameWaits'
      BY <1>1, <2>4 DEF NoFrameWaits, p
    <3> QED BY <1>7, <1>8, <2>4, <3>1 DEF TakesNext
  <2>5. CASE /\ in_buffer' \o rest = more
             /\ received' = Append(received, p) /\ result' = "true"
    <3>1. IsPrefix(Append(received, p), sent)
      <4>1. p \in Both
        BY <2>1 DEF Both
      <4> QED BY <1>7, <1>10, <4>1, PrefixGrows DEF p
    <3>2. Len(Append(received, p)) = k + 1
      <4>1. p \in Both
        BY <2>1 DEF Both
      <4> QED BY <1>7, <4>1, AppendProperties
    <3>3. FramesKept' /\ ErrorIsDeserved'
      BY <1>8, <2>5, <3>1, <3>2 DEF more
    <3>4. TakesNext
      BY <1>10, <2>5 DEF p, TakesNext
    <3>5. NoFrameWaits'
      BY <2>5 DEF NoFrameWaits
    <3> QED BY <3>3, <3>4, <3>5
  <2>6. CASE /\ received' = received
             /\ result' \in {"version_error", "data_error"}
             /\ result' = IF p.version > SUPLA_PROTO_VERSION THEN "version_error"
                          ELSE IF Len(p.data) > SUPLA_MAX_DATA_SIZE THEN "data_error"
                          ELSE "true"
    <3>1. FramesKept'
      BY <2>6 DEF FramesKept, Running
    <3>2. ErrorIsDeserved'
      BY <1>1, <1>7, <1>10, <2>6 DEF ErrorIsDeserved, p
    <3>3. TakesNext
      BY <2>6 DEF TakesNext
    <3>4. NoFrameWaits'
      BY <2>6 DEF NoFrameWaits
    <3> QED BY <3>1, <3>2, <3>3, <3>4
  <2> QED BY <2>3, <2>4, <2>5, <2>6
<1> QED BY <1>3, <1>7, <1>9, <1>10

LEMMA CorrectStep == Correct /\ [Next]_vars => Correct'
<1> SUFFICES ASSUME Correct, [Next]_vars PROVE Correct'
  OBVIOUS
<1>1. TypeOK /\ BeginTagIsCurrent /\ FramesKept /\ ErrorIsDeserved
  BY DEF Correct
<1>2. TypeOK' /\ BeginTagIsCurrent'
  BY <1>1, TypeStep
<1> DEFINE Kept == FramesKept' /\ ErrorIsDeserved'
<1>3. ASSUME UNCHANGED <<in_buffer, stream, out_buffer, torn, result, sent, received>>
      PROVE  Kept
  BY <1>1, <1>3 DEF FramesKept, ErrorIsDeserved, Running, Unread
<1>4. ASSUME NEW v \in 0 .. SenderVersion, SetVersion(v) PROVE Kept
  BY <1>3, <1>4 DEF SetVersion
<1>5. ASSUME NEW data \in Payloads, Send(data) PROVE Kept
  BY <1>1, <1>5, SendKeeps
<1>6. ASSUME NEW data \in Payloads, SendFails(data) PROVE Kept
  BY <1>3, <1>6 DEF SendFails
<1>7. ASSUME Flush PROVE Kept
  BY <1>1, <1>7, FlushKeeps
<1>8. ASSUME NEW n \in 0 .. SRPC_BUFFER_SIZE, Iterate(n) PROVE Kept
  BY <1>1, <1>8, IterateKeeps
<1>9. ASSUME NEW n \in 0 .. SRPC_BUFFER_SIZE, Overflow(n) PROVE Kept
  <2>1. result' = "overflow"
    BY <1>9 DEF Overflow
  <2> QED BY <2>1 DEF FramesKept, ErrorIsDeserved, Running
<1>10. ASSUME UNCHANGED vars PROVE Kept
  BY <1>3, <1>10 DEF vars, senderVars
<1>11. Kept
  <2> HIDE DEF Kept
  <2> QED BY <1>4, <1>5, <1>6, <1>7, <1>8, <1>9, <1>10 DEF Next, Receive
<1> QED BY <1>2, <1>11 DEF Correct

LEMMA CorrectInit == Init => Correct
<1> SUFFICES ASSUME Init PROVE Correct
  OBVIOUS
<1>1. TypeOK /\ BeginTagIsCurrent
  BY TypeInit
<1>2. /\ in_buffer = <<>> /\ stream = <<>> /\ out_buffer = <<>>
      /\ sent = <<>> /\ received = <<>> /\ result = "false"
  BY DEF Init
<1>3. Unread = <<>>
  <2>1. <<>> \o <<>> = <<>>
    BY EmptySeq, ConcatEmptySeq
  <2> QED BY <1>2, <2>1 DEF Unread
<1>4. FlattenSeq(Pending(sent, Len(received))) = <<>>
  <2>1. sent \in Seq(Packet) /\ Len(received) \in Nat /\ Len(received) = Len(sent)
    BY <1>2
  <2>2. Pending(sent, Len(received)) = <<>>
    BY <2>1, PendingNone
  <2> QED BY <2>2, FlattenEmpty
<1>5. IsPrefix(received, sent)
  BY <1>2 DEF IsPrefix
<1>6. FramesKept
  BY <1>3, <1>4, <1>5 DEF FramesKept, Pending
<1>7. ErrorIsDeserved
  BY <1>2 DEF ErrorIsDeserved
<1> QED BY <1>1, <1>6, <1>7 DEF Correct

(* Whatever the tag, the limits and the data are, and however the stream is *)
(* cut into reads: the packets received are the first of those sent, and   *)
(* the bytes between the peers are the frames of the others, as long as the *)
(* connection stands and no write was cut short.                           *)
THEOREM FramesAreKept == Spec => []FramesKept
<1>1. Correct => FramesKept
  BY DEF Correct
<1> QED BY <1>1, CorrectInit, CorrectStep, PTL DEF Spec

(* The receiver refuses only a packet whose version or size it does not    *)
(* take, and only when it has received all those before it.                *)
THEOREM ErrorsAreDeserved == Spec => []ErrorIsDeserved
<1>1. Correct => ErrorIsDeserved
  BY DEF Correct
<1> QED BY <1>1, CorrectInit, CorrectStep, PTL DEF Spec

LEMMA NoFrameWaitsStep ==
  ASSUME Correct, NoFrameWaits, [Next]_vars
  PROVE  NoFrameWaits'
<1>1. TypeOK /\ BeginTagIsCurrent /\ FramesKept
  BY DEF Correct
<1>2. /\ received \in Seq(PoppedPacket) /\ sent \in Seq(Packet)
      /\ in_buffer \in Seq(Byte) /\ stream \in Seq(Byte) /\ out_buffer \in Seq(Byte)
  BY <1>1, TypeFacts
<1>3. ASSUME UNCHANGED <<in_buffer, torn, result, sent, received>>
      PROVE  NoFrameWaits'
  BY <1>3 DEF NoFrameWaits
<1>4. ASSUME NEW data \in Payloads, Send(data) PROVE NoFrameWaits'
  <2> DEFINE p == NewPacket(data)
  <2>1. /\ sent' = Append(sent, p) /\ UNCHANGED <<in_buffer, result, received>>
        /\ torn => torn'
    BY <1>4 DEF Send, PopOut, Write
  <2>2. p \in Packet
    BY <1>1, NewPacketType
  <2> HIDE DEF p
  <2>3. /\ Len(sent) \in Nat /\ Len(received) \in Nat
        /\ Len(sent') = Len(sent) + 1 /\ sent'[Len(sent) + 1] = p
        /\ \A i \in 1 .. Len(sent) : sent'[i] = sent[i]
    BY <1>2, <2>1, <2>2, AppendProperties, LenProperties
  <2> SUFFICES ASSUME result = "false", ~torn, Len(received) < Len(sent'),
                      torn \in BOOLEAN
               PROVE  Len(in_buffer) < Len(Frame(sent'[Len(received) + 1]))
    BY <1>1, <2>1, TypeFacts DEF NoFrameWaits
  <2>4. CASE Len(received) < Len(sent)
    <3>1. sent'[Len(received) + 1] = sent[Len(received) + 1]
      BY <2>3, <2>4
    <3> QED BY <2>4, <3>1 DEF NoFrameWaits
  <2>5. CASE Len(received) >= Len(sent)
    <3>1. /\ Len(received) = Len(sent)
          /\ in_buffer \o stream \o out_buffer = FlattenSeq(Pending(sent, Len(received)))
      BY <1>1, <2>3, <2>5, KeptFacts DEF Running, Unread
    <3>2. FlattenSeq(Pending(sent, Len(received))) = <<>>
      <4>1. Pending(sent, Len(received)) = <<>>
        BY <1>2, <2>3, <3>1, PendingNone
      <4> QED BY <4>1, FlattenEmpty
    <3>3. in_buffer = <<>>
      <4>1. in_buffer \o stream \in Seq(Byte)
        BY <1>2, ConcatProperties
      <4>2. in_buffer \o stream = <<>>
        BY <1>2, <3>1, <3>2, <4>1, ConcatEqualIffEmpty
      <4> QED BY <1>2, <4>2, ConcatEqualIffEmpty
    <3>4. sent'[Len(received) + 1] = p
      BY <2>3, <3>1
    <3>5. Len(in_buffer) = 0
      BY <3>3
    <3>6. Len(Frame(p)) > 0
      <4>1. PICK l \in Nat : Len(Frame(p)) = header_size + l + T
        BY <2>2, FrameFacts
      <4>2. header_size = T + 3 /\ T \in Nat
        BY TagFacts DEF header_size, T
      <4> QED BY <4>1, <4>2
    <3> QED BY <3>4, <3>5, <3>6
  <2> QED BY <2>3, <2>4, <2>5
<1>5. ASSUME Flush PROVE NoFrameWaits'
  <2>1. torn => torn'
    BY <1>5 DEF Flush, PopOut, Write
  <2>2. UNCHANGED <<in_buffer, result, sent, received>> /\ torn \in BOOLEAN
    BY <1>1, <1>5, TypeFacts DEF Flush
  <2> QED BY <2>1, <2>2 DEF NoFrameWaits
<1>6. ASSUME NEW n \in 0 .. SRPC_BUFFER_SIZE, Iterate(n) PROVE NoFrameWaits'
  <2>1. n \in Nat
    OBVIOUS
  <2> QED BY <1>1, <1>6, <2>1, IterateKeeps
<1>7. ASSUME NEW n \in 0 .. SRPC_BUFFER_SIZE, Overflow(n) PROVE NoFrameWaits'
  <2>1. result' = "overflow"
    BY <1>7 DEF Overflow
  <2> QED BY <2>1 DEF NoFrameWaits
<1>8. ASSUME NEW v \in 0 .. SenderVersion, SetVersion(v) PROVE NoFrameWaits'
  BY <1>3, <1>8 DEF SetVersion
<1>9. ASSUME NEW data \in Payloads, SendFails(data) PROVE NoFrameWaits'
  BY <1>3, <1>9 DEF SendFails
<1>10. ASSUME UNCHANGED vars PROVE NoFrameWaits'
  BY <1>3, <1>10 DEF vars, senderVars
<1> QED BY <1>4, <1>5, <1>6, <1>7, <1>8, <1>9, <1>10 DEF Next, Receive

\* The safety behind AllReceived: whatever the pieces were, a whole packet does not
\* stay in the buffer when sproto_pop_in_sdp says that there is none.
THEOREM NoFrameIsOverlooked == Spec => []NoFrameWaits
<1>1. Init => NoFrameWaits
  BY DEF Init, NoFrameWaits
<1> QED BY <1>1, CorrectInit, CorrectStep, NoFrameWaitsStep, PTL DEF Spec
-----------------------------------------------------------------------------
(* The two peers as a queue.                                               *)

\* Also when the connection was given up.
InOrder == ~torn => Len(received) <= Len(sent) /\ IsPrefix(received, sent)

\* A step hands one packet over, accepts one, or does neither.
HandsOver ==
  /\ Len(received) < Len(sent) /\ sent' = sent
  /\ received' = Append(received, sent[Len(received) + 1])
Accepts(p) ==
  Len(sent) < MaxFrames /\ sent' = Append(sent, p) /\ received' = received

LEMMA StepKinds ==
  ASSUME Correct, [Next]_vars
  PROVE  /\ torn => torn'
         /\ ~Lossy /\ ~torn => ~torn'
         /\ ~torn => \/ HandsOver
                     \/ \E p \in Packet : Accepts(p)
                     \/ sent' = sent /\ received' = received
<1> DEFINE Kind == \/ HandsOver
                   \/ \E p \in Packet : Accepts(p)
                   \/ sent' = sent /\ received' = received
           Torn == (torn => torn') /\ (~Lossy /\ ~torn => ~torn')
<1>1. /\ TypeOK /\ BeginTagIsCurrent /\ FramesKept
      /\ torn \in BOOLEAN /\ Lossy \in BOOLEAN
  BY TypeFacts, FramingAssumption DEF Correct
<1>2. ASSUME NEW bytes \in Seq(Byte), Write(bytes) PROVE Torn
  <2>1. PICK n \in IF Lossy /\ ~torn THEN 0 .. Len(bytes) ELSE {Len(bytes)} :
          torn' = (torn \/ n < Len(bytes))
    BY <1>2 DEF Write
  <2>2. ~Lossy => n = Len(bytes)
    OBVIOUS
  <2>3. ~(Len(bytes) < Len(bytes))
    OBVIOUS
  <2> QED BY <1>1, <2>1, <2>2, <2>3, Zenon
<1>3. ASSUME NEW buffer \in Seq(Byte), PopOut(buffer) PROVE Torn
  <2> DEFINE n == Taken(buffer)
             front == SubSeq(buffer, 1, n)
  <2>1. n \in 0 .. Len(buffer)
    BY TakenType
  <2>2. front \in Seq(Byte)
    <3> HIDE DEF n
    <3> QED BY <2>1, Cut
  <2>3. Write(front)
    BY <1>3 DEF PopOut
  <2> HIDE DEF front, Torn
  <2> QED BY <1>2, <2>2, <2>3
<1>4. ASSUME NEW v \in 0 .. SenderVersion, SetVersion(v) PROVE Torn /\ Kind
  BY <1>4 DEF SetVersion
<1>5. ASSUME NEW data \in Payloads, Send(data) PROVE Torn /\ Kind
  <2>1. NewPacket(data) \in Packet
    BY <1>1, NewPacketType
  <2>2. Frame(NewPacket(data)) \in Seq(Byte) /\ out_buffer \in Seq(Byte)
    BY <1>1, <2>1, FrameFacts, TypeFacts
  <2>3. out_buffer \o Frame(NewPacket(data)) \in Seq(Byte)
    BY <2>2, ConcatProperties
  <2>4. PopOut(out_buffer \o Frame(NewPacket(data))) /\ Accepts(NewPacket(data))
    BY <1>5 DEF Send, Accepts
  <2> HIDE DEF Torn
  <2> QED BY <1>3, <2>1, <2>3, <2>4
<1>6. ASSUME NEW data \in Payloads, SendFails(data) PROVE Torn /\ Kind
  BY <1>6 DEF SendFails
<1>7. ASSUME Flush PROVE Torn /\ Kind
  <2>1. out_buffer \in Seq(Byte)
    BY <1>1, TypeFacts
  <2> HIDE DEF Torn
  <2> QED BY <1>3, <1>7, <2>1 DEF Flush
<1>8. ASSUME NEW n \in 0 .. SRPC_BUFFER_SIZE, Iterate(n) PROVE Torn /\ (~torn => Kind)
  <2>1. sent' = sent /\ torn' = torn
    BY <1>8 DEF Iterate, senderVars
  <2>2. ~torn => TakesNext
    BY <1>1, <1>8, IterateKeeps
  <2> QED BY <2>1, <2>2 DEF TakesNext, HandsOver
<1>9. ASSUME NEW n \in 0 .. SRPC_BUFFER_SIZE, Overflow(n) PROVE Torn /\ Kind
  BY <1>9 DEF Overflow, senderVars
<1>10. ASSUME UNCHANGED vars PROVE Torn /\ Kind
  BY <1>10 DEF vars, senderVars
<1>11. Torn /\ (~torn => Kind)
  <2> HIDE DEF Torn, Kind
  <2> QED BY <1>4, <1>5, <1>6, <1>7, <1>8, <1>9, <1>10 DEF Next, Receive
<1> HIDE DEF Kind
<1> QED BY <1>11 DEF Kind

LEMMA InOrderStep == Correct /\ InOrder /\ [Next]_vars => InOrder'
<1> SUFFICES ASSUME Correct, InOrder, [Next]_vars, ~torn'
             PROVE  Len(received') <= Len(sent') /\ IsPrefix(received', sent')
  BY DEF InOrder
<1>1. /\ sent \in Seq(Packet) /\ received \in Seq(PoppedPacket)
      /\ torn \in BOOLEAN
  BY TypeFacts DEF Correct
<1>2. sent \in Seq(Both) /\ received \in Seq(Both)
  BY <1>1, SeqMonotonic DEF Both
<1>3. /\ ~torn /\ Len(received) <= Len(sent) /\ IsPrefix(received, sent)
      /\ HandsOver \/ (\E p \in Packet : Accepts(p)) \/ (sent' = sent /\ received' = received)
  BY StepKinds DEF InOrder
<1>4. CASE HandsOver
  <2>1. Len(received) < Len(sent) /\ sent' = sent
        /\ received' = Append(received, sent[Len(received) + 1])
    BY <1>4 DEF HandsOver
  <2>2. sent[Len(received) + 1] \in Both
    <3>1. Len(received) + 1 \in 1 .. Len(sent)
      BY <1>2, <2>1
    <3> QED BY <1>2, <3>1, ElementOfSeq
  <2>3. Len(received') = Len(received) + 1
    BY <1>2, <2>1, <2>2, AppendProperties
  <2>4. IsPrefix(received', sent)
    BY <1>2, <1>3, <2>1, <2>2, PrefixGrows
  <2> QED BY <1>2, <2>1, <2>3, <2>4
<1>5. CASE \E p \in Packet : Accepts(p)
  <2>1. PICK p \in Packet : sent' = Append(sent, p) /\ received' = received
    BY <1>5 DEF Accepts
  <2>2. p \in Both
    BY DEF Both
  <2>3. Len(sent') = Len(sent) + 1
    BY <1>2, <2>1, <2>2, AppendProperties
  <2>4. IsPrefix(received, Append(sent, p))
    BY <1>2, <1>3, <2>2, PrefixGrows
  <2> QED BY <1>2, <1>3, <2>1, <2>3, <2>4
<1> QED BY <1>3, <1>4, <1>5

LEMMA InOrderInit == Init => InOrder
BY EmptySeq DEF Init, InOrder, IsPrefix

LEMMA QueueInit == Init => Peers!Init
<1> SUFFICES ASSUME Init PROVE Peers!Init
  OBVIOUS
<1>1. sent = <<>> /\ received = <<>>
  BY DEF Init
<1>2. SubSeq(sent, Len(received) + 1, Len(sent)) = <<>>
  <2>1. Len(sent) < Len(received) + 1 /\ Len(sent) \in Int /\ Len(received) + 1 \in Int
    BY <1>1, EmptySeq
  <2> QED BY <2>1, SubSeqEmpty
<1> QED BY <1>1, <1>2 DEF Peers!Init

LEMMA QueueStep ==
  ASSUME Correct, InOrder, ~torn, [Next]_vars
  PROVE  [Peers!Next]_(Peers!vars)
<1> DEFINE k == Len(received)
           pending == SubSeq(sent, k + 1, Len(sent))
<1>1. sent \in Seq(Packet) /\ received \in Seq(PoppedPacket) /\ k \in Nat
  BY TypeFacts DEF Correct
<1>2. /\ k <= Len(sent)
      /\ HandsOver \/ (\E p \in Packet : Accepts(p)) \/ (sent' = sent /\ received' = received)
  BY StepKinds DEF InOrder
<1>3. CASE HandsOver
  <2>1. k < Len(sent) /\ sent' = sent /\ received' = Append(received, sent[k + 1])
    BY <1>3 DEF HandsOver
  <2>2. received \in Seq(Both) /\ sent[k + 1] \in Both /\ k + 1 \in 1 .. Len(sent)
    <3>1. k + 1 \in 1 .. Len(sent)
      BY <1>1, <2>1
    <3>2. received \in Seq(Both)
      BY <1>1, SeqMonotonic DEF Both
    <3>3. sent[k + 1] \in Packet
      BY <1>1, <3>1, ElementOfSeq
    <3> QED BY <3>1, <3>2, <3>3 DEF Both
  <2>3. Len(received') = k + 1
    BY <2>1, <2>2, AppendProperties
  <2>4. Head(pending) = sent[k + 1] /\ Tail(pending) = SubSeq(sent, k + 1 + 1, Len(sent))
    <3>1. Len(sent) \in k + 1 .. Len(sent)
      BY <1>1, <2>1
    <3> HIDE DEF k
    <3> QED BY <1>1, <2>2, <3>1, HeadTailOfSubSeq
  <2>5. pending # <<>>
    <3>1. \A i \in k + 1 .. Len(sent) : sent[i] \in Packet
      BY <1>1, ElementOfSeq
    <3>2. Len(pending) = Len(sent) - (k + 1) + 1
      <4> HIDE DEF k
      <4>1. k + 1 \in Int /\ Len(sent) \in Int /\ k + 1 <= Len(sent)
        BY <1>1, <2>1
      <4> QED BY <3>1, <4>1, SubSeqProperties
    <3>3. Len(pending) > 0
      BY <1>1, <2>1, <3>2
    <3>4. Len(<<>>) = 0
      BY EmptySeq
    <3> HIDE DEF pending
    <3> QED BY <3>3, <3>4
  <2>6. SubSeq(sent', Len(received') + 1, Len(sent')) = Tail(pending)
    BY <2>1, <2>3, <2>4
  <2>7. Peers!Deliver
    BY <2>1, <2>4, <2>5, <2>6 DEF Peers!Deliver
  <2> QED BY <2>7 DEF Peers!Next
<1>4. ASSUME NEW p \in Packet, Accepts(p) PROVE Peers!Next
  <2>1. Len(sent) < MaxFrames /\ sent' = Append(sent, p) /\ received' = received
    BY <1>4 DEF Accepts
  <2>2. /\ pending \in Seq(Packet) /\ Len(pending) = Len(sent) - k
    <3>1. k \in 0 .. Len(sent)
      BY <1>1, <1>2
    <3> HIDE DEF k
    <3> QED BY <1>1, <3>1, Cut
  <2>3. SubSeq(Append(sent, p), k + 1, Len(sent) + 1) = Append(pending, p)
    <3> DEFINE t == Append(sent, p)
    <3>1. /\ t \in Seq(Packet) /\ Len(t) = Len(sent) + 1 /\ t[Len(sent) + 1] = p
          /\ \A i \in 1 .. Len(sent) : t[i] = sent[i]
      BY <1>1, AppendProperties
    <3> HIDE DEF t, k
    <3> DEFINE u == Append(pending, p)
    <3>2. /\ u \in Seq(Packet) /\ Len(u) = Len(sent) - k + 1
          /\ u[Len(sent) - k + 1] = p
          /\ \A i \in 1 .. Len(sent) - k : u[i] = pending[i]
      <4> HIDE DEF pending
      <4>1. /\ u \in Seq(Packet) /\ Len(u) = Len(pending) + 1
            /\ u[Len(pending) + 1] = p
            /\ \A i \in 1 .. Len(pending) : u[i] = pending[i]
        BY <2>2, AppendProperties
      <4> HIDE DEF u
      <4> QED BY <2>2, <4>1
    <3>3. \A i \in 1 .. Len(sent) - k : pending[i] = sent[k + i]
      <4>1. \A i \in k + 1 .. Len(sent) : sent[i] \in Packet
        BY <1>1, <1>2, ElementOfSeq
      <4>2. k + 1 \in Int /\ Len(sent) \in Int
        BY <1>1
      <4>3. \A i \in 1 .. Len(sent) - (k + 1) + 1 : pending[i] = sent[k + 1 + i - 1]
        BY <4>1, <4>2, SubSeqProperties
      <4> SUFFICES ASSUME NEW i \in 1 .. Len(sent) - k PROVE pending[i] = sent[k + i]
        OBVIOUS
      <4>4. i \in 1 .. Len(sent) - (k + 1) + 1 /\ k + 1 + i - 1 = k + i
        BY <1>1, <1>2
      <4> HIDE DEF pending
      <4> QED BY <4>3, <4>4
    <3> HIDE DEF u, pending
    <3>4. \A i \in 1 .. Len(u) : t[k + i] = u[i]
      <4> SUFFICES ASSUME NEW i \in 1 .. Len(u) PROVE t[k + i] = u[i]
        OBVIOUS
      <4>1. CASE i = Len(sent) - k + 1
        <5>1. k + i = Len(sent) + 1
          BY <1>1, <4>1
        <5> QED BY <3>1, <3>2, <4>1, <5>1
      <4>2. CASE i # Len(sent) - k + 1
        <5>0. Len(sent) \in Nat /\ Len(u) = Len(sent) - k + 1
          BY <1>1, <3>2
        <5>1. i \in 1 .. Len(sent) - k /\ k + i \in 1 .. Len(sent)
          BY <1>1, <1>2, <4>2, <5>0
        <5> QED BY <3>1, <3>2, <3>3, <5>1
      <4> QED BY <4>1, <4>2
    <3>5. k + Len(u) = Len(sent) + 1 /\ k + Len(u) <= Len(t)
      BY <1>1, <1>2, <3>1, <3>2
    <3>6. SubSeq(t, k + 1, k + Len(u)) = u
      BY <1>1, <3>1, <3>2, <3>4, <3>5, Slice
    <3>7. SubSeq(t, k + 1, Len(sent) + 1) = u
      BY <3>5, <3>6
    <3> QED BY <3>7 DEF t, u
  <2>4. Len(sent') = Len(sent) + 1
    BY <1>1, <2>1, AppendProperties
  <2>5. SubSeq(sent', Len(received') + 1, Len(sent')) = Append(pending, p)
    BY <2>1, <2>3, <2>4
  <2>6. Len(pending) < MaxFrames
    <3>1. MaxFrames \in Nat
      BY FramingAssumption
    <3> HIDE DEF pending, k
    <3> QED BY <1>1, <2>1, <2>2, <3>1
  <2>7. Peers!Accept(p)
    BY <2>1, <2>5, <2>6 DEF Peers!Accept
  <2> QED BY <2>7 DEF Peers!Next
<1>5. CASE sent' = sent /\ received' = received
  BY <1>5 DEF Peers!vars
<1> QED BY <1>2, <1>3, <1>4, <1>5

(* Also when the connection has been given up: what was received is the    *)
(* beginning of what was sent, unless a write was cut short.               *)
THEOREM ReceivedInOrder == Spec => []InOrder
<1> QED BY CorrectInit, CorrectStep, InOrderInit, InOrderStep, PTL DEF Spec

(* If no write is cut short the two objects, their buffers and the stream  *)
(* implement one queue: every packet that was put into the out buffer is   *)
(* handed over once, whole and in order, however it is cut into reads.     *)
THEOREM Refinement == ASSUME ~Lossy PROVE Spec => ImplementsQueue
<1>1. Init => ~torn
  BY DEF Init
<1>2. Correct /\ ~torn /\ [Next]_vars => ~torn'
  BY StepKinds
<1>3. Correct /\ InOrder /\ ~torn /\ [Next]_vars => [Peers!Next]_(Peers!vars)
  BY QueueStep
<1> QED BY <1>1, <1>2, <1>3, CorrectInit, CorrectStep, InOrderInit, InOrderStep,
           QueueInit, PTL
        DEF Spec, ImplementsQueue, Peers!Spec
==============================================================================
