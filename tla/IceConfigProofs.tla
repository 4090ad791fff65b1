-------------------------- MODULE IceConfigProofs --------------------------
(***************************************************************************)
(* The theorems of IceConfig and of UrlDecode: what url_decode makes of an *)
(* encoded string, that Pion is told of each configured URL under its own  *)
(* server's credentials, that no pointer it is given dangles, and that the *)
(* hosts it is told of are the ones that the URLs name.                    *)
(***************************************************************************)
EXTENDS IceConfig, SequenceTheorems, WellFoundedInduction, TLAPS

\* Any numbers have a least among them.
LEMMA LeastNat ==
  ASSUME NEW S \in SUBSET Nat, S # {}
  PROVE  \E m \in S : \A k \in S : m <= k
<1>. DEFINE R == OpToRel(<, Nat)
<1>1. IsWellFoundedOn(R, Nat)
  BY NatLessThanWellFounded
<1>2. \A x, y \in Nat : x < y => <<x, y>> \in R
  BY DEF OpToRel
<1>. HIDE DEF R
<1>3. PICK m \in S : \A k \in S : ~ (<<k, m>> \in R)
  BY <1>1, WFMin
<1>4. \A k \in S : k \in Nat
  OBVIOUS
<1>5. \A k \in S : ~(k < m)
  BY <1>2, <1>3, <1>4
<1>. QED
  BY <1>4, <1>5

\* Induction, over a set of numbers: the provers find a set, where they would
\* have to guess the operator of the library's theorem.
LEMMA NatInduces ==
  ASSUME NEW S \in SUBSET Nat, 0 \in S, \A n \in S : n + 1 \in S
  PROVE  \A n \in Nat : n \in S
<1>1. PICK rest \in SUBSET Nat : \A n \in Nat : n \in rest <=> n \notin S
  <2>1. Nat \ S \in SUBSET Nat
    OBVIOUS
  <2>. QED
    BY <2>1
<1>2. ASSUME rest # {} PROVE FALSE
  <2>1. PICK m \in rest : \A k \in rest : m <= k
    BY <1>2, LeastNat
  <2>2. m \in Nat /\ m # 0
    BY <1>1
  <2>3. m - 1 \in Nat /\ (m - 1) + 1 = m /\ ~(m <= m - 1)
    BY <2>2
  <2>4. m - 1 \in S
    BY <1>1, <2>1, <2>3
  <2>. QED
    BY <1>1, <2>2, <2>3, <2>4
<1>. QED
  BY <1>1, <1>2

\* p is a prefix of q.
Begins(p, q) == Len(p) <= Len(q) /\ \A n \in 1 .. Len(p) : q[n] = p[n]

LEMMA BeginsItself == ASSUME NEW S, NEW p \in Seq(S) PROVE Begins(p, p)
  BY DEF Begins

LEMMA BeginsConcat ==
  ASSUME NEW S, NEW p \in Seq(S), NEW f \in Seq(S), NEW s \in Seq(S), Begins(p, f)
  PROVE  Begins(p, f \o s)
<1>1. PICK h : h = f \o s
  OBVIOUS
<1>2. /\ Len(h) = Len(f) + Len(s) /\ Len(f) \in Nat /\ Len(s) \in Nat /\ Len(p) \in Nat
      /\ \A n \in 1 .. Len(f) : h[n] = f[n]
  BY <1>1
<1>3. Len(p) <= Len(f) /\ \A n \in 1 .. Len(p) : f[n] = p[n]
  BY DEF Begins
<1>4. \A n \in 1 .. Len(p) : n \in 1 .. Len(f)
  BY <1>2, <1>3
<1>. QED
  BY <1>1, <1>2, <1>3, <1>4 DEF Begins

-----------------------------------------------------------------------------
(* FlattenSeq *)

\* flat[i] is what the first i of the sequences make.
IsFlat(flat, seqs) ==
  flat = [i \in 1 .. Len(seqs) |-> IF i = 1 THEN seqs[i] ELSE flat[i - 1] \o seqs[i]]

\* There is the function that FlattenSeq chooses.
LEMMA FlatExists ==
  ASSUME NEW S, NEW seqs \in Seq(Seq(S))
  PROVE  \E flat : IsFlat(flat, seqs)
<1>. DEFINE Upto(flat, n) ==
              flat = [i \in 1 .. n |-> IF i = 1 THEN seqs[i] ELSE flat[i - 1] \o seqs[i]]
            Defined == {n \in Nat : \E flat : Upto(flat, n)}
<1>1. 0 \in Defined
  <2>1. Upto([i \in 1 .. 0 |-> <<>>], 0)
    <3>1. \A i : i \notin 1 .. 0
      OBVIOUS
    <3>. QED
      BY <3>1
  <2>. QED
    BY <2>1
<1>2. ASSUME NEW n \in Defined PROVE n + 1 \in Defined
  <2>1. PICK f : Upto(f, n)
    OBVIOUS
  <2>. DEFINE g == [i \in 1 .. n + 1 |-> IF i = 1 THEN seqs[i] ELSE f[i - 1] \o seqs[i]]
  <2>2. n \in Nat
    OBVIOUS
  <2>3. ASSUME NEW i \in 1 .. n PROVE g[i] = f[i]
    <3>1. i \in 1 .. n + 1
      BY <2>2
    <3>. QED
      BY <2>1, <3>1
  <2>4. ASSUME NEW i \in 1 .. n + 1, i # 1 PROVE g[i - 1] = f[i - 1]
    <3>1. i - 1 \in 1 .. n
      BY <2>2, <2>4
    <3>. QED
      BY <2>3, <3>1
  <2>5. Upto(g, n + 1)
    BY <2>4
  <2>. HIDE DEF Upto, g
  <2>. QED
    BY <2>2, <2>5
<1>. QED
  <2>1. Defined \in SUBSET Nat
    OBVIOUS
  <2>3. Len(seqs) \in Nat
    OBVIOUS
  <2>2. Len(seqs) \in Defined
    <3>. HIDE DEF Defined
    <3>. QED
      BY <1>1, <1>2, <2>1, <2>3, NatInduces
  <2>. QED
    BY <2>2 DEF IsFlat

LEMMA FlattenIsFlat ==
  ASSUME NEW S, NEW seqs \in Seq(Seq(S)), Len(seqs) > 0
  PROVE  \E flat : IsFlat(flat, seqs) /\ FlattenSeq(seqs) = flat[Len(seqs)]
<1>1. PICK flat : flat = CHOOSE f : IsFlat(f, seqs)
  OBVIOUS
<1>2. IsFlat(flat, seqs)
  BY <1>1, FlatExists
<1>3. FlattenSeq(seqs) = flat[Len(seqs)]
  BY <1>1 DEF FlattenSeq, IsFlat
<1>. QED
  BY <1>2, <1>3

LEMMA FlatEquation ==
  ASSUME NEW seqs, NEW flat, IsFlat(flat, seqs), NEW i \in 1 .. Len(seqs)
  PROVE  /\ i = 1 => flat[i] = seqs[i]
         /\ \A k \in Nat \ {0} : i = k + 1 => flat[i] = flat[k] \o seqs[i]
<1>1. PICK g : g = [k \in 1 .. Len(seqs) |-> IF k = 1 THEN seqs[k] ELSE flat[k - 1] \o seqs[k]]
  OBVIOUS
<1>2. flat = g
  BY <1>1 DEF IsFlat
<1>3. g[i] = IF i = 1 THEN seqs[i] ELSE flat[i - 1] \o seqs[i]
  BY <1>1
<1>4. \A k \in Nat \ {0} : i = k + 1 => i # 1 /\ i - 1 = k
  OBVIOUS
<1>. QED
  BY <1>2, <1>3, <1>4

\* The first i sequences make a sequence,
LEMMA FlatIsSeq ==
  ASSUME NEW S, NEW seqs \in Seq(Seq(S)), NEW flat, IsFlat(flat, seqs),
         NEW i \in 1 .. Len(seqs)
  PROVE  flat[i] \in Seq(S)
<1>. DEFINE Typed == {k \in Nat : k \in 1 .. Len(seqs) => flat[k] \in Seq(S)}
<1>0. Len(seqs) \in Nat /\ \A k \in 1 .. Len(seqs) : seqs[k] \in Seq(S)
  OBVIOUS
<1>1. 0 \in Typed
  OBVIOUS
<1>2. ASSUME NEW k \in Typed PROVE k + 1 \in Typed
  <2>1. k \in Nat
    OBVIOUS
  <2>2. ASSUME k + 1 \in 1 .. Len(seqs) PROVE flat[k + 1] \in Seq(S)
    <3>1. CASE k = 0
      <4>1. k + 1 = 1
        BY <3>1
      <4>2. PICK s \in Seq(S) : s = seqs[k + 1]
        BY <1>0, <2>2
      <4>3. flat[k + 1] = s
        BY <2>2, <4>1, <4>2, FlatEquation
      <4>. QED
        BY <4>3
    <3>2. CASE k # 0
      <4>1. k \in 1 .. Len(seqs) /\ k \in Nat \ {0}
        BY <1>0, <2>1, <2>2, <3>2
      <4>2. PICK f \in Seq(S), s \in Seq(S) : f = flat[k] /\ s = seqs[k + 1]
        BY <1>0, <2>2, <4>1
      <4>3. flat[k + 1] = f \o s
        BY <2>2, <4>1, <4>2, FlatEquation
      <4>. QED
        BY <4>3
    <3>. QED
      BY <3>1, <3>2
  <2>. QED
    BY <2>1, <2>2
<1>3. Typed \in SUBSET Nat
  OBVIOUS
<1>4. i \in Nat
  OBVIOUS
<1>5. i \in Typed
  <2>. HIDE DEF Typed
  <2>. QED
    BY <1>1, <1>2, <1>3, <1>4, NatInduces
<1>. QED
  BY <1>5

\* which begins what more of them make.
LEMMA FlatBegins ==
  ASSUME NEW S, NEW seqs \in Seq(Seq(S)), NEW flat, IsFlat(flat, seqs),
         NEW i \in 1 .. Len(seqs), NEW j \in i .. Len(seqs)
  PROVE  Begins(flat[i], flat[j])
<1>. DEFINE Long == {k \in Nat : k \in i .. Len(seqs) => Begins(flat[i], flat[k])}
<1>0. /\ Len(seqs) \in Nat /\ i \in Nat /\ i >= 1
      /\ \A k \in 1 .. Len(seqs) : seqs[k] \in Seq(S) /\ flat[k] \in Seq(S)
  BY FlatIsSeq
<1>1. 0 \in Long
  BY <1>0
<1>2. ASSUME NEW k \in Long PROVE k + 1 \in Long
  <2>1. k \in Nat
    OBVIOUS
  <2>2. ASSUME k + 1 \in i .. Len(seqs) PROVE Begins(flat[i], flat[k + 1])
    <3>1. CASE k + 1 = i
      <4>1. flat[i] \in Seq(S)
        BY <1>0
      <4>. QED
        BY <3>1, <4>1, BeginsItself
    <3>2. CASE k + 1 # i
      <4>1. /\ k \in i .. Len(seqs) /\ k \in Nat \ {0}
            /\ k \in 1 .. Len(seqs) /\ k + 1 \in 1 .. Len(seqs)
        BY <1>0, <2>1, <2>2, <3>2
      <4>2. PICK f \in Seq(S), s \in Seq(S), p \in Seq(S) :
               f = flat[k] /\ s = seqs[k + 1] /\ p = flat[i]
        BY <1>0, <4>1
      <4>3. Begins(p, f)
        BY <4>1, <4>2
      <4>4. flat[k + 1] = f \o s
        BY <4>1, <4>2, FlatEquation
      <4>. QED
        BY <4>2, <4>3, <4>4, BeginsConcat
    <3>. QED
      BY <3>1, <3>2
  <2>. QED
    BY <2>1, <2>2
<1>3. Long \in SUBSET Nat
  OBVIOUS
<1>4. j \in Nat
  BY <1>0
<1>5. j \in Long
  <2>. HIDE DEF Long
  <2>. QED
    BY <1>1, <1>2, <1>3, <1>4, NatInduces
<1>. QED
  BY <1>5

\* off[s] elements of the flattened sequence come before those of seqs[s].
AreOffsets(off, seqs) ==
  /\ off \in [1 .. Len(seqs) + 1 -> Nat]
  /\ off[1] = 0 /\ off[Len(seqs) + 1] = Len(FlattenSeq(seqs))
  /\ \A s \in 1 .. Len(seqs) :
       /\ off[s + 1] = off[s] + Len(seqs[s])
       /\ \A n \in 1 .. Len(seqs[s]) :
            /\ off[s] + n \in 1 .. Len(FlattenSeq(seqs))
            /\ FlattenSeq(seqs)[off[s] + n] = seqs[s][n]

\* Each element of each sequence is found where its offset says.
LEMMA OffsetsExist ==
  ASSUME NEW S, NEW seqs \in Seq(Seq(S))
  PROVE  \E off : AreOffsets(off, seqs)
<1>1. CASE Len(seqs) = 0
  <2>1. FlattenSeq(seqs) = seqs
    BY <1>1 DEF FlattenSeq
  <2>2. PICK off \in [1 .. 1 -> Nat] : off[1] = 0
    <3>1. [s \in 1 .. 1 |-> 0] \in [1 .. 1 -> Nat]
      OBVIOUS
    <3>2. [s \in 1 .. 1 |-> 0][1] = 0
      OBVIOUS
    <3>. QED
      BY <3>1, <3>2
  <2>3. AreOffsets(off, seqs)
    BY <1>1, <2>1, <2>2 DEF AreOffsets
  <2>. QED
    BY <2>3
<1>2. CASE Len(seqs) > 0
  <2>1. PICK flat : IsFlat(flat, seqs) /\ FlattenSeq(seqs) = flat[Len(seqs)]
    BY <1>2, FlattenIsFlat
  <2>. DEFINE off == [s \in 1 .. Len(seqs) + 1 |-> IF s = 1 THEN 0 ELSE Len(flat[s - 1])]
              k == Len(seqs)
  <2>2. /\ k \in Nat /\ k \in 1 .. k
        /\ \A i \in 1 .. k : flat[i] \in Seq(S) /\ Len(flat[i]) \in Nat /\ seqs[i] \in Seq(S)
    <3>1. \A i \in 1 .. k : flat[i] \in Seq(S)
      BY <2>1, FlatIsSeq
    <3>. QED
      BY <1>2, <3>1
  <2>3. off \in [1 .. k + 1 -> Nat]
    <3>1. ASSUME NEW s \in 1 .. k + 1, s # 1 PROVE s - 1 \in 1 .. k
      BY <2>2, <3>1
    <3>. QED
      BY <2>2, <3>1
  <2>4. off[1] = 0 /\ off[k + 1] = Len(FlattenSeq(seqs))
    BY <2>1, <2>2
  <2>5. ASSUME NEW s \in 1 .. k
        PROVE  /\ off[s + 1] = off[s] + Len(seqs[s])
               /\ \A n \in 1 .. Len(seqs[s]) :
                    /\ off[s] + n \in 1 .. Len(flat[s])
                    /\ flat[s][off[s] + n] = seqs[s][n]
    <3>1. off[s + 1] = Len(flat[s]) /\ off[s] = IF s = 1 THEN 0 ELSE Len(flat[s - 1])
      BY <2>2
    <3>. HIDE DEF off
    <3>2. CASE s = 1
      <4>1. flat[s] = seqs[s]
        BY <2>1, <3>2, FlatEquation
      <4>. QED
        BY <2>2, <3>1, <3>2, <4>1
    <3>3. CASE s # 1
      <4>1. s - 1 \in 1 .. k /\ s - 1 \in Nat \ {0} /\ s = (s - 1) + 1
        BY <2>2, <3>3
      <4>2. flat[s] = flat[s - 1] \o seqs[s]
        BY <2>1, <4>1, FlatEquation
      <4>3. PICK f \in Seq(S), t \in Seq(S) : f = flat[s - 1] /\ t = seqs[s]
        BY <2>2, <4>1
      <4>4. /\ Len(f \o t) = Len(f) + Len(t) /\ Len(f) \in Nat /\ Len(t) \in Nat
            /\ \A n \in 1 .. Len(t) : (f \o t)[Len(f) + n] = t[n]
        OBVIOUS
      <4>5. off[s] = Len(f) /\ flat[s] = f \o t /\ off[s + 1] = Len(f \o t)
        BY <3>1, <3>3, <4>3, <4>2
      <4>6. \A n \in 1 .. Len(t) : Len(f) + n \in 1 .. Len(f) + Len(t)
        BY <4>4
      <4>. QED
        BY <4>3, <4>4, <4>5, <4>6
    <3>. QED
      BY <3>2, <3>3
  <2>6. ASSUME NEW s \in 1 .. k, NEW n \in 1 .. Len(seqs[s])
        PROVE  /\ off[s] + n \in 1 .. Len(FlattenSeq(seqs))
               /\ FlattenSeq(seqs)[off[s] + n] = seqs[s][n]
    <3>1. k \in s .. k
      BY <2>2
    <3>2. /\ Len(flat[s]) <= Len(flat[k])
          /\ \A m \in 1 .. Len(flat[s]) : flat[k][m] = flat[s][m]
      BY <2>1, <3>1, FlatBegins DEF Begins
    <3>3. off[s] + n \in 1 .. Len(flat[s]) /\ flat[s][off[s] + n] = seqs[s][n]
      BY <2>5
    <3>. HIDE DEF off
    <3>4. PICK m \in 1 .. Len(flat[s]) : m = off[s] + n
      BY <3>3, Zenon
    <3>5. m \in 1 .. Len(flat[k])
      BY <2>2, <3>2
    <3>6. flat[k][m] = seqs[s][n]
      BY <3>2, <3>3, <3>4, Zenon
    <3>. QED
      BY <2>1, <3>4, <3>5, <3>6, Zenon
  <2>7. AreOffsets(off, seqs)
    <3>. HIDE DEF off
    <3>. QED
      BY <2>3, <2>4, <2>5, <2>6 DEF AreOffsets
  <2>. QED
    BY <2>7
<1>. QED
  BY <1>1, <1>2

-----------------------------------------------------------------------------
(* url_decode *)

Byte(str, i) == 16 * HexValue(str[i + 1]) + HexValue(str[i + 2])

\* What the loop makes of str from i on, if r says what it makes from later on.
DecodeStep(str, i, r) ==
  IF i > Len(str) THEN <<>>
  ELSE IF EscapeAt(str, i) THEN <<Byte(str, i)>> \o r[i + 3]
  ELSE <<str[i]>> \o r[i + 1]

\* r[i] is what the loop makes of str from i on.
IsDecoding(r, str) == r = [i \in 1 .. Len(str) + 1 |-> DecodeStep(str, i, r)]

\* What is made from i on depends on what is made after i only,
LEMMA StepLooksAhead ==
  ASSUME NEW S, NEW str \in Seq(S), NEW i \in 1 .. Len(str) + 1, NEW r, NEW t,
         \A k \in i + 1 .. Len(str) + 1 : r[k] = t[k]
  PROVE  DecodeStep(str, i, r) = DecodeStep(str, i, t)
<1>1. CASE i > Len(str)
  BY <1>1 DEF DecodeStep
<1>2. CASE ~(i > Len(str)) /\ EscapeAt(str, i)
  <2>1. i + 3 \in i + 1 .. Len(str) + 1
    BY <1>2 DEF EscapeAt
  <2>2. r[i + 3] = t[i + 3]
    BY <2>1
  <2>. QED
    BY <1>2, <2>2 DEF DecodeStep
<1>3. CASE ~(i > Len(str)) /\ ~EscapeAt(str, i)
  <2>1. i + 1 \in i + 1 .. Len(str) + 1
    BY <1>3
  <2>2. r[i + 1] = t[i + 1]
    BY <2>1
  <2>. QED
    BY <1>3, <2>2 DEF DecodeStep
<1>. QED
  BY <1>1, <1>2, <1>3

\* so that there is the function that url_decode chooses.
LEMMA DecodingExists ==
  ASSUME NEW S, NEW str \in Seq(S)
  PROVE  \E r : IsDecoding(r, str)
<1>. DEFINE L == Len(str)
            Later(r, m) == r = [i \in m .. L + 1 |-> DecodeStep(str, i, r)]
            Defined == {d \in Nat : d <= L => \E r : Later(r, L + 1 - d)}
<1>0. L \in Nat
  OBVIOUS
<1>. HIDE DEF L
<1>1. 0 \in Defined
  <2>1. PICK r : r = [i \in L + 1 .. L + 1 |-> <<>>]
    OBVIOUS
  <2>2. \A i \in L + 1 .. L + 1 : DecodeStep(str, i, r) = <<>>
    BY <1>0 DEF DecodeStep, L
  <2>3. Later(r, L + 1)
    BY <2>1, <2>2
  <2>4. L + 1 - 0 = L + 1
    BY <1>0
  <2>. HIDE DEF From
  <2>. QED
    BY <2>3, <2>4
<1>2. ASSUME NEW d \in Defined PROVE d + 1 \in Defined
  <2>1. d \in Nat
    OBVIOUS
  <2>2. ASSUME d + 1 <= L PROVE \E r : Later(r, L + 1 - (d + 1))
    <3>1. PICK m \in Nat : m = L - d /\ m >= 1 /\ m <= L
      BY <1>0, <2>1, <2>2
    <3>2. PICK r : Later(r, m + 1)
      <4>1. L + 1 - d = m + 1 /\ d <= L
        BY <1>0, <2>1, <2>2, <3>1
      <4>. QED
        BY <4>1
    <3>3. PICK t : t = [i \in m .. L + 1 |-> DecodeStep(str, i, r)]
      OBVIOUS
    <3>4. ASSUME NEW i \in m + 1 .. L + 1 PROVE t[i] = r[i]
      <4>1. PICK u : u = [k \in m + 1 .. L + 1 |-> DecodeStep(str, k, r)]
        OBVIOUS
      <4>2. u[i] = DecodeStep(str, i, r) /\ r = u
        BY <3>2, <4>1
      <4>3. t[i] = DecodeStep(str, i, r)
        BY <3>1, <3>3
      <4>. QED
        BY <4>2, <4>3
    <3>5. ASSUME NEW i \in m .. L + 1 PROVE DecodeStep(str, i, r) = DecodeStep(str, i, t)
      <4>1. i \in 1 .. Len(str) + 1
        BY <1>0, <3>1 DEF L
      <4>2. \A k \in i + 1 .. Len(str) + 1 : k \in m + 1 .. L + 1
        BY <1>0, <3>1 DEF L
      <4>3. \A k \in i + 1 .. Len(str) + 1 : r[k] = t[k]
        BY <3>4, <4>2
      <4>. QED
        BY <4>1, <4>3, StepLooksAhead
    <3>6. Later(t, m)
      BY <3>3, <3>5
    <3>7. L + 1 - (d + 1) = m
      BY <1>0, <2>1, <3>1
    <3>. HIDE DEF From
    <3>. QED
      BY <3>6, <3>7
  <2>. HIDE DEF From
  <2>. QED
    BY <2>1, <2>2
<1>3. Defined \in SUBSET Nat
  OBVIOUS
<1>4. L \in Defined
  <2>. HIDE DEF Defined
  <2>. QED
    BY <1>0, <1>1, <1>2, <1>3, NatInduces
<1>5. \E r : Later(r, 1)
  <2>1. L + 1 - L = 1 /\ L <= L
    BY <1>0
  <2>. HIDE DEF From
  <2>. QED
    BY <1>4, <2>1
<1>. QED
  BY <1>5 DEF IsDecoding, L

LEMMA DecodeIsDecoding ==
  ASSUME NEW S, NEW str \in Seq(S)
  PROVE  \E r : IsDecoding(r, str) /\ url_decode(str) = r[1]
<1>1. PICK r : r = CHOOSE t : IsDecoding(t, str)
  OBVIOUS
<1>2. IsDecoding(r, str)
  BY <1>1, DecodingExists
<1>3. url_decode(str) = r[1]
  BY <1>1 DEF url_decode, IsDecoding, DecodeStep, Byte
<1>. QED
  BY <1>2, <1>3

LEMMA DecodingEquation ==
  ASSUME NEW str, NEW r, IsDecoding(r, str), NEW i \in 1 .. Len(str) + 1
  PROVE  r[i] = DecodeStep(str, i, r)
<1>1. PICK t : t = [k \in 1 .. Len(str) + 1 |-> DecodeStep(str, k, r)]
  OBVIOUS
<1>2. r = t
  BY <1>1 DEF IsDecoding
<1>3. t[i] = DecodeStep(str, i, r)
  BY <1>1
<1>. QED
  BY <1>2, <1>3

-----------------------------------------------------------------------------
(* Percent-encoding *)

\* What stands for the n-th character.
Code(s, n, escaped) ==
  IF n \in escaped \/ s[n] = PERCENT
    THEN <<PERCENT, HexDigit(s[n] \div 16), HexDigit(s[n] % 16)>>
  ELSE <<s[n]>>

\* enc[n] is what the first n characters make.
IsEncoding(enc, s, escaped) ==
  enc = [n \in 0 .. Len(s) |-> IF n = 0 THEN <<>> ELSE enc[n - 1] \o Code(s, n, escaped)]

\* There is the function that Encoded chooses.
LEMMA EncodingExists ==
  ASSUME NEW S, NEW s \in Seq(S), NEW escaped
  PROVE  \E enc : IsEncoding(enc, s, escaped)
<1>. DEFINE Upto(enc, n) ==
              enc = [i \in 0 .. n |-> IF i = 0 THEN <<>> ELSE enc[i - 1] \o Code(s, i, escaped)]
            Defined == {n \in Nat : \E enc : Upto(enc, n)}
<1>1. 0 \in Defined
  <2>1. Upto([i \in 0 .. 0 |-> <<>>], 0)
    <3>1. \A i \in 0 .. 0 : i = 0
      OBVIOUS
    <3>. QED
      BY <3>1
  <2>. QED
    BY <2>1
<1>2. ASSUME NEW n \in Defined PROVE n + 1 \in Defined
  <2>1. PICK f : Upto(f, n)
    OBVIOUS
  <2>. DEFINE g == [i \in 0 .. n + 1 |-> IF i = 0 THEN <<>> ELSE f[i - 1] \o Code(s, i, escaped)]
  <2>2. n \in Nat
    OBVIOUS
  <2>3. ASSUME NEW i \in 0 .. n PROVE g[i] = f[i]
    <3>1. i \in 0 .. n + 1
      BY <2>2
    <3>. QED
      BY <2>1, <3>1
  <2>4. ASSUME NEW i \in 0 .. n + 1, i # 0 PROVE g[i - 1] = f[i - 1]
    <3>1. i - 1 \in 0 .. n
      BY <2>2, <2>4
    <3>. QED
      BY <2>3, <3>1
  <2>5. Upto(g, n + 1)
    BY <2>4
  <2>. HIDE DEF Upto, g
  <2>. QED
    BY <2>2, <2>5
<1>. QED
  <2>1. Defined \in SUBSET Nat
    OBVIOUS
  <2>2. Len(s) \in Nat
    OBVIOUS
  <2>3. Len(s) \in Defined
    <3>. HIDE DEF Defined
    <3>. QED
      BY <1>1, <1>2, <2>1, <2>2, NatInduces
  <2>. QED
    BY <2>3 DEF IsEncoding

LEMMA EncodedIsEncoding ==
  ASSUME NEW S, NEW s \in Seq(S), NEW escaped
  PROVE  \E enc : IsEncoding(enc, s, escaped) /\ Encoded(s, escaped) = enc[Len(s)]
<1>1. PICK enc : enc = CHOOSE e : IsEncoding(e, s, escaped)
  OBVIOUS
<1>2. IsEncoding(enc, s, escaped)
  BY <1>1, EncodingExists
<1>3. Encoded(s, escaped) = enc[Len(s)]
  BY <1>1 DEF Encoded, IsEncoding, Code
<1>. QED
  BY <1>2, <1>3

LEMMA EncodingEquation ==
  ASSUME NEW S, NEW s \in Seq(S), NEW escaped, NEW enc, IsEncoding(enc, s, escaped)
  PROVE  /\ enc[0] = <<>>
         /\ \A n \in Nat : n + 1 <= Len(s) => enc[n + 1] = enc[n] \o Code(s, n + 1, escaped)
<1>1. PICK f : f = [n \in 0 .. Len(s) |->
                     IF n = 0 THEN <<>> ELSE enc[n - 1] \o Code(s, n, escaped)]
  OBVIOUS
<1>2. enc = f
  BY <1>1 DEF IsEncoding
<1>3. Len(s) \in Nat
  OBVIOUS
<1>4. f[0] = <<>>
  BY <1>1, <1>3
<1>5. ASSUME NEW n \in Nat, n + 1 <= Len(s)
      PROVE  f[n + 1] = enc[n] \o Code(s, n + 1, escaped)
  <2>1. n + 1 \in 0 .. Len(s) /\ n + 1 # 0 /\ (n + 1) - 1 = n
    BY <1>3, <1>5
  <2>. QED
    BY <1>1, <2>1
<1>. QED
  BY <1>2, <1>4, <1>5

\* Two hexadecimal digits have the value of the byte they are made of.
LEMMA HexDigits ==
  ASSUME NEW v \in 0 .. 255
  PROVE  \E high, low \in 0 .. 255 :
           /\ high = HexDigit(v \div 16) /\ low = HexDigit(v % 16)
           /\ IsXDigit(high) /\ IsXDigit(low) /\ 16 * HexValue(high) + HexValue(low) = v
<1>1. PICK h \in 0 .. 15, l \in 0 .. 15 : h = v \div 16 /\ l = v % 16 /\ v = 16 * h + l
  <2>1. v \div 16 \in 0 .. 15 /\ v % 16 \in 0 .. 15 /\ v = 16 * (v \div 16) + (v % 16)
    OBVIOUS
  <2>. QED
    BY <2>1, Zenon
<1>2. ASSUME NEW d \in 0 .. 15
      PROVE  /\ HexDigit(d) \in 0 .. 255 /\ IsXDigit(HexDigit(d))
             /\ HexValue(HexDigit(d)) = d
  <2>1. CASE d < 10
    <3>1. HexDigit(d) = 48 + d
      BY <2>1 DEF HexDigit
    <3>. QED
      BY <2>1, <3>1 DEF IsXDigit, IsDigit, HexValue
  <2>2. CASE ~(d < 10)
    <3>1. HexDigit(d) = 55 + d
      BY <2>2 DEF HexDigit
    <3>. QED
      BY <2>2, <3>1 DEF IsXDigit, IsDigit, HexValue
  <2>. QED
    BY <2>1, <2>2
<1>3. PICK high \in 0 .. 255, low \in 0 .. 255 : high = HexDigit(h) /\ low = HexDigit(l)
  BY <1>2, Zenon
<1>4. IsXDigit(high) /\ IsXDigit(low) /\ HexValue(high) = h /\ HexValue(low) = l
  BY <1>2, <1>3, Zenon
<1>5. high = HexDigit(v \div 16) /\ low = HexDigit(v % 16)
  BY <1>1, <1>3, Zenon
<1>6. 16 * HexValue(high) + HexValue(low) = v
  BY <1>1, <1>4
<1>. QED
  BY <1>4, <1>5, <1>6, Zenon

LEMMA CodeIsSeq ==
  ASSUME NEW s \in Strings, NEW escaped, NEW n \in 1 .. Len(s)
  PROVE  Code(s, n, escaped) \in Strings
<1>1. s \in Seq(0 .. 255) /\ n \in 1 .. Len(s)
  BY DEF Strings
<1>2. PICK v \in 0 .. 255 : v = s[n]
  BY <1>1, ElementOfSeq
<1>3. PICK h \in 0 .. 255, l \in 0 .. 255 : h = HexDigit(v \div 16) /\ l = HexDigit(v % 16)
  <2>1. PICK high \in 0 .. 255, low \in 0 .. 255 :
             /\ high = HexDigit(v \div 16) /\ low = HexDigit(v % 16)
             /\ IsXDigit(high) /\ IsXDigit(low)
             /\ 16 * HexValue(high) + HexValue(low) = v
    BY HexDigits
  <2>. QED
    BY <2>1
<1>4. PERCENT \in 0 .. 255
  BY DEF PERCENT
<1>5. <<PERCENT, h, l>> \in Strings /\ <<v>> \in Strings
  BY <1>4 DEF Strings
<1>6. CASE n \in escaped \/ s[n] = PERCENT
  <2>1. Code(s, n, escaped) = <<PERCENT, h, l>>
    BY <1>2, <1>3, <1>6, Zenon DEF Code
  <2>. QED
    BY <1>5, <2>1, Zenon
<1>7. CASE ~(n \in escaped \/ s[n] = PERCENT)
  <2>1. Code(s, n, escaped) = <<v>>
    BY <1>2, <1>7, Zenon DEF Code
  <2>. QED
    BY <1>5, <2>1, Zenon
<1>. QED
  BY <1>6, <1>7

LEMMA EncodingIsSeq ==
  ASSUME NEW s \in Strings, NEW escaped, NEW enc, IsEncoding(enc, s, escaped)
  PROVE  \A n \in 0 .. Len(s) : enc[n] \in Strings
<1>. DEFINE Typed == {n \in Nat : n <= Len(s) => enc[n] \in Strings}
<1>0. Len(s) \in Nat /\ s \in Seq(0 .. 255)
  BY DEF Strings
<1>1. 0 \in Typed
  <2>1. <<>> \in Strings
    BY DEF Strings
  <2>2. enc[0] \in Strings
    BY <1>0, <2>1, EncodingEquation
  <2>. QED
    BY <2>2
<1>2. ASSUME NEW n \in Typed PROVE n + 1 \in Typed
  <2>1. n \in Nat
    OBVIOUS
  <2>2. ASSUME n + 1 <= Len(s) PROVE enc[n + 1] \in Strings
    <3>1. n + 1 \in 1 .. Len(s) /\ n <= Len(s)
      BY <1>0, <2>1, <2>2
    <3>2. PICK f \in Strings, c \in Strings : f = enc[n] /\ c = Code(s, n + 1, escaped)
      BY <3>1, CodeIsSeq
    <3>3. enc[n + 1] = f \o c
      BY <1>0, <2>1, <2>2, <3>2, EncodingEquation
    <3>. QED
      BY <3>3 DEF Strings
  <2>. QED
    BY <2>1, <2>2
<1>3. Typed \in SUBSET Nat
  OBVIOUS
<1>4. \A n \in Nat : n \in Typed
  <2>. HIDE DEF Typed
  <2>. QED
    BY <1>1, <1>2, <1>3, NatInduces
<1>. QED
  BY <1>0, <1>4

\* The code of a prefix is a prefix of the code.
LEMMA EncodingBegins ==
  ASSUME NEW s \in Strings, NEW escaped, NEW enc, IsEncoding(enc, s, escaped),
         NEW m \in 0 .. Len(s), NEW n \in m .. Len(s)
  PROVE  Begins(enc[m], enc[n])
<1>. DEFINE Long == {k \in Nat : k \in m .. Len(s) => Begins(enc[m], enc[k])}
<1>0. /\ Len(s) \in Nat /\ m \in Nat /\ s \in Seq(0 .. 255)
      /\ \A k \in 0 .. Len(s) : enc[k] \in Seq(0 .. 255)
  BY EncodingIsSeq DEF Strings
<1>1. 0 \in Long
  <2>1. ASSUME 0 \in m .. Len(s) PROVE Begins(enc[m], enc[0])
    <3>1. m = 0 /\ enc[m] \in Seq(0 .. 255)
      BY <1>0, <2>1
    <3>2. Begins(enc[m], enc[m])
      BY <3>1, BeginsItself
    <3>. QED
      BY <3>1, <3>2
  <2>. QED
    BY <2>1
<1>2. ASSUME NEW k \in Long PROVE k + 1 \in Long
  <2>1. k \in Nat
    OBVIOUS
  <2>2. ASSUME k + 1 \in m .. Len(s) PROVE Begins(enc[m], enc[k + 1])
    <3>1. CASE k + 1 = m
      <4>1. enc[m] \in Seq(0 .. 255)
        BY <1>0
      <4>. QED
        BY <3>1, <4>1, BeginsItself
    <3>2. CASE k + 1 # m
      <4>1. /\ k \in m .. Len(s) /\ k \in 0 .. Len(s) /\ k + 1 \in 1 .. Len(s)
            /\ k + 1 <= Len(s)
        BY <1>0, <2>1, <2>2, <3>2
      <4>2. Code(s, k + 1, escaped) \in Seq(0 .. 255)
        BY <4>1, CodeIsSeq DEF Strings
      <4>3. PICK f \in Seq(0 .. 255), c \in Seq(0 .. 255), p \in Seq(0 .. 255) :
               f = enc[k] /\ c = Code(s, k + 1, escaped) /\ p = enc[m]
        BY <1>0, <4>1, <4>2
      <4>4. Begins(p, f)
        BY <4>1, <4>3
      <4>5. enc[k + 1] = f \o c
        BY <1>0, <2>1, <4>1, <4>3, EncodingEquation
      <4>. QED
        BY <4>3, <4>4, <4>5, BeginsConcat
    <3>. QED
      BY <3>1, <3>2
  <2>. QED
    BY <2>1, <2>2
<1>3. Long \in SUBSET Nat
  OBVIOUS
<1>4. n \in Nat
  BY <1>0
<1>5. n \in Long
  <2>. HIDE DEF Long
  <2>. QED
    BY <1>1, <1>2, <1>3, <1>4, NatInduces
<1>. QED
  BY <1>5

\* Where the code of a character is decoded, that character comes of it, and
\* decoding goes on with the code of the next.
LEMMA DecodesOne ==
  ASSUME NEW s \in Strings, NEW escaped, NEW enc, IsEncoding(enc, s, escaped),
         NEW t, t = enc[Len(s)], NEW r, IsDecoding(r, t), NEW n \in 0 .. Len(s), n < Len(s)
  PROVE  r[Len(enc[n]) + 1] = <<s[n + 1]>> \o r[Len(enc[n + 1]) + 1]
<1>0. /\ Len(s) \in Nat /\ s \in Seq(0 .. 255) /\ n \in Nat /\ n + 1 \in 1 .. Len(s)
      /\ n + 1 \in 0 .. Len(s) /\ n + 1 <= Len(s) /\ Len(s) \in n + 1 .. Len(s)
      /\ Len(s) \in 0 .. Len(s)
  BY DEF Strings
<1>1. PICK v \in 0 .. 255 : v = s[n + 1]
  BY <1>0, ElementOfSeq
<1>2. PICK p \in Seq(0 .. 255), q \in Seq(0 .. 255), c \in Seq(0 .. 255) :
         p = enc[n] /\ q = enc[n + 1] /\ c = Code(s, n + 1, escaped)
  BY <1>0, EncodingIsSeq, CodeIsSeq DEF Strings
<1>3. q = p \o c
  BY <1>0, <1>2, EncodingEquation
<1>4. t \in Seq(0 .. 255)
  BY <1>0, EncodingIsSeq DEF Strings
<1>5. Begins(q, t)
  BY <1>0, <1>2, EncodingBegins
<1>6. /\ Len(p) \in Nat /\ Len(c) \in Nat /\ Len(q) = Len(p) + Len(c) /\ Len(t) \in Nat
      /\ Len(q) <= Len(t)
      /\ \A k \in 1 .. Len(c) : q[Len(p) + k] = c[k]
  BY <1>3, <1>4, <1>5 DEF Begins
<1>7. \A k \in 1 .. Len(c) : t[Len(p) + k] = c[k]
  <2>1. \A k \in 1 .. Len(c) : Len(p) + k \in 1 .. Len(q)
    BY <1>6
  <2>. QED
    BY <1>5, <1>6, <2>1 DEF Begins
<1>. DEFINE i == Len(p) + 1
<1>8. CASE n + 1 \in escaped \/ s[n + 1] = PERCENT
  <2>1. PICK h \in 0 .. 255, l \in 0 .. 255 :
           /\ h = HexDigit(v \div 16) /\ l = HexDigit(v % 16)
           /\ IsXDigit(h) /\ IsXDigit(l) /\ 16 * HexValue(h) + HexValue(l) = v
    BY HexDigits, Zenon
  <2>2. IsXDigit(h) /\ IsXDigit(l) /\ 16 * HexValue(h) + HexValue(l) = v
    BY <2>1, Zenon
  <2>3. c = <<PERCENT, h, l>>
    BY <1>1, <1>2, <1>8, <2>1, Zenon DEF Code
  <2>4. Len(c) = 3 /\ c[1] = PERCENT /\ c[2] = h /\ c[3] = l
    BY <2>3
  <2>5. t[i] = PERCENT /\ t[i + 1] = h /\ t[i + 2] = l
    <3>1. 1 \in 1 .. Len(c) /\ 2 \in 1 .. Len(c) /\ 3 \in 1 .. Len(c)
      BY <2>4
    <3>2. i + 1 = Len(p) + 2 /\ i + 2 = Len(p) + 3
      BY <1>6
    <3>. QED
      BY <1>7, <2>4, <3>1, <3>2
  <2>6. /\ i \in 1 .. Len(t) + 1 /\ ~(i > Len(t)) /\ i + 2 <= Len(t)
        /\ i + 3 = Len(q) + 1
    BY <1>6, <2>4
  <2>. HIDE DEF i
  <2>7. EscapeAt(t, i) /\ Byte(t, i) = v
    BY <2>2, <2>5, <2>6 DEF EscapeAt, Byte
  <2>8. r[i] = <<v>> \o r[i + 3]
    <3>1. r[i] = DecodeStep(t, i, r)
      BY <2>6, DecodingEquation
    <3>. QED
      BY <2>6, <2>7, <3>1 DEF DecodeStep
  <2>9. r[Len(p) + 1] = <<v>> \o r[Len(q) + 1]
    <3>1. i + 3 = Len(q) + 1
      BY <2>6
    <3>. QED
      BY <2>8, <3>1, Zenon DEF i
  <2>. QED
    BY <1>1, <1>2, <2>9, Zenon
<1>9. CASE ~(n + 1 \in escaped \/ s[n + 1] = PERCENT)
  <2>1. c = <<v>>
    BY <1>1, <1>2, <1>9 DEF Code
  <2>2. Len(c) = 1 /\ c[1] = v
    BY <2>1
  <2>3. t[i] = v /\ v # PERCENT
    BY <1>1, <1>7, <1>9, <2>2
  <2>4. i \in 1 .. Len(t) + 1 /\ ~(i > Len(t)) /\ i + 1 = Len(q) + 1
    BY <1>6, <2>2
  <2>. HIDE DEF i
  <2>5. ~EscapeAt(t, i)
    BY <2>3 DEF EscapeAt
  <2>6. r[i] = <<v>> \o r[i + 1]
    <3>1. r[i] = DecodeStep(t, i, r)
      BY <2>4, DecodingEquation
    <3>. QED
      BY <2>3, <2>4, <2>5, <3>1 DEF DecodeStep
  <2>7. r[Len(p) + 1] = <<v>> \o r[Len(q) + 1]
    <3>1. i + 1 = Len(q) + 1
      BY <2>4
    <3>. QED
      BY <2>6, <3>1, Zenon DEF i
  <2>. QED
    BY <1>1, <1>2, <2>7, Zenon
<1>. QED
  BY <1>8, <1>9

\* Where decoding stands when there is one character more to be decoded than d.
LEMMA OneMore ==
  ASSUME NEW len \in Nat, NEW d \in Nat, d + 1 <= len
  PROVE  /\ \E n \in 0 .. len : n = len - (d + 1) /\ n < len /\ n + 1 = len - d
         /\ \E n \in 1 .. len : n = len - (d + 1) + 1 /\ n + 1 = len - d + 1
<1>1. /\ len - (d + 1) \in 0 .. len /\ len - (d + 1) < len /\ len - (d + 1) + 1 = len - d
  OBVIOUS
<1>2. len - (d + 1) + 1 \in 1 .. len /\ len - (d + 1) + 1 + 1 = len - d + 1
  OBVIOUS
<1>. QED
  BY <1>1, <1>2, Zenon

\* utils::url_decode undoes percent-encoding, of any string and whichever of its
\* characters are escaped besides '%': also where what is encoded looks like an
\* escape itself.  By induction over what is still to be decoded.
THEOREM DecodeUndoesEncode ==
  ASSUME NEW s \in Strings, NEW escaped
  PROVE  url_decode(Encoded(s, escaped)) = s
<1>0. Len(s) \in Nat /\ s \in Seq(0 .. 255) /\ Len(s) \in 0 .. Len(s)
  BY DEF Strings
<1>1. PICK enc : IsEncoding(enc, s, escaped) /\ Encoded(s, escaped) = enc[Len(s)]
  BY <1>0, EncodedIsEncoding
<1>2. PICK t \in Seq(0 .. 255) : t = Encoded(s, escaped)
  BY <1>0, <1>1, EncodingIsSeq DEF Strings
<1>3. PICK r : IsDecoding(r, t) /\ url_decode(t) = r[1]
  BY DecodeIsDecoding
<1>. DEFINE Decoded == {d \in Nat : d <= Len(s) =>
                         r[Len(enc[Len(s) - d]) + 1] = SubSeq(s, Len(s) - d + 1, Len(s))}
<1>4. 0 \in Decoded
  <2>1. Len(s) - 0 = Len(s) /\ Len(s) - 0 + 1 = Len(s) + 1
    BY <1>0
  <2>2. SubSeq(s, Len(s) + 1, Len(s)) = <<>>
    BY <1>0
  <2>3. Len(t) + 1 \in 1 .. Len(t) + 1 /\ Len(t) + 1 > Len(t)
    OBVIOUS
  <2>4. r[Len(t) + 1] = <<>>
    BY <1>3, <2>3, DecodingEquation DEF DecodeStep
  <2>. QED
    BY <1>1, <1>2, <2>1, <2>2, <2>4
<1>5. ASSUME NEW d \in Decoded PROVE d + 1 \in Decoded
  <2>1. d \in Nat
    OBVIOUS
  <2>2. ASSUME d + 1 <= Len(s)
        PROVE  r[Len(enc[Len(s) - (d + 1)]) + 1] = SubSeq(s, Len(s) - (d + 1) + 1, Len(s))
    <3>1. PICK n \in 0 .. Len(s) : n = Len(s) - (d + 1) /\ n < Len(s) /\ n + 1 = Len(s) - d
      BY <1>0, <2>1, <2>2, OneMore, Zenon
    <3>2. r[Len(enc[n]) + 1] = <<s[n + 1]>> \o r[Len(enc[n + 1]) + 1]
      <4>1. IsEncoding(enc, s, escaped) /\ t = enc[Len(s)] /\ IsDecoding(r, t) /\ n < Len(s)
        BY <1>1, <1>2, <1>3, <3>1
      <4>. QED
        BY <4>1, DecodesOne
    <3>3. r[Len(enc[n + 1]) + 1] = SubSeq(s, n + 1 + 1, Len(s))
      <4>1. d <= Len(s)
        BY <1>0, <2>1, <2>2
      <4>. QED
        BY <3>1, <4>1
    <3>4. n + 1 \in 1 .. Len(s)
      BY <1>0, <3>1
    <3>5. <<s[n + 1]>> \o SubSeq(s, n + 1 + 1, Len(s)) = SubSeq(s, n + 1, Len(s))
      <4>1. Len(s) \in n + 1 .. Len(s)
        BY <3>4
      <4>. QED
        BY <1>0, <3>4, <4>1, SubSeqRecursiveFirst
    <3>6. r[Len(enc[n]) + 1] = SubSeq(s, n + 1, Len(s))
      BY <3>2, <3>3, <3>5, Zenon
    <3>. QED
      BY <3>1, <3>6, Zenon
  <2>. QED
    BY <2>1, <2>2
<1>6. Decoded \in SUBSET Nat
  OBVIOUS
<1>7. Len(s) \in Decoded
  <2>. HIDE DEF Decoded
  <2>. QED
    BY <1>0, <1>4, <1>5, <1>6, NatInduces
<1>8. r[Len(enc[0]) + 1] = SubSeq(s, 1, Len(s))
  <2>1. Len(s) - Len(s) = 0 /\ 0 + 1 = 1 /\ Len(s) <= Len(s)
    BY <1>0
  <2>. QED
    BY <1>7, <2>1
<1>9. Len(enc[0]) + 1 = 1
  <2>1. enc[0] = <<>>
    BY <1>0, <1>1, EncodingEquation
  <2>. QED
    BY <2>1
<1>. QED
  <2>1. SubSeq(s, 1, Len(s)) = s
    BY <1>0
  <2>. QED
    BY <1>2, <1>3, <1>8, <1>9, <2>1

\* utils::url_decode leaves a string alone in which nothing looks like an escape,
\* though there may be a '%' in it, at its end too.
THEOREM DecodeKeepsPlain ==
  ASSUME NEW s \in Strings, \A i \in DOMAIN s : ~EscapeAt(s, i)
  PROVE  url_decode(s) = s
<1>0. Len(s) \in Nat /\ s \in Seq(0 .. 255) /\ DOMAIN s = 1 .. Len(s)
  BY DEF Strings
<1>1. PICK r : IsDecoding(r, s) /\ url_decode(s) = r[1]
  BY <1>0, DecodeIsDecoding
<1>. DEFINE Decoded == {d \in Nat : d <= Len(s) =>
                         r[Len(s) - d + 1] = SubSeq(s, Len(s) - d + 1, Len(s))}
<1>2. 0 \in Decoded
  <2>1. Len(s) - 0 + 1 = Len(s) + 1 /\ Len(s) + 1 \in 1 .. Len(s) + 1 /\ Len(s) + 1 > Len(s)
    BY <1>0
  <2>2. SubSeq(s, Len(s) + 1, Len(s)) = <<>>
    BY <1>0
  <2>3. r[Len(s) + 1] = <<>>
    BY <1>1, <2>1, DecodingEquation DEF DecodeStep
  <2>. QED
    BY <2>1, <2>2, <2>3
<1>3. ASSUME NEW d \in Decoded PROVE d + 1 \in Decoded
  <2>1. d \in Nat
    OBVIOUS
  <2>2. ASSUME d + 1 <= Len(s)
        PROVE  r[Len(s) - (d + 1) + 1] = SubSeq(s, Len(s) - (d + 1) + 1, Len(s))
    <3>1. PICK n \in 1 .. Len(s) : n = Len(s) - (d + 1) + 1 /\ n + 1 = Len(s) - d + 1
      BY <1>0, <2>1, <2>2, OneMore, Zenon
    <3>2. n \in 1 .. Len(s) + 1 /\ ~(n > Len(s)) /\ ~EscapeAt(s, n)
      <4>1. n \in 1 .. Len(s) + 1 /\ ~(n > Len(s))
        BY <1>0
      <4>2. ~EscapeAt(s, n)
        BY <1>0, Zenon
      <4>. QED
        BY <4>1, <4>2
    <3>3. r[n] = <<s[n]>> \o r[n + 1]
      <4>1. r[n] = DecodeStep(s, n, r)
        BY <1>1, <3>2, DecodingEquation
      <4>. QED
        BY <3>2, <4>1 DEF DecodeStep
    <3>4. r[n + 1] = SubSeq(s, n + 1, Len(s))
      <4>1. d <= Len(s)
        BY <1>0, <2>1, <2>2
      <4>. QED
        BY <3>1, <4>1
    <3>5. <<s[n]>> \o SubSeq(s, n + 1, Len(s)) = SubSeq(s, n, Len(s))
      <4>1. Len(s) \in n .. Len(s)
        BY <1>0
      <4>. QED
        BY <1>0, <4>1, SubSeqRecursiveFirst
    <3>6. r[n] = SubSeq(s, n, Len(s))
      BY <3>3, <3>4, <3>5, Zenon
    <3>. QED
      BY <3>1, <3>6, Zenon
  <2>. QED
    BY <2>1, <2>2
<1>4. Decoded \in SUBSET Nat
  OBVIOUS
<1>5. Len(s) \in Decoded
  <2>. HIDE DEF Decoded
  <2>. QED
    BY <1>0, <1>2, <1>3, <1>4, NatInduces
<1>6. r[1] = SubSeq(s, 1, Len(s))
  <2>1. Len(s) - Len(s) + 1 = 1 /\ Len(s) <= Len(s)
    BY <1>0
  <2>. QED
    BY <1>5, <2>1
<1>. QED
  BY <1>0, <1>1, <1>6

-----------------------------------------------------------------------------
(* The groups of the regular expression *)

\* What the first place is,
LEMMA FirstIs ==
  ASSUME NEW S, NEW text \in Seq(S), NEW stops, NEW p \in 1 .. Len(text) + 1,
         \A i \in 1 .. p - 1 : text[i] \notin stops, p <= Len(text) => text[p] \in stops
  PROVE  First(text, stops) = p
<1>. DEFINE places == {Len(text) + 1} \cup {i \in DOMAIN text : text[i] \in stops}
<1>1. Len(text) \in Nat /\ DOMAIN text = 1 .. Len(text)
  OBVIOUS
<1>2. p \in places /\ \A i \in places : i \in Nat /\ p <= i
  BY <1>1
<1>. HIDE DEF places
<1>3. \A m \in places : (\A i \in places : m <= i) => m = p
  BY <1>1, <1>2
<1>4. Min(places) = p
  BY <1>2, <1>3 DEF Min
<1>. QED
  BY <1>4 DEF First, places

\* and that there is one.
LEMMA FirstFacts ==
  ASSUME NEW S, NEW text \in Seq(S), NEW stops
  PROVE  /\ First(text, stops) \in 1 .. Len(text) + 1
         /\ \A i \in 1 .. First(text, stops) - 1 : text[i] \notin stops
         /\ First(text, stops) <= Len(text) => text[First(text, stops)] \in stops
<1>. DEFINE places == {Len(text) + 1} \cup {i \in DOMAIN text : text[i] \in stops}
<1>1. Len(text) \in Nat /\ DOMAIN text = 1 .. Len(text)
  OBVIOUS
<1>2. PICK p \in places : \A i \in places : p <= i
  <2>1. places \in SUBSET Nat /\ places # {}
    BY <1>1
  <2>. HIDE DEF places
  <2>. QED
    BY <2>1, LeastNat
<1>3. /\ p \in 1 .. Len(text) + 1 /\ \A i \in 1 .. p - 1 : text[i] \notin stops
      /\ p <= Len(text) => text[p] \in stops
  <2>1. p \in 1 .. Len(text) + 1 /\ (p <= Len(text) => text[p] \in stops)
    BY <1>1, <1>2
  <2>2. ASSUME NEW i \in 1 .. p - 1, text[i] \in stops PROVE FALSE
    <3>1. i \in places /\ ~(p <= i)
      BY <1>1, <2>1, <2>2
    <3>. QED
      BY <1>2, <3>1
  <2>. QED
    BY <2>1, <2>2
<1>4. First(text, stops) = p
  BY <1>3, FirstIs
<1>. QED
  BY <1>3, <1>4

\* What stands before the first of the stops, and what comes from it on.
LEMMA SplitAtStop ==
  ASSUME NEW S, NEW a \in Seq(S), NEW b \in Seq(S), NEW stops,
         \A i \in 1 .. Len(a) : a[i] \notin stops, b = <<>> \/ b[1] \in stops
  PROVE  Until(a \o b, stops) = a /\ From(a \o b, Len(a) + 1) = b
<1>1. PICK t \in Seq(S) : t = a \o b
  BY ConcatProperties, Zenon
<1>2. /\ Len(t) = Len(a) + Len(b) /\ Len(a) \in Nat /\ Len(b) \in Nat
      /\ \A i \in 1 .. Len(a) : t[i] = a[i] /\ \A k \in 1 .. Len(b) : t[Len(a) + k] = b[k]
  BY <1>1
<1>3. First(t, stops) = Len(a) + 1
  <2>1. Len(a) + 1 \in 1 .. Len(t) + 1 /\ \A i \in 1 .. (Len(a) + 1) - 1 : t[i] \notin stops
    BY <1>2
  <2>2. ASSUME Len(a) + 1 <= Len(t) PROVE t[Len(a) + 1] \in stops
    <3>1. Len(b) >= 1 /\ b # <<>>
      BY <1>2, <2>2
    <3>. QED
      BY <1>1, <1>2, <3>1
  <2>. QED
    BY <2>1, <2>2, FirstIs
<1>4. SubSeq(t, 1, Len(a)) = a
  BY <1>1, <1>2
<1>5. SubSeq(t, Len(a) + 1, Len(t)) = b
  BY <1>1, <1>2
<1>6. (Len(a) + 1) - 1 = Len(a)
  BY <1>2
<1>. QED
  BY <1>1, <1>3, <1>4, <1>5, <1>6 DEF Until, From

\* The text of a URL that names its parts.
Behind(u) == u.name \o (u.service \o u.after)
Rest(u) == u.userinfo \o Behind(u)

LEMMA PartsAreStrings ==
  ASSUME NEW u \in Urls
  PROVE  /\ u.slashes \in Strings /\ u.userinfo \in Strings /\ u.name \in Strings
         /\ u.service \in Strings /\ u.after \in Strings /\ u.host \in Strings
         /\ Behind(u) \in Strings /\ Rest(u) \in Strings
<1>1. /\ u.slashes \in Strings /\ u.userinfo \in Strings /\ u.name \in Strings
      /\ u.service \in Strings /\ u.after \in Strings /\ u.host \in Strings
  BY DEF Urls
<1>2. \A a, b \in Strings : a \o b \in Strings
  BY DEF Strings
<1>. QED
  BY <1>1, <1>2 DEF Behind, Rest

\* All its slashes are skipped,
LEMMA SlashesSkipped ==
  ASSUME NEW u \in Urls, Names(u)
  PROVE  AfterSlashes(Text(u)) = Rest(u)
<1>1. PICK rest \in Strings : rest = Rest(u)
  BY PartsAreStrings
<1>2. Text(u) = u.slashes \o rest
  BY <1>1 DEF Text, Rest, Behind
<1>3. /\ u.slashes \in {<<>>, <<SLASH>>, <<SLASH, SLASH>>}
      /\ rest # <<>> => rest[1] # SLASH
  BY <1>1 DEF Names, Rest, Behind
<1>4. rest \in Seq(0 .. 255) /\ SLASH \in 0 .. 255 /\ Len(rest) \in Nat
  BY DEF Strings, SLASH
<1>5. CASE u.slashes = <<>>
  <2>1. Text(u) = rest
    BY <1>2, <1>4, <1>5
  <2>2. ~(Len(rest) > 0 /\ rest[1] = SLASH)
    BY <1>3, <1>4
  <2>. QED
    BY <1>1, <2>1, <2>2 DEF AfterSlashes
<1>6. CASE u.slashes = <<SLASH>>
  <2>1. PICK t \in Seq(0 .. 255) : t = <<SLASH>> \o rest
    <3>1. <<SLASH>> \in Seq(0 .. 255)
      BY <1>4
    <3>. QED
      BY <1>4, <3>1, ConcatProperties, Zenon
  <2>2. /\ Len(t) = 1 + Len(rest) /\ t[1] = SLASH
        /\ \A k \in 1 .. Len(rest) : t[1 + k] = rest[k]
    BY <1>4, <2>1
  <2>3. ~(Len(t) > 1 /\ t[2] = SLASH) /\ Len(t) > 0
    <3>1. ASSUME Len(t) > 1 PROVE t[2] # SLASH
      <4>1. 1 \in 1 .. Len(rest) /\ rest # <<>> /\ 1 + 1 = 2
        BY <1>4, <2>2, <3>1
      <4>. QED
        BY <1>3, <2>2, <4>1
    <3>. QED
      BY <1>4, <2>2, <3>1
  <2>4. SubSeq(t, 2, Len(t)) = rest
    BY <1>4, <2>1, <2>2
  <2>. QED
    BY <1>1, <1>2, <1>6, <2>1, <2>2, <2>3, <2>4 DEF AfterSlashes, From
<1>7. CASE u.slashes = <<SLASH, SLASH>>
  <2>1. PICK t \in Seq(0 .. 255) : t = <<SLASH, SLASH>> \o rest
    <3>1. <<SLASH, SLASH>> \in Seq(0 .. 255)
      BY <1>4
    <3>. QED
      BY <1>4, <3>1, ConcatProperties, Zenon
  <2>2. /\ Len(t) = 2 + Len(rest) /\ t[1] = SLASH /\ t[2] = SLASH
        /\ \A k \in 1 .. Len(rest) : t[2 + k] = rest[k]
    BY <1>4, <2>1
  <2>3. SubSeq(t, 3, Len(t)) = rest
    BY <1>4, <2>1, <2>2
  <2>4. Len(t) > 0 /\ Len(t) > 1
    BY <1>4, <2>2
  <2>. QED
    BY <1>1, <1>2, <1>7, <2>1, <2>2, <2>3, <2>4 DEF AfterSlashes, From
<1>. QED
  BY <1>3, <1>5, <1>6, <1>7

\* and so is its user;
LEMMA UserSkipped ==
  ASSUME NEW u \in Urls, Names(u)
  PROVE  Authority(Text(u)) = Behind(u)
<1>1. PICK rest \in Seq(0 .. 255), tail \in Seq(0 .. 255), user \in Seq(0 .. 255) :
         rest = Rest(u) /\ tail = Behind(u) /\ user = u.userinfo
  BY PartsAreStrings DEF Strings
<1>2. rest = user \o tail /\ AfterSlashes(Text(u)) = rest
  BY <1>1, SlashesSkipped DEF Rest
<1>3. /\ Len(rest) = Len(user) + Len(tail) /\ Len(user) \in Nat /\ Len(tail) \in Nat
      /\ \A i \in 1 .. Len(user) : rest[i] = user[i]
  BY <1>2
<1>4. CASE user = <<>>
  <2>1. rest = tail
    BY <1>2, <1>4
  <2>2. \A i \in 1 .. Len(tail) : tail[i] # AT
    <3>1. PICK a \in Seq(0 .. 255), b \in Seq(0 .. 255), c \in Seq(0 .. 255) :
             a = u.name /\ b = u.service /\ c = u.after
      BY PartsAreStrings DEF Strings
    <3>2. /\ \A i \in 1 .. Len(a) : a[i] # AT
          /\ \A i \in 1 .. Len(b) : b[i] # AT
          /\ \A i \in 1 .. Len(c) : c[i] # AT
      BY <3>1 DEF Names
    <3>3. PICK d \in Seq(0 .. 255) : d = b \o c
      BY ConcatProperties, Zenon
    <3>4. \A i \in 1 .. Len(d) : d[i] # AT
      BY <3>2, <3>3, ConcatProperties
    <3>5. tail = a \o d
      BY <1>1, <3>1, <3>3 DEF Behind
    <3>. QED
      BY <3>2, <3>4, <3>5, ConcatProperties
  <2>3. First(rest, {AT}) = Len(rest) + 1
    <3>1. Len(rest) + 1 \in 1 .. Len(rest) + 1 /\ ~(Len(rest) + 1 <= Len(rest))
          /\ \A i \in 1 .. (Len(rest) + 1) - 1 : rest[i] \notin {AT}
      BY <1>3, <2>1, <2>2
    <3>. QED
      BY <3>1, FirstIs
  <2>4. ~(First(rest, {AT}) <= Len(rest))
    BY <2>3
  <2>. QED
    BY <1>1, <1>2, <2>1, <2>4 DEF Authority
<1>5. CASE user # <<>>
  <2>1. First(user, {AT}) = Len(user)
    BY <1>1, <1>5 DEF Names
  <2>2. /\ \A i \in 1 .. Len(user) - 1 : user[i] \notin {AT}
        /\ user[Len(user)] \in {AT} /\ Len(user) \in 1 .. Len(user) + 1 /\ Len(user) > 0
    BY <1>3, <2>1, FirstFacts
  <2>3. First(rest, {AT}) = Len(user)
    <3>1. Len(user) \in 1 .. Len(rest) + 1
      BY <1>3, <2>2
    <3>2. \A i \in 1 .. Len(user) - 1 : rest[i] \notin {AT}
      <4>1. \A i \in 1 .. Len(user) - 1 : rest[i] = user[i]
        BY <1>3
      <4>. QED
        BY <2>2, <4>1, Zenon
    <3>3. rest[Len(user)] \in {AT}
      BY <1>3, <2>2
    <3>. QED
      BY <3>1, <3>2, <3>3, FirstIs
  <2>4. SubSeq(rest, Len(user) + 1, Len(rest)) = tail
    BY <1>2, <1>3
  <2>5. Len(user) <= Len(rest)
    BY <1>3
  <2>. QED
    BY <1>1, <1>2, <2>3, <2>4, <2>5 DEF Authority, From
<1>. QED
  BY <1>4, <1>5

LEMMA AllButFirst ==
  ASSUME NEW S, NEW s \in Seq(S), s # <<>>
  PROVE  /\ SubSeq(s, 2, Len(s)) \in Seq(S) /\ Len(SubSeq(s, 2, Len(s))) = Len(s) - 1
         /\ \A i \in 1 .. Len(s) - 1 : SubSeq(s, 2, Len(s))[i] = s[i + 1]
<1>1. Len(s) \in Nat /\ Len(s) >= 1
  OBVIOUS
<1>2. \A i \in 2 .. Len(s) : s[i] \in S
  BY <1>1
<1>3. /\ SubSeq(s, 2, Len(s)) \in Seq(S)
      /\ Len(SubSeq(s, 2, Len(s))) = IF 2 <= Len(s) THEN Len(s) - 2 + 1 ELSE 0
      /\ \A i \in 1 .. Len(s) - 2 + 1 : SubSeq(s, 2, Len(s))[i] = s[2 + i - 1]
  BY <1>1, <1>2, SubSeqProperties
<1>4. (IF 2 <= Len(s) THEN Len(s) - 2 + 1 ELSE 0) = Len(s) - 1 /\ Len(s) - 2 + 1 = Len(s) - 1
  <2>1. PICK len \in Nat : len = Len(s) /\ len >= 1
    BY <1>1
  <2>2. (IF 2 <= len THEN len - 2 + 1 ELSE 0) = len - 1 /\ len - 2 + 1 = len - 1
    BY <2>1
  <2>. QED
    BY <2>1, <2>2
<1>5. \A i \in 1 .. Len(s) - 1 : 2 + i - 1 = i + 1
  BY <1>1
<1>. QED
  BY <1>3, <1>4, <1>5

\* then its host and its service are found.
LEMMA HostFound ==
  ASSUME NEW u \in Urls, Names(u)
  PROVE  /\ Host(Text(u)) = u.name
         /\ From(Authority(Text(u)), Len(Host(Text(u))) + 1) = u.service \o u.after
<1>1. PICK a \in Seq(0 .. 255), b \in Seq(0 .. 255), c \in Seq(0 .. 255) :
         a = u.name /\ b = u.service /\ c = u.after
  BY PartsAreStrings DEF Strings
<1>2. PICK d \in Seq(0 .. 255) : d = b \o c
  BY ConcatProperties, Zenon
<1>3. Authority(Text(u)) = a \o d
  BY <1>1, <1>2, UserSkipped DEF Behind
<1>4. \A i \in 1 .. Len(a) : a[i] \notin HostEnds
  BY <1>1 DEF Names
<1>5. d = <<>> \/ d[1] \in HostEnds
  <2>1. /\ b # <<>> => b[1] = COLON
        /\ c # <<>> => c[1] \in {SLASH, QUERY, HASH}
    BY <1>1 DEF Names
  <2>2. CASE b = <<>>
    BY <1>2, <2>1, <2>2 DEF HostEnds
  <2>3. CASE b # <<>>
    <3>1. d[1] = b[1]
      BY <1>2, <2>3
    <3>. QED
      BY <2>1, <2>3, <3>1 DEF HostEnds
  <2>. QED
    BY <2>2, <2>3
<1>6. Until(a \o d, HostEnds) = a /\ From(a \o d, Len(a) + 1) = d
  BY <1>4, <1>5, SplitAtStop
<1>. QED
  BY <1>1, <1>2, <1>3, <1>6 DEF Host

LEMMA ServiceFound ==
  ASSUME NEW u \in Urls, Names(u)
  PROVE  Service(Text(u)) = From(u.service, 2)
<1>1. PICK b \in Seq(0 .. 255), c \in Seq(0 .. 255) : b = u.service /\ c = u.after
  BY PartsAreStrings DEF Strings
<1>2. PICK d \in Seq(0 .. 255) : d = b \o c
  BY ConcatProperties, Zenon
<1>3. From(Authority(Text(u)), Len(Host(Text(u))) + 1) = d
  BY <1>1, <1>2, HostFound
<1>4. /\ b # <<>> => b[1] = COLON
      /\ c # <<>> => c[1] \in {SLASH, QUERY, HASH}
      /\ \A i \in 1 .. Len(b) : b[i] \notin {SLASH, QUERY, HASH}
  BY <1>1 DEF Names
<1>5. Len(b) \in Nat /\ Len(c) \in Nat
  OBVIOUS
<1>6. CASE b = <<>>
  <2>1. d = c /\ From(b, 2) = <<>>
    BY <1>2, <1>6 DEF From
  <2>2. ~(d # <<>> /\ d[1] = COLON)
    BY <1>4, <2>1 DEF SLASH, QUERY, HASH, COLON
  <2>. QED
    BY <1>1, <1>3, <2>1, <2>2 DEF Service
<1>7. CASE b # <<>>
  <2>1. PICK e \in Seq(0 .. 255) : e = SubSeq(b, 2, Len(b))
    <3>1. SubSeq(b, 2, Len(b)) \in Seq(0 .. 255)
      BY <1>7, AllButFirst
    <3>. QED
      BY <3>1
  <2>2. Len(e) = Len(b) - 1 /\ \A i \in 1 .. Len(e) : e[i] = b[i + 1] /\ i + 1 \in 1 .. Len(b)
    <3>1. /\ Len(e) = Len(b) - 1 /\ \A i \in 1 .. Len(b) - 1 : e[i] = b[i + 1]
      BY <1>7, <2>1, AllButFirst
    <3>. QED
      BY <1>5, <3>1
  <2>3. \A i \in 1 .. Len(e) : e[i] \notin {SLASH, QUERY, HASH}
    BY <1>4, <2>2
  <2>4. Until(e \o c, {SLASH, QUERY, HASH}) = e
    BY <1>4, <2>3, SplitAtStop
  <2>5. d # <<>> /\ d[1] = COLON
    BY <1>2, <1>4, <1>7
  <2>6. SubSeq(d, 2, Len(d)) = e \o c
    <3>1. PICK f \in Seq(0 .. 255), g \in Seq(0 .. 255) : f = SubSeq(d, 2, Len(d)) /\ g = e \o c
      <4>1. SubSeq(d, 2, Len(d)) \in Seq(0 .. 255)
        BY <2>5, AllButFirst
      <4>2. e \o c \in Seq(0 .. 255)
        BY ConcatProperties, Zenon
      <4>. QED
        BY <4>1, <4>2
    <3>2. Len(f) = Len(g)
      <4>1. Len(f) = Len(d) - 1 /\ Len(d) = Len(b) + Len(c) /\ Len(g) = Len(e) + Len(c)
        BY <1>2, <2>5, <3>1, AllButFirst
      <4>. QED
        BY <1>5, <2>2, <4>1
    <3>3. ASSUME NEW i \in 1 .. Len(g) PROVE f[i] = g[i]
      <4>1. f[i] = d[i + 1] /\ i + 1 \in 1 .. Len(b) + Len(c)
        <5>1. Len(d) = Len(b) + Len(c) /\ Len(g) = Len(e) + Len(c)
          BY <1>2, <3>1
        <5>2. i \in 1 .. Len(d) - 1
          BY <1>5, <2>2, <5>1
        <5>3. f[i] = d[i + 1]
          BY <2>5, <3>1, <5>2, AllButFirst
        <5>. QED
          BY <1>5, <2>2, <5>1, <5>3
      <4>2. d[i + 1] = IF i + 1 <= Len(b) THEN b[i + 1] ELSE c[(i + 1) - Len(b)]
        BY <1>2, <4>1, ConcatProperties
      <4>3. g[i] = IF i <= Len(e) THEN e[i] ELSE c[i - Len(e)]
        BY <3>1, ConcatProperties
      <4>4. (i + 1) - Len(b) = i - Len(e) /\ (i + 1 <= Len(b) <=> i <= Len(e))
        BY <1>5, <2>2
      <4>. QED
        BY <2>2, <4>1, <4>2, <4>3, <4>4
    <3>. QED
      BY <3>1, <3>2, <3>3, SeqEqual
  <2>. QED
    BY <1>1, <1>3, <2>1, <2>4, <2>5, <2>6 DEF Service, From
<1>. QED
  BY <1>6, <1>7

-----------------------------------------------------------------------------
(* The URLs of the configuration *)

\* A URL and the server it is of.
Configured == [url : Urls, server : Servers]

Listing ==
  [s \in DOMAIN servers |->
    [n \in DOMAIN servers[s].urls |-> [url |-> servers[s].urls[n], server |-> servers[s]]]]

Parsed == {IceServer(c.url, c.server) : c \in Configured}

\* What is parsed so far: every URL of the servers before the next one, and
\* those of the next one before its next one, none of them refused.
ParseInv ==
  /\ servers \in Configs
  /\ next \in (1 .. Len(servers) + 1) \X (Nat \ {0})
  /\ next[1] <= Len(servers) => next[2] <= Len(servers[next[1]].urls) + 1
  /\ next[1] > Len(servers) => next[2] = 1
  /\ \A s \in 1 .. next[1] - 1 : servers[s].kind = "urls"
  /\ iceServers \in Seq(Parsed)
  /\ \E off : AreOffsets(off, Listing) /\ Len(iceServers) = off[next[1]] + next[2] - 1
  /\ \A n \in DOMAIN iceServers :
       /\ iceServers[n] = IceServer(AllUrls[n].url, AllUrls[n].server)
       /\ ~Throws(AllUrls[n].url)
       /\ \E s \in DOMAIN servers : \E k \in DOMAIN servers[s].urls :
            AllUrls[n] = [url |-> servers[s].urls[k], server |-> servers[s]]

-----------------------------------------------------------------------------
(* The vector of strings *)

Strung == {Url(p) : p \in Parsed} \cup {Blank}

\* The capacity grows to no less than the double of it, as it does in the
\* standard libraries the program is built with.
GrowsEnough == \A n \in Nat : Grow(n) \in Nat /\ Grow(n) >= 2 * n

\* Before the first string is pushed, the vector is full of empty ones; there
\* is room for all strings after it.
MemoryInv ==
  /\ hostnames \in Seq([block : Nat, index : Nat])
  /\ server_urls \in [block : Nat, capacity : Nat, items : Seq(Strung)]
  /\ result = "none" => told = <<>>
  /\ server_urls.block = 0 => hostnames = <<>>
  /\ server_urls.block > 0 =>
       /\ next[1] > Len(servers)
       /\ Len(hostnames) <= Len(iceServers)
       /\ Len(server_urls.items) = Len(iceServers) + Len(hostnames)
       /\ hostnames = <<>> => server_urls.capacity = Len(iceServers)
       /\ hostnames # <<>> => server_urls.capacity >= 2 * Len(iceServers)
       /\ \A n \in DOMAIN hostnames :
            /\ hostnames[n] = [block |-> server_urls.block, index |-> Len(iceServers) + n]
            /\ server_urls.items[Len(iceServers) + n] = Url(iceServers[n])

-----------------------------------------------------------------------------
\* The URLs of each server are a sequence, and so are these sequences.
LEMMA ListingIsSeq ==
  ASSUME servers \in Configs
  PROVE  /\ servers \in Seq(Servers)
         /\ \A s \in 1 .. Len(servers) : servers[s] \in Servers /\ servers[s].urls \in Seq(Urls)
         /\ Listing \in Seq(Seq(Configured)) /\ Len(Listing) = Len(servers)
         /\ \A s \in 1 .. Len(servers) :
              /\ Len(Listing[s]) = Len(servers[s].urls)
              /\ \A n \in 1 .. Len(servers[s].urls) :
                   Listing[s][n] = [url |-> servers[s].urls[n], server |-> servers[s]]
<1>1. servers \in Seq(Servers)
  BY ConfigsAssumption
<1>2. /\ Len(servers) \in Nat /\ DOMAIN servers = 1 .. Len(servers)
      /\ \A s \in 1 .. Len(servers) : servers[s] \in Servers /\ servers[s].urls \in Seq(Urls)
  <2>1. \A server \in Servers : server.urls \in Seq(Urls)
    BY DEF Servers
  <2>. QED
    BY <1>1, <2>1
<1>. DEFINE Of(s) ==
       [n \in DOMAIN servers[s].urls |-> [url |-> servers[s].urls[n], server |-> servers[s]]]
<1>3. ASSUME NEW s \in 1 .. Len(servers)
      PROVE  /\ Of(s) \in Seq(Configured) /\ Len(Of(s)) = Len(servers[s].urls)
             /\ \A n \in 1 .. Len(servers[s].urls) :
                  Of(s)[n] = [url |-> servers[s].urls[n], server |-> servers[s]]
  <2>1. PICK urls \in Seq(Urls), server \in Servers : urls = servers[s].urls /\ server = servers[s]
    BY <1>2
  <2>2. \A n \in 1 .. Len(urls) : [url |-> urls[n], server |-> server] \in Configured
    BY <2>1 DEF Configured
  <2>3. DOMAIN urls = 1 .. Len(urls) /\ Len(urls) \in Nat
    OBVIOUS
  <2>. DEFINE of == [n \in 1 .. Len(urls) |-> [url |-> urls[n], server |-> server]]
  <2>4. of \in [1 .. Len(urls) -> Configured]
    BY <2>2
  <2>5. of \in Seq(Configured) /\ Len(of) = Len(urls)
    <3>. HIDE DEF of
    <3>. QED
      BY <2>3, <2>4
  <2>6. Of(s) = of
    BY <2>1, <2>3
  <2>. QED
    BY <2>1, <2>5, <2>6
<1>. HIDE DEF Of
<1>4. PICK listing : listing = [s \in 1 .. Len(servers) |-> Of(s)]
  OBVIOUS
<1>5. listing \in [1 .. Len(servers) -> Seq(Configured)]
  BY <1>3, <1>4
<1>6. listing \in Seq(Seq(Configured)) /\ Len(listing) = Len(servers)
  BY <1>2, <1>5
<1>7. Listing = listing
  BY <1>2, <1>4 DEF Listing, Of
<1>8. \A s \in 1 .. Len(servers) : listing[s] = Of(s)
  BY <1>4
<1>. QED
  BY <1>1, <1>2, <1>3, <1>6, <1>7, <1>8

LEMMA AllUrlsListed == AllUrls = FlattenSeq(Listing)
  BY DEF AllUrls, Listing

\* The URL that is parsed next, among all of them.
LEMMA NextUrl ==
  ASSUME ParseInv, next[1] <= Len(servers), next[2] <= Len(servers[next[1]].urls)
  PROVE  /\ servers[next[1]].urls[next[2]] \in Urls /\ servers[next[1]] \in Servers
         /\ next[1] \in DOMAIN servers /\ next[2] \in DOMAIN servers[next[1]].urls
         /\ AllUrls[Len(iceServers) + 1] =
              [url |-> servers[next[1]].urls[next[2]], server |-> servers[next[1]]]
<1>1. servers \in Configs /\ next \in (1 .. Len(servers) + 1) \X (Nat \ {0})
  BY DEF ParseInv
<1>2. PICK off : AreOffsets(off, Listing) /\ Len(iceServers) = off[next[1]] + next[2] - 1
  BY DEF ParseInv
<1>3. PICK s \in 1 .. Len(servers), n \in Nat \ {0} :
         s = next[1] /\ n = next[2] /\ n \in 1 .. Len(servers[s].urls)
  <2>1. next[1] \in 1 .. Len(servers) /\ Len(servers[next[1]].urls) \in Nat
    BY <1>1, ListingIsSeq
  <2>2. next[2] \in 1 .. Len(servers[next[1]].urls)
    BY <1>1, <2>1
  <2>. QED
    BY <2>1, <2>2
<1>4. /\ servers[s] \in Servers /\ servers[s].urls \in Seq(Urls) /\ s \in DOMAIN servers
      /\ n \in DOMAIN servers[s].urls /\ servers[s].urls[n] \in Urls
  BY <1>1, <1>3, ListingIsSeq
<1>5. Listing[s][n] = [url |-> servers[s].urls[n], server |-> servers[s]]
  BY <1>1, <1>3, ListingIsSeq
<1>6. FlattenSeq(Listing)[off[s] + n] = Listing[s][n] /\ off[s] \in Nat
  <2>1. /\ s \in 1 .. Len(Listing) /\ n \in 1 .. Len(Listing[s]) /\ s \in 1 .. Len(Listing) + 1
    BY <1>1, <1>3, ListingIsSeq
  <2>. QED
    BY <1>2, <2>1 DEF AreOffsets
<1>7. Len(iceServers) + 1 = off[s] + n
  BY <1>2, <1>3, <1>6
<1>. QED
  BY <1>3, <1>4, <1>5, <1>6, <1>7, AllUrlsListed

LEMMA SameConfig ==
  ASSUME servers' = servers
  PROVE  Listing' = Listing /\ AllUrls' = AllUrls
  BY DEF Listing, AllUrls

LEMMA ParseInit == Init => ParseInv
<1>. SUFFICES ASSUME Init PROVE ParseInv
  OBVIOUS
<1>1. /\ servers \in Configs /\ next = <<1, 1>> /\ iceServers = <<>>
      /\ servers \in Seq(Servers)
  BY ConfigsAssumption DEF Init
<1>2. Len(servers) \in Nat
  BY <1>1
<1>3. /\ next \in (1 .. Len(servers) + 1) \X (Nat \ {0})
      /\ next[1] = 1 /\ next[2] = 1 /\ \A s \in 1 .. next[1] - 1 : FALSE
  BY <1>1, <1>2
<1>4. next[1] <= Len(servers) => next[2] <= Len(servers[next[1]].urls) + 1
  <2>1. ASSUME 1 <= Len(servers) PROVE Len(servers[1].urls) \in Nat
    <3>1. 1 \in 1 .. Len(servers)
      BY <1>2, <2>1
    <3>2. servers[1].urls \in Seq(Urls)
      BY <1>1, <3>1, ListingIsSeq
    <3>. QED
      BY <3>2
  <2>. QED
    BY <1>3, <2>1
<1>5. \E off : AreOffsets(off, Listing) /\ Len(iceServers) = off[next[1]] + next[2] - 1
  <2>1. PICK off : AreOffsets(off, Listing)
    BY <1>1, ListingIsSeq, OffsetsExist
  <2>2. off[1] = 0
    BY <2>1 DEF AreOffsets
  <2>3. Len(iceServers) = off[next[1]] + next[2] - 1
    BY <1>1, <1>3, <2>2
  <2>. QED
    BY <2>1, <2>3
<1>6. iceServers \in Seq(Parsed) /\ DOMAIN iceServers = {}
  BY <1>1
<1>. QED
  BY <1>1, <1>3, <1>4, <1>5, <1>6 DEF ParseInv

LEMMA ParseUrlKeeps == ParseInv /\ ParseUrl => ParseInv'
<1>. SUFFICES ASSUME ParseInv, ParseUrl PROVE ParseInv'
  OBVIOUS
<1>1. /\ next[1] <= Len(servers) /\ next[2] <= Len(servers[next[1]].urls)
      /\ next' = <<next[1], next[2] + 1>> /\ servers' = servers
      /\ servers[next[1]].kind = "urls"
  BY DEF ParseUrl, Parsing
<1>2. PICK u \in Urls, server \in Servers :
         u = servers[next[1]].urls[next[2]] /\ server = servers[next[1]]
  BY <1>1, NextUrl
<1>3. ~Throws(u) /\ iceServers' = Append(iceServers, IceServer(u, server))
  BY <1>2 DEF ParseUrl
<1>4. AllUrls[Len(iceServers) + 1] = [url |-> u, server |-> server]
  BY <1>1, <1>2, NextUrl
<1>5. /\ servers \in Configs /\ next \in (1 .. Len(servers) + 1) \X (Nat \ {0})
      /\ next[1] > Len(servers) => next[2] = 1
      /\ \A s \in 1 .. next[1] - 1 : servers[s].kind = "urls"
      /\ iceServers \in Seq(Parsed)
  BY DEF ParseInv
<1>6. next[1] \in Nat /\ next[2] \in Nat /\ next'[1] = next[1] /\ next'[2] = next[2] + 1
  BY <1>1, <1>5
<1>7. /\ next' \in (1 .. Len(servers) + 1) \X (Nat \ {0})
      /\ next'[1] <= Len(servers) => next'[2] <= Len(servers[next'[1]].urls) + 1
      /\ next'[1] > Len(servers) => next'[2] = 1
  <2>1. Len(servers) \in Nat
    BY <1>5, ListingIsSeq
  <2>2. Len(servers[next[1]].urls) \in Nat
    <3>1. servers[next[1]].urls \in Seq(Urls)
      <4>1. next[1] \in 1 .. Len(servers)
        BY <1>1, <1>5, <2>1
      <4>. QED
        BY <1>5, <4>1, ListingIsSeq
    <3>. QED
      BY <3>1
  <2>. QED
    BY <1>1, <1>5, <1>6, <2>1, <2>2
<1>8. PICK p : p = IceServer(u, server)
  OBVIOUS
<1>9. p \in Parsed
  <2>1. PICK c \in Configured : c = [url |-> u, server |-> server]
    BY DEF Configured
  <2>2. c.url = u /\ c.server = server
    BY <2>1
  <2>3. p = IceServer(c.url, c.server)
    BY <1>8, <2>2
  <2>. QED
    BY <2>3 DEF Parsed
<1>10. /\ iceServers' \in Seq(Parsed) /\ Len(iceServers') = Len(iceServers) + 1
       /\ \A n \in 1 .. Len(iceServers) : iceServers'[n] = iceServers[n]
       /\ iceServers'[Len(iceServers) + 1] = p
       /\ DOMAIN iceServers' = 1 .. Len(iceServers) + 1
       /\ DOMAIN iceServers = 1 .. Len(iceServers) /\ Len(iceServers) \in Nat
  BY <1>3, <1>5, <1>8, <1>9
<1>11. PICK off : AreOffsets(off, Listing) /\ Len(iceServers) = off[next[1]] + next[2] - 1
  BY DEF ParseInv
<1>12. Len(iceServers') = off[next'[1]] + next'[2] - 1
  <2>1. off[next[1]] \in Nat
    BY <1>5, <1>11, ListingIsSeq DEF AreOffsets
  <2>. QED
    BY <1>6, <1>10, <1>11, <2>1
<1>13. ASSUME NEW n \in DOMAIN iceServers'
       PROVE  /\ iceServers'[n] = IceServer(AllUrls[n].url, AllUrls[n].server)
              /\ ~Throws(AllUrls[n].url)
              /\ \E s \in DOMAIN servers : \E k \in DOMAIN servers[s].urls :
                   AllUrls[n] = [url |-> servers[s].urls[k], server |-> servers[s]]
  <2>1. CASE n \in DOMAIN iceServers
    BY <1>10, <2>1 DEF ParseInv
  <2>2. CASE n \notin DOMAIN iceServers
    <3>1. n = Len(iceServers) + 1
      BY <1>10, <2>2
    <3>2. AllUrls[n].url = u /\ AllUrls[n].server = server
      BY <1>4, <3>1
    <3>3. \E s \in DOMAIN servers : \E k \in DOMAIN servers[s].urls :
            AllUrls[n] = [url |-> servers[s].urls[k], server |-> servers[s]]
      BY <1>1, <3>1, NextUrl
    <3>. QED
      BY <1>3, <1>8, <1>10, <3>1, <3>2, <3>3
  <2>. QED
    BY <2>1, <2>2
<1>14. Listing' = Listing /\ AllUrls' = AllUrls
  BY <1>1, SameConfig
<1>15. \A s \in 1 .. next'[1] - 1 : servers[s].kind = "urls"
  BY <1>5, <1>6
<1>. QED
  BY <1>1, <1>5, <1>7, <1>10, <1>11, <1>12, <1>13, <1>14, <1>15 DEF ParseInv

LEMMA NextServerKeeps == ParseInv /\ NextServer => ParseInv'
<1>. SUFFICES ASSUME ParseInv, NextServer PROVE ParseInv'
  OBVIOUS
<1>1. /\ next[1] <= Len(servers) /\ next[2] > Len(servers[next[1]].urls)
      /\ next' = <<next[1] + 1, 1>> /\ servers' = servers /\ iceServers' = iceServers
      /\ servers[next[1]].kind = "urls"
  BY DEF NextServer, Parsing
<1>2. /\ servers \in Configs /\ next \in (1 .. Len(servers) + 1) \X (Nat \ {0})
      /\ next[2] <= Len(servers[next[1]].urls) + 1
      /\ \A s \in 1 .. next[1] - 1 : servers[s].kind = "urls"
  BY <1>1 DEF ParseInv
<1>3. Len(servers) \in Nat
  BY <1>2, ListingIsSeq
<1>4. PICK s \in 1 .. Len(servers) :
         s = next[1] /\ servers[s].urls \in Seq(Urls) /\ next'[1] = s + 1 /\ next'[2] = 1
  <2>1. next[1] \in 1 .. Len(servers) /\ next'[1] = next[1] + 1 /\ next'[2] = 1
    BY <1>1, <1>2, <1>3
  <2>. QED
    BY <1>2, <2>1, ListingIsSeq
<1>5. Len(servers[s].urls) \in Nat /\ next[2] = Len(servers[s].urls) + 1
  BY <1>1, <1>2, <1>4
<1>6. /\ next' \in (1 .. Len(servers) + 1) \X (Nat \ {0})
      /\ next'[1] > Len(servers) => next'[2] = 1
  BY <1>1, <1>2, <1>3, <1>4
<1>7. next'[1] <= Len(servers) => next'[2] <= Len(servers[next'[1]].urls) + 1
  <2>1. ASSUME s + 1 <= Len(servers) PROVE Len(servers[s + 1].urls) \in Nat
    <3>1. s + 1 \in 1 .. Len(servers)
      BY <1>3, <2>1
    <3>2. servers[s + 1].urls \in Seq(Urls)
      BY <1>2, <3>1, ListingIsSeq
    <3>. QED
      BY <3>2
  <2>. QED
    BY <1>4, <2>1
<1>8. PICK off : AreOffsets(off, Listing) /\ Len(iceServers) = off[next[1]] + next[2] - 1
  BY DEF ParseInv
<1>9. Len(iceServers) = off[next'[1]] + next'[2] - 1
  <2>1. /\ s \in 1 .. Len(Listing) + 1 /\ s + 1 \in 1 .. Len(Listing) + 1
        /\ s \in 1 .. Len(Listing) /\ Len(Listing[s]) = Len(servers[s].urls)
    BY <1>2, <1>3, ListingIsSeq
  <2>2. off[s] \in Nat /\ off[s + 1] = off[s] + Len(servers[s].urls)
    BY <1>8, <2>1 DEF AreOffsets
  <2>. QED
    BY <1>4, <1>5, <1>8, <2>2
<1>10. \A k \in 1 .. next'[1] - 1 : servers[k].kind = "urls"
  <2>1. ASSUME NEW k \in 1 .. next'[1] - 1 PROVE servers[k].kind = "urls"
    <3>1. k = s \/ k \in 1 .. next[1] - 1
      BY <1>4
    <3>. QED
      BY <1>1, <1>2, <1>4, <3>1
  <2>. QED
    BY <2>1
<1>11. Listing' = Listing /\ AllUrls' = AllUrls
  BY <1>1, SameConfig
<1>12. /\ iceServers \in Seq(Parsed)
       /\ \A n \in DOMAIN iceServers :
            /\ iceServers[n] = IceServer(AllUrls[n].url, AllUrls[n].server)
            /\ ~Throws(AllUrls[n].url)
            /\ \E k \in DOMAIN servers : \E m \in DOMAIN servers[k].urls :
                 AllUrls[n] = [url |-> servers[k].urls[m], server |-> servers[k]]
  BY DEF ParseInv
<1>. QED
  BY <1>1, <1>2, <1>6, <1>7, <1>8, <1>9, <1>10, <1>11, <1>12 DEF ParseInv

LEMMA ParseInvInductive == ParseInv /\ [Next]_vars => ParseInv'
<1>. SUFFICES ASSUME ParseInv, [Next]_vars PROVE ParseInv'
  OBVIOUS
<1>1. CASE ParseUrl
  BY <1>1, ParseUrlKeeps
<1>2. CASE NextServer
  BY <1>2, NextServerKeeps
<1>3. CASE ~ParseUrl /\ ~NextServer
  <2>1. UNCHANGED <<servers, next, iceServers>>
    BY <1>3 DEF Next, vars, NotADictionary, NoUrls, UrlThrows, SizeVectors, PushUrl,
       CreatePeerConnection
  <2>2. Listing' = Listing /\ AllUrls' = AllUrls
    BY <2>1, SameConfig
  <2>. QED
    BY <2>1, <2>2 DEF ParseInv
<1>. QED
  BY <1>1, <1>2, <1>3

\* _parse_ice_server: what is parsed is the configuration, in order, up to the URL
\* that is parsed next, none left out and none refused.
THEOREM ParsedInOrder == Spec => []ParseInv
<1>. QED
  BY ParseInit, ParseInvInductive, PTL DEF Spec

LEMMA MemoryInit == Init => MemoryInv
  BY DEF Init, MemoryInv, Strung

\* The vectors are not there while URLs are parsed.
LEMMA ParsingKeepsMemory ==
  ASSUME ParseInv, MemoryInv, ~SizeVectors, ~PushUrl, ~CreatePeerConnection, [Next]_vars
  PROVE  MemoryInv'
<1>1. CASE UNCHANGED vars
  BY <1>1 DEF MemoryInv, vars
<1>2. CASE NotADictionary \/ NoUrls \/ UrlThrows \/ ParseUrl \/ NextServer
  <2>1. /\ result = "none" /\ next[1] <= Len(servers)
        /\ UNCHANGED <<server_urls, hostnames, told>>
    BY <1>2 DEF NotADictionary, NoUrls, UrlThrows, ParseUrl, NextServer, Parsing
  <2>2. server_urls.block = 0
    <3>1. next[1] \in Nat /\ Len(servers) \in Nat /\ server_urls.block \in Nat
      BY ListingIsSeq DEF MemoryInv, ParseInv
    <3>. QED
      BY <2>1, <3>1 DEF MemoryInv
  <2>. QED
    BY <2>1, <2>2 DEF MemoryInv
<1>. QED
  BY <1>1, <1>2 DEF Next

LEMMA SizeVectorsKeepsMemory == ParseInv /\ MemoryInv /\ SizeVectors => MemoryInv'
<1>. SUFFICES ASSUME ParseInv, MemoryInv, SizeVectors PROVE MemoryInv'
  OBVIOUS
<1>1. /\ next[1] > Len(servers) /\ result = "none" /\ server_urls.block = 0
      /\ server_urls' = [block |-> 1, capacity |-> Len(iceServers),
                         items |-> [s \in 1 .. Len(iceServers) |-> Blank]]
      /\ UNCHANGED <<servers, next, iceServers, hostnames, told, result>>
  BY DEF SizeVectors, Creating
<1>2. hostnames = <<>> /\ iceServers \in Seq(Parsed) /\ told = <<>>
  BY <1>1 DEF MemoryInv, ParseInv
<1>3. Len(iceServers) \in Nat
  BY <1>2
<1>4. PICK blanks : blanks = [s \in 1 .. Len(iceServers) |-> Blank]
  OBVIOUS
<1>5. blanks \in Seq(Strung) /\ Len(blanks) = Len(iceServers)
  <2>1. blanks \in [1 .. Len(iceServers) -> Strung]
    BY <1>4 DEF Strung
  <2>. QED
    BY <1>3, <2>1
<1>6. server_urls' = [block |-> 1, capacity |-> Len(iceServers), items |-> blanks]
  BY <1>1, <1>4
<1>7. server_urls' \in [block : Nat, capacity : Nat, items : Seq(Strung)]
  BY <1>3, <1>5, <1>6
<1>8. /\ server_urls'.block = 1 /\ server_urls'.capacity = Len(iceServers)
      /\ Len(server_urls'.items) = Len(iceServers) /\ Len(hostnames) = 0
      /\ DOMAIN hostnames = {}
  BY <1>2, <1>5, <1>6
<1>. QED
  BY <1>1, <1>2, <1>3, <1>7, <1>8 DEF MemoryInv

LEMMA PushUrlKeepsMemory ==
  ASSUME GrowsEnough, ParseInv, MemoryInv, PushUrl
  PROVE  MemoryInv'
<1>1. /\ next[1] > Len(servers) /\ result = "none" /\ server_urls.block > 0
      /\ Len(hostnames) < Len(iceServers)
      /\ UNCHANGED <<servers, next, iceServers, told, result>>
  BY DEF PushUrl, Creating
<1>2. PICK block \in Nat, capacity \in Nat, items \in Seq(Strung) :
         server_urls = [block |-> block, capacity |-> capacity, items |-> items]
  <2>1. server_urls \in [block : Nat, capacity : Nat, items : Seq(Strung)]
    BY DEF MemoryInv
  <2>. QED
    BY <2>1
<1>3. server_urls.block = block /\ server_urls.capacity = capacity /\ server_urls.items = items
  BY <1>2
<1>4. /\ hostnames \in Seq([block : Nat, index : Nat]) /\ iceServers \in Seq(Parsed)
      /\ Len(hostnames) \in Nat /\ Len(iceServers) \in Nat /\ Len(items) \in Nat
      /\ Len(items) = Len(iceServers) + Len(hostnames)
      /\ hostnames = <<>> => capacity = Len(iceServers)
      /\ hostnames # <<>> => capacity >= 2 * Len(iceServers)
      /\ \A n \in DOMAIN hostnames :
           /\ hostnames[n] = [block |-> block, index |-> Len(iceServers) + n]
           /\ items[Len(iceServers) + n] = Url(iceServers[n])
  BY <1>1, <1>3 DEF MemoryInv, ParseInv
<1>. DEFINE moves == Len(items) = capacity
<1>5. PICK url, block1, capacity1, items1 :
         /\ url \in Strung /\ url = Url(iceServers[Len(hostnames) + 1])
         /\ block1 = block + (IF moves THEN 1 ELSE 0)
         /\ capacity1 = (IF moves THEN Grow(Len(items)) ELSE capacity)
         /\ items1 = Append(items, url)
  <2>1. Len(hostnames) + 1 \in 1 .. Len(iceServers)
    BY <1>1, <1>4
  <2>2. PICK p \in Parsed : p = iceServers[Len(hostnames) + 1]
    BY <1>4, <2>1, ElementOfSeq
  <2>3. Url(p) \in Strung
    BY DEF Strung
  <2>. QED
    BY <2>2, <2>3
<1>6. server_urls' = [block |-> block1, capacity |-> capacity1, items |-> items1]
  BY <1>3, <1>5 DEF PushUrl
<1>7. server_urls'.block = block1 /\ server_urls'.capacity = capacity1 /\ server_urls'.items = items1
  BY <1>6
<1>8. /\ items1 \in Seq(Strung) /\ Len(items1) = Len(items) + 1
      /\ \A n \in 1 .. Len(items) : items1[n] = items[n]
      /\ items1[Len(items) + 1] = url
  BY <1>5
<1>9. hostnames' = Append(hostnames, [block |-> block1, index |-> Len(items1)])
  BY <1>7 DEF PushUrl
<1>10. block1 \in Nat /\ block1 > 0 /\ capacity1 \in Nat
  <2>1. Grow(Len(items)) \in Nat
    BY <1>4 DEF GrowsEnough
  <2>. QED
    BY <1>1, <1>3, <1>5, <2>1
<1>11. PICK p \in [block : Nat, index : Nat] : p = [block |-> block1, index |-> Len(items1)]
  <2>1. Len(items1) \in Nat
    BY <1>8
  <2>2. [block |-> block1, index |-> Len(items1)] \in [block : Nat, index : Nat]
    BY <1>10, <2>1
  <2>. QED
    BY <2>2
<1>12. /\ hostnames' \in Seq([block : Nat, index : Nat])
       /\ Len(hostnames') = Len(hostnames) + 1
       /\ \A n \in 1 .. Len(hostnames) : hostnames'[n] = hostnames[n]
       /\ hostnames'[Len(hostnames) + 1] = p
       /\ DOMAIN hostnames = 1 .. Len(hostnames)
       /\ DOMAIN hostnames' = 1 .. Len(hostnames) + 1
  BY <1>4, <1>9, <1>11
<1>13. capacity1 >= 2 * Len(iceServers) /\ (hostnames # <<>> => block1 = block)
  <2>1. CASE hostnames = <<>>
    <3>1. Len(items) = Len(iceServers) /\ moves
      BY <1>4, <2>1
    <3>2. Grow(Len(items)) >= 2 * Len(items)
      BY <1>4 DEF GrowsEnough
    <3>. QED
      BY <1>5, <2>1, <3>1, <3>2
  <2>2. CASE hostnames # <<>>
    <3>1. Len(items) < capacity
      BY <1>1, <1>4, <2>2
    <3>2. ~moves
      BY <1>4, <3>1
    <3>. HIDE DEF moves
    <3>3. capacity1 = capacity /\ block1 = block + 0
      BY <1>5, <3>2
    <3>. QED
      BY <1>4, <2>2, <3>3
  <2>. QED
    BY <2>1, <2>2
<1>14. /\ Len(hostnames) \in Nat /\ Len(iceServers) \in Nat
       /\ Len(items) = Len(iceServers) + Len(hostnames)
  BY <1>4
<1>15. ASSUME NEW n \in DOMAIN hostnames'
       PROVE  /\ hostnames'[n] = [block |-> block1, index |-> Len(iceServers) + n]
              /\ items1[Len(iceServers) + n] = Url(iceServers[n])
  <2>1. CASE n \in DOMAIN hostnames
    <3>1. hostnames # <<>> /\ block1 = block
      BY <1>13, <2>1
    <3>2. Len(iceServers) + n \in 1 .. Len(items)
      <4>1. n \in 1 .. Len(hostnames)
        BY <1>12, <2>1
      <4>. QED
        BY <1>14, <4>1
    <3>. QED
      BY <1>4, <1>8, <1>12, <2>1, <3>1, <3>2
  <2>2. CASE n \notin DOMAIN hostnames
    <3>1. n = Len(hostnames) + 1 /\ Len(iceServers) + n = Len(items) + 1
      <4>1. n \in 1 .. Len(hostnames) + 1 /\ n \notin 1 .. Len(hostnames)
        BY <1>12, <2>2
      <4>. QED
        BY <1>14, <4>1
    <3>. QED
      BY <1>5, <1>8, <1>11, <1>12, <3>1
  <2>. QED
    BY <2>1, <2>2
<1>16. server_urls' \in [block : Nat, capacity : Nat, items : Seq(Strung)]
  BY <1>6, <1>8, <1>10
<1>17. /\ Len(hostnames') <= Len(iceServers) /\ hostnames' # <<>>
       /\ Len(items1) = Len(iceServers) + Len(hostnames')
  <2>1. Len(hostnames') # 0
    BY <1>4, <1>12
  <2>. QED
    BY <1>1, <1>4, <1>8, <1>12, <2>1
<1>18. result = "none" => told = <<>>
  BY DEF MemoryInv
<1>. HIDE DEF moves
<1>. QED
  BY <1>1, <1>7, <1>10, <1>12, <1>13, <1>15, <1>16, <1>17, <1>18 DEF MemoryInv

LEMMA MemoryInvInductive ==
  ASSUME GrowsEnough, ParseInv, MemoryInv, [Next]_vars
  PROVE  MemoryInv'
<1>1. CASE SizeVectors
  BY <1>1, SizeVectorsKeepsMemory
<1>2. CASE PushUrl
  BY <1>2, PushUrlKeepsMemory
<1>3. CASE CreatePeerConnection
  BY <1>3 DEF CreatePeerConnection, MemoryInv
<1>4. CASE ~SizeVectors /\ ~PushUrl /\ ~CreatePeerConnection
  BY <1>4, ParsingKeepsMemory
<1>. QED
  BY <1>1, <1>2, <1>3, <1>4

\* Each pointer is one into the vector's block, to the URL of its own server.
LEMMA PointersPoint ==
  ASSUME ParseInv, MemoryInv, NEW n \in DOMAIN hostnames
  PROVE  ~Dangling(hostnames[n]) /\ Pointee(hostnames[n]) = Url(iceServers[n])
<1>1. hostnames # <<>> /\ server_urls.block \in Nat
  BY DEF MemoryInv
<1>2. server_urls.block > 0
  BY <1>1 DEF MemoryInv
<1>3. /\ hostnames[n] = [block |-> server_urls.block, index |-> Len(iceServers) + n]
      /\ server_urls.items[Len(iceServers) + n] = Url(iceServers[n])
  BY <1>2 DEF MemoryInv
<1>4. hostnames[n].block = server_urls.block /\ hostnames[n].index = Len(iceServers) + n
  BY <1>3
<1>5. ~Dangling(hostnames[n])
  BY <1>4 DEF Dangling
<1>. QED
  BY <1>3, <1>4, <1>5 DEF Pointee

\* When the last server is parsed, so is every URL.
LEMMA AllAreParsed ==
  ASSUME ParseInv, next[1] > Len(servers)
  PROVE  /\ Len(iceServers) = Len(AllUrls) /\ Len(AllUrls) \in Nat
         /\ \A s \in DOMAIN servers : servers[s].kind = "urls"
<1>1. /\ servers \in Configs /\ next \in (1 .. Len(servers) + 1) \X (Nat \ {0})
      /\ next[2] = 1 /\ iceServers \in Seq(Parsed)
  BY DEF ParseInv
<1>2. Len(servers) \in Nat /\ DOMAIN servers = 1 .. Len(servers)
  BY <1>1, ListingIsSeq
<1>3. next[1] = Len(servers) + 1
  BY <1>1, <1>2
<1>4. PICK off : AreOffsets(off, Listing) /\ Len(iceServers) = off[next[1]] + next[2] - 1
  BY DEF ParseInv
<1>5. off[next[1]] = Len(AllUrls)
  BY <1>1, <1>3, <1>4, ListingIsSeq, AllUrlsListed DEF AreOffsets
<1>6. off[next[1]] \in Nat
  BY <1>1, <1>4, ListingIsSeq DEF AreOffsets
<1>7. Len(iceServers) = Len(AllUrls)
  BY <1>1, <1>4, <1>5, <1>6
<1>8. \A s \in DOMAIN servers : s \in 1 .. next[1] - 1
  BY <1>2, <1>3
<1>9. \A s \in DOMAIN servers : servers[s].kind = "urls"
  BY <1>8 DEF ParseInv
<1>. QED
  BY <1>5, <1>6, <1>7, <1>9

-----------------------------------------------------------------------------
(* What is parsed of a URL that names its parts *)

\* Decoded, the host of such a text is the name, and it is in no brackets.
LEMMA NamedHost ==
  ASSUME NEW u \in Urls, Names(u)
  PROVE  /\ u.host \in Strings /\ url_decode(Host(Text(u))) = u.host
         /\ Host(Text(u)) # <<>> =>
              ~(Head(Host(Text(u))) = OPEN /\ Last(Host(Text(u))) = CLOSE)
<1>1. u.host \in Strings
  BY DEF Urls
<1>2. PICK host : host = Host(Text(u)) /\ host = u.name
  BY HostFound
<1>3. \/ \E escaped \in SUBSET (DOMAIN u.host) : host = Encoded(u.host, escaped)
      \/ host = u.host /\ \A i \in DOMAIN host : ~EscapeAt(host, i)
  BY <1>2 DEF Names
<1>4. url_decode(host) = u.host
  <2>1. CASE \E escaped \in SUBSET (DOMAIN u.host) : host = Encoded(u.host, escaped)
    BY <1>1, <2>1, DecodeUndoesEncode
  <2>2. CASE host = u.host /\ \A i \in DOMAIN host : ~EscapeAt(host, i)
    BY <1>1, <2>2, DecodeKeepsPlain
  <2>. QED
    BY <1>3, <2>1, <2>2
<1>5. host # <<>> => ~(Head(host) = OPEN /\ Last(host) = CLOSE)
  BY <1>2 DEF Names
<1>. QED
  BY <1>1, <1>2, <1>4, <1>5

\* The ports are numbers, and what stands for none or for what is no number is
\* no port.
LEMMA PortsAreNat == \A port \in PortNumbers : port \in Nat
  BY SMT DEF PortNumbers

LEMMA PortsAreShort == \A port \in PortNumbers : port < 65536
  BY SMT DEF PortNumbers

LEMMA NoPortIsNone ==
  NoPort \notin PortNumbers /\ BadPort \notin PortNumbers /\ NoPort \notin Nat /\ NoPort # BadPort
<1>1. NoPort \notin Nat /\ BadPort \notin Nat /\ NoPort # BadPort
  BY PortAssumption, SMT
<1>. QED
  BY <1>1, PortsAreNat, Zenon

\* Its service is the port it names, or none.
LEMMA NamedPort ==
  ASSUME NEW u \in Urls, Names(u)
  PROVE  /\ u.port = NoPort => Service(Text(u)) = <<>>
         /\ u.port \in PortNumbers =>
              /\ Service(Text(u)) # <<>> /\ IsDigit(Service(Text(u))[1])
              /\ Stoul(Service(Text(u))) = u.port
<1>1. PICK b \in Seq(0 .. 255) : b = u.service
  BY PartsAreStrings DEF Strings
<1>2. Service(Text(u)) = SubSeq(b, 2, Len(b)) /\ Len(b) \in Nat
  BY <1>1, ServiceFound DEF From
<1>3. /\ NoPort \notin PortNumbers /\ BadPort \notin PortNumbers
      /\ NoPort \notin Nat /\ NoPort # BadPort
  BY NoPortIsNone
<1>4. IF Len(b) <= 1 THEN u.port = NoPort
      ELSE \/ /\ \A i \in 2 .. Len(b) : IsDigit(b[i])
              /\ u.port \in Nat /\ u.port = Stoul(SubSeq(b, 2, Len(b)))
           \/ u.port = BadPort
  BY <1>1 DEF Names, From
<1>5. CASE Len(b) <= 1
  <2>1. SubSeq(b, 2, Len(b)) = <<>>
    BY <1>2, <1>5, SubSeqEmpty
  <2>2. u.port = NoPort /\ u.port \notin PortNumbers
    BY <1>3, <1>4, <1>5
  <2>. QED
    BY <1>2, <2>1, <2>2
<1>6. CASE ~(Len(b) <= 1)
  <2>1. u.port # NoPort
    BY <1>3, <1>4, <1>6
  <2>2. ASSUME u.port \in PortNumbers
        PROVE  /\ SubSeq(b, 2, Len(b)) # <<>> /\ IsDigit(SubSeq(b, 2, Len(b))[1])
               /\ Stoul(SubSeq(b, 2, Len(b))) = u.port
    <3>1. u.port # BadPort
      BY <1>3, <2>2
    <3>2. b # <<>> /\ 1 \in 1 .. Len(b) - 1 /\ 1 + 1 = 2 /\ 2 \in 2 .. Len(b)
      BY <1>2, <1>6
    <3>3. Len(SubSeq(b, 2, Len(b))) = Len(b) - 1 /\ SubSeq(b, 2, Len(b))[1] = b[2]
      BY <3>2, AllButFirst
    <3>4. SubSeq(b, 2, Len(b)) # <<>>
      <4>1. PICK e \in Seq(0 .. 255) : e = SubSeq(b, 2, Len(b))
        BY <3>2, AllButFirst, Zenon
      <4>2. Len(e) # 0
        BY <1>2, <1>6, <3>3, <4>1
      <4>3. e # <<>>
        BY <4>2
      <4>. QED
        BY <4>1, <4>3
    <3>5. IsDigit(b[2]) /\ Stoul(SubSeq(b, 2, Len(b))) = u.port
      BY <1>4, <1>6, <3>1, <3>2, Zenon
    <3>. QED
      BY <3>3, <3>4, <3>5
  <2>. QED
    BY <1>2, <2>1, <2>2
<1>. QED
  BY <1>5, <1>6

LEMMA WellFormedIsTaken ==
  ASSUME NEW u \in Urls, Names(u), WellFormed(u)
  PROVE  ~Throws(u)
<1>1. /\ IsTurn(u) \/ u.scheme \in {"stun", "STUN"}
      /\ u.host # <<>> /\ (u.port = NoPort \/ u.port \in PortNumbers)
  BY DEF WellFormed
<1>2. u.scheme # "" /\ ~HostTakenForScheme(u)
  BY <1>1 DEF HostTakenForScheme, IsTurn
<1>3. Host(Text(u)) # <<>>
  <2>1. \A i \in DOMAIN <<>> : ~EscapeAt(<<>>, i)
    OBVIOUS
  <2>2. <<>> \in Strings
    BY DEF Strings
  <2>3. url_decode(<<>>) = <<>>
    BY <2>1, <2>2, DecodeKeepsPlain
  <2>. QED
    BY <1>1, <2>3, NamedHost
<1>4. PICK service : service = Service(Text(u))
  OBVIOUS
<1>5. ~(service # <<>> /\ (~IsDigit(service[1]) \/ Stoul(service) > MaxULong))
  <2>1. CASE u.port = NoPort
    BY <1>4, <2>1, NamedPort
  <2>2. CASE u.port \in PortNumbers
    <3>1. IsDigit(service[1]) /\ Stoul(service) \in PortNumbers
      BY <1>4, <2>2, NamedPort
    <3>2. Stoul(service) \in 0 .. MaxULong /\ MaxULong \in Nat
      BY <3>1, PortAssumption
    <3>3. ~(Stoul(service) > MaxULong)
      BY <3>2
    <3>. QED
      BY <3>1, <3>3
  <2>. QED
    BY <1>1, <2>1, <2>2
<1>. QED
  BY <1>1, <1>2, <1>3, <1>4, <1>5, Zenon DEF Throws, IsTurn

LEMMA NamedHostIsTaken ==
  ASSUME NEW u \in Urls, Names(u), ~Throws(u)
  PROVE  Hostname(u) = u.host
<1>1. Host(Text(u)) # <<>>
  BY DEF Throws
<1>. QED
  BY <1>1, NamedHost DEF Hostname

LEMMA NamedPortIsTaken ==
  ASSUME NEW u \in Urls, Names(u), u.port = NoPort \/ u.port \in PortNumbers
  PROVE  Port(u) = IF u.port # NoPort THEN u.port
                   ELSE IF RelayType(u) = "tls" THEN 5349 ELSE 3478
<1>1. CASE u.port = NoPort
  BY <1>1, NamedPort, SMT DEF Port
<1>2. CASE u.port \in PortNumbers
  <2>1. u.port # NoPort
    BY <1>2, NoPortIsNone
  <2>2. Service(Text(u)) # <<>> /\ Stoul(Service(Text(u))) = u.port
    BY <1>2, NamedPort
  <2>3. u.port % 65536 = u.port
    BY <1>2, PortsAreNat, PortsAreShort, SMT
  <2>. QED
    BY <2>1, <2>2, <2>3, SMT DEF Port
<1>. QED
  BY <1>1, <1>2

\* The transport is one of those it names, or the usual one.
LEMMA TransportIsNamed ==
  ASSUME NEW u \in Urls
  PROVE  RelayType(u) \in (IF u.transports # {} THEN u.transports
                           ELSE IF IsTurns(u) THEN {"tls"} ELSE {"udp"})
<1>1. u.transports \in SUBSET {"udp", "tcp", "tls"}
  BY DEF Urls
<1>. QED
  BY <1>1 DEF RelayType

\* A URL of the configuration, unless it is of an IPv6 address, names its parts.
LEMMA ConfiguredNames ==
  ASSUME servers \in Configs, NEW s \in DOMAIN servers, NEW n \in DOMAIN servers[s].urls,
         servers[s].urls[n].literal = FALSE
  PROVE  Names(servers[s].urls[n])
  BY TextAssumption, Zenon

\* So does every URL parsed.
LEMMA ParsedNames ==
  ASSUME ParseInv, NEW n \in DOMAIN iceServers
  PROVE  /\ AllUrls[n].url \in Urls
         /\ AllUrls[n].url.literal = FALSE => Names(AllUrls[n].url)
<1>1. PICK c : c = AllUrls[n]
  OBVIOUS
<1>2. servers \in Configs
  BY DEF ParseInv
<1>3. PICK s \in DOMAIN servers : \E k \in DOMAIN servers[s].urls :
         c = [url |-> servers[s].urls[k], server |-> servers[s]]
  BY <1>1 DEF ParseInv
<1>4. servers[s].urls \in Seq(Urls)
  <2>1. s \in 1 .. Len(servers)
    BY <1>2, ListingIsSeq
  <2>. QED
    BY <1>2, <2>1, ListingIsSeq, Zenon
<1>5. PICK k \in DOMAIN servers[s].urls :
         c = [url |-> servers[s].urls[k], server |-> servers[s]]
  BY <1>3
<1>6. c.url = servers[s].urls[k] /\ servers[s].urls[k] \in Urls
  BY <1>4, <1>5
<1>7. servers[s].urls[k].literal = FALSE => Names(servers[s].urls[k])
  BY <1>2, <1>5, ConfiguredNames
<1>. QED
  BY <1>1, <1>6, <1>7

\* The parts of what is parsed of a URL.
LEMMA PartsOfServer ==
  ASSUME NEW u, NEW server, NEW p, p = IceServer(u, server)
  PROVE  /\ p.type = (IF IsTurn(u) THEN "turn" ELSE "stun")
         /\ p.hostname = Hostname(u) /\ p.port = Port(u) /\ p.relayType = RelayType(u)
         /\ p.username = server.username /\ p.password = server.credential
<1>1. PICK type, host, port, relay :
        /\ type = (IF IsTurn(u) THEN "turn" ELSE "stun")
        /\ host = Hostname(u) /\ port = Port(u) /\ relay = RelayType(u)
  BY Zenon
<1>2. p = [type |-> type, hostname |-> host, port |-> port, relayType |-> relay,
           username |-> server.username, password |-> server.credential]
  BY <1>1, Zenon DEF IceServer
<1>3. /\ p.type = type /\ p.hostname = host /\ p.port = port /\ p.relayType = relay
      /\ p.username = server.username /\ p.password = server.credential
  BY <1>2
<1>. QED
  BY <1>1, <1>3, Zenon

\* Every host parsed is the one its URL names.
LEMMA HostsAsNamed ==
  ASSUME ParseInv, NEW n \in DOMAIN iceServers, AllUrls[n].url.literal = FALSE
  PROVE  iceServers[n].hostname = AllUrls[n].url.host
<1>1. PICK u \in Urls : u = AllUrls[n].url /\ Names(u)
  BY ParsedNames
<1>2. iceServers[n] = IceServer(u, AllUrls[n].server) /\ ~Throws(u)
  BY <1>1 DEF ParseInv
<1>. QED
  BY <1>1, <1>2, PartsOfServer, NamedHostIsTaken

\* The C string of a URL that is parsed of a plain one says what that one says.
LEMMA PlainIsTold ==
  ASSUME NEW u \in Urls, Plain(u), Names(u), ~Throws(u), NEW server, NEW p,
         p = IceServer(u, server)
  PROVE  ToldOf(CString(Url(p)), u)
<1>1. /\ 0 \notin Range(u.host) /\ (u.port = NoPort \/ u.port \in PortNumbers)
  BY DEF Plain
<1>2. /\ p.hostname = u.host /\ p.relayType = RelayType(u)
      /\ p.port = IF u.port # NoPort THEN u.port
                  ELSE IF RelayType(u) = "tls" THEN 5349 ELSE 3478
  BY <1>1, PartsOfServer, NamedHostIsTaken, NamedPortIsTaken, SMT
<1>3. PICK url : url = Url(p)
  OBVIOUS
<1>4. url.host = u.host /\ url.port = p.port /\ url.transport = RelayType(u)
  BY <1>2, <1>3 DEF Url
<1>5. CString(Url(p)) = url
  BY <1>1, <1>3, <1>4, Zenon DEF CString
<1>. QED
  BY <1>2, <1>4, <1>5, TransportIsNamed, SMT DEF ToldOf

\* Its beginning is there in any case.
LEMMA SchemeIsTold ==
  ASSUME NEW p
  PROVE  CString(Url(p)).scheme = p.type
<1>1. PICK url : url = Url(p)
  OBVIOUS
<1>2. url.scheme = p.type
  BY <1>1 DEF Url
<1>3. CASE 0 \in Range(url.host)
  <2>1. PICK type, host, port, relay :
          url = [scheme |-> type, host |-> host, port |-> port, transport |-> relay]
    BY <1>1 DEF Url
  <2>2. CString(url) = [url EXCEPT !.host = Until(@, {0}), !.port = NoPort, !.transport = ""]
    BY <1>3 DEF CString
  <2>3. CString(url).scheme = url.scheme
    BY <2>1, <2>2
  <2>. QED
    BY <1>1, <1>2, <2>3
<1>4. CASE ~(0 \in Range(url.host))
  BY <1>1, <1>2, <1>4 DEF CString
<1>. QED
  BY <1>3, <1>4

-----------------------------------------------------------------------------
(* What Pion is told *)

\* What Pion reads when it is told.
LEMMA ToldRight ==
  ASSUME ParseInv, MemoryInv, CreatePeerConnection
  PROVE  PointersAlive' /\ ToldAsConfigured'
<1>1. /\ next[1] > Len(servers) /\ Len(hostnames) = Len(iceServers)
      /\ UNCHANGED <<servers, next, iceServers, server_urls, hostnames>>
      /\ told' = [s \in DOMAIN hostnames |->
                   [url |-> CString(Pointee(hostnames[s])), username |-> iceServers[s].username,
                    credential |-> iceServers[s].password]]
  BY DEF CreatePeerConnection, Creating
<1>2. /\ Len(hostnames) \in Nat /\ DOMAIN hostnames = 1 .. Len(hostnames)
      /\ DOMAIN iceServers = 1 .. Len(hostnames)
  BY <1>1 DEF MemoryInv, ParseInv
<1>3. PointersAlive'
  <2>1. \A p : Dangling(p)' <=> Dangling(p)
    BY <1>1 DEF Dangling
  <2>2. \A p \in {hostnames[s] : s \in DOMAIN hostnames} : ~Dangling(p)
    BY PointersPoint
  <2>. QED
    BY <1>1, <2>1, <2>2 DEF PointersAlive
<1>4. AllUrls' = AllUrls
  BY <1>1, SameConfig
<1>5. Len(told') = Len(AllUrls) /\ DOMAIN told' = 1 .. Len(hostnames)
  <2>1. PICK one : one = [s \in 1 .. Len(hostnames) |->
                   [url |-> CString(Pointee(hostnames[s])), username |-> iceServers[s].username,
                    credential |-> iceServers[s].password]]
    OBVIOUS
  <2>2. Len(one) = Len(hostnames) /\ DOMAIN one = 1 .. Len(hostnames)
    BY <1>2, <2>1
  <2>3. told' = one
    BY <1>1, <1>2, <2>1
  <2>. QED
    BY <1>1, <2>2, <2>3, AllAreParsed
<1>6. ASSUME NEW n \in 1 .. Len(hostnames)
      PROVE  LET c == AllUrls[n]
             IN  /\ ~Throws(c.url)
                 /\ told'[n].username = c.server.username
                 /\ told'[n].credential = c.server.credential
                 /\ told'[n].url.scheme = (IF IsTurn(c.url) THEN "turn" ELSE "stun")
                 /\ Plain(c.url) => ToldOf(told'[n].url, c.url)
  <2>1. PICK c : c = AllUrls[n]
    OBVIOUS
  <2>2. PICK p : p = iceServers[n]
    OBVIOUS
  <2>3. p = IceServer(c.url, c.server) /\ ~Throws(c.url)
    BY <1>2, <2>1, <2>2 DEF ParseInv
  <2>4. told'[n] = [url |-> CString(Url(p)), username |-> p.username, credential |-> p.password]
    BY <1>1, <1>2, <2>2, PointersPoint
  <2>5. /\ told'[n].url = CString(Url(p)) /\ told'[n].username = p.username
        /\ told'[n].credential = p.password
    BY <2>4
  <2>6. /\ p.username = c.server.username /\ p.password = c.server.credential
        /\ CString(Url(p)).scheme = (IF IsTurn(c.url) THEN "turn" ELSE "stun")
    BY <2>3, PartsOfServer, SchemeIsTold
  <2>7. ASSUME Plain(c.url) PROVE ToldOf(CString(Url(p)), c.url)
    <3>1. c.url.literal \in BOOLEAN
      BY <1>2, <2>1, ParsedNames DEF Urls
    <3>2. c.url.literal = FALSE
      BY <2>7, <3>1 DEF Plain
    <3>3. c.url \in Urls /\ Names(c.url)
      BY <1>2, <2>1, <3>2, ParsedNames
    <3>. QED
      BY <2>3, <2>7, <3>3, PlainIsTold
  <2>. QED
    BY <2>1, <2>3, <2>5, <2>6, <2>7
<1>7. \A s \in DOMAIN servers : servers[s].kind = "urls"
  BY <1>1, AllAreParsed
<1>8. ToldAsConfigured'
  BY <1>1, <1>4, <1>5, <1>6, <1>7 DEF ToldAsConfigured
<1>. QED
  BY <1>3, <1>8

\* Until Pion is told, it is told nothing, and after that nothing changes.
LEMMA ToldStays ==
  ASSUME ParseInv, MemoryInv, [Next]_vars, ~CreatePeerConnection,
         PointersAlive, ToldAsConfigured
  PROVE  PointersAlive' /\ ToldAsConfigured'
<1>1. CASE UNCHANGED vars
  <2>1. AllUrls' = AllUrls
    BY <1>1, SameConfig DEF vars
  <2>2. \A p : Dangling(p)' <=> Dangling(p)
    BY <1>1 DEF Dangling, vars
  <2>. QED
    BY <1>1, <2>1, <2>2 DEF PointersAlive, ToldAsConfigured, vars
<1>2. CASE Next
  <2>1. result = "none" /\ told' = told
    BY <1>2 DEF Next, NotADictionary, NoUrls, UrlThrows, ParseUrl, NextServer, SizeVectors,
       PushUrl, Parsing, Creating
  <2>2. told' = <<>>
    BY <2>1 DEF MemoryInv
  <2>3. ~(told # <<>>)'
    BY <2>2
  <2>. QED
    BY <2>3 DEF PointersAlive, ToldAsConfigured
<1>. QED
  BY <1>1, <1>2

\* What is parsed, the memory of the strings, and what Pion was told.
TellsInv == ParseInv /\ MemoryInv /\ PointersAlive /\ ToldAsConfigured

LEMMA TellsInit == Init => TellsInv
<1>. SUFFICES ASSUME Init PROVE TellsInv
  OBVIOUS
<1>1. told = <<>>
  BY DEF Init
<1>. QED
  BY <1>1, ParseInit, MemoryInit DEF TellsInv, PointersAlive, ToldAsConfigured

LEMMA TellsInductive ==
  ASSUME GrowsEnough, TellsInv, [Next]_vars
  PROVE  TellsInv'
<1>1. ParseInv' /\ MemoryInv'
  BY ParseInvInductive, MemoryInvInductive DEF TellsInv
<1>2. PointersAlive' /\ ToldAsConfigured'
  BY ToldRight, ToldStays DEF TellsInv
<1>. QED
  BY <1>1, <1>2 DEF TellsInv

\* _create_pc: no pointer into server_urls that Pion is given dangles, for any
\* number of URLs, if a full vector at least doubles.
THEOREM PointersStayAlive ==
  ASSUME GrowsEnough
  PROVE  Spec => []PointersAlive
<1>1. TellsInv /\ [Next]_vars => TellsInv'
  BY TellsInductive
<1>2. TellsInv => PointersAlive
  BY DEF TellsInv
<1>. QED
  BY <1>1, <1>2, TellsInit, PTL DEF Spec

\* _initialize and _create_pc: Pion is told of each configured URL, in order, with
\* its scheme and under the credentials of its own server, and of a plain one with
\* the host, the port and the transport it names or that are usual; or of none.
\* (Its strings are there to be read because no pointer to them dangles.)
THEOREM PionToldAsConfigured ==
  ASSUME GrowsEnough
  PROVE  Spec => []ToldAsConfigured
<1>1. TellsInv /\ [Next]_vars => TellsInv'
  BY TellsInductive
<1>2. TellsInv => ToldAsConfigured
  BY DEF TellsInv
<1>. QED
  BY <1>1, <1>2, TellsInit, PTL DEF Spec

-----------------------------------------------------------------------------
(* No well-formed URL is refused *)

\* No well-formed URL was refused, if it is of no IPv6 address.
RefusedInv ==
  result = "exception" =>
    LET u == servers[next[1]].urls[next[2]] IN u.literal # FALSE \/ ~WellFormed(u)

LEMMA RefusedInductive ==
  ASSUME ParseInv, RefusedInv, [Next]_vars
  PROVE  RefusedInv'
<1>1. CASE UrlThrows
  <2>1. /\ next[1] <= Len(servers) /\ next[2] <= Len(servers[next[1]].urls)
        /\ Throws(servers[next[1]].urls[next[2]]) /\ UNCHANGED <<servers, next>>
    BY <1>1 DEF UrlThrows, Parsing
  <2>2. PICK u \in Urls : u = servers[next[1]].urls[next[2]]
    BY <2>1, NextUrl
  <2>3. ASSUME u.literal = FALSE, WellFormed(u) PROVE FALSE
    <3>1. servers \in Configs
      BY DEF ParseInv
    <3>2. Names(u)
      BY <2>1, <2>2, <2>3, <3>1, NextUrl, ConfiguredNames
    <3>. QED
      BY <2>1, <2>2, <2>3, <3>2, WellFormedIsTaken
  <2>. QED
    BY <2>1, <2>2, <2>3 DEF RefusedInv
<1>2. CASE Next /\ ~UrlThrows
  <2>1. result' # "exception"
    BY <1>2 DEF Next, NotADictionary, NoUrls, ParseUrl, NextServer, SizeVectors, PushUrl,
       CreatePeerConnection, Parsing, Creating
  <2>. QED
    BY <2>1 DEF RefusedInv
<1>3. CASE UNCHANGED vars
  BY <1>3 DEF RefusedInv, vars
<1>. QED
  BY <1>1, <1>2, <1>3

\* IceServer::IceServer: no well-formed URL of a host that is a name is refused,
\* and the host parsed of it is the one it names, whatever its length and its
\* characters, and whatever user, port, path, query and fragment stand around it.
THEOREM NamesAlwaysTaken == Spec => []NamesTaken
<1>1. Init => ParseInv /\ RefusedInv
  BY ParseInit DEF Init, RefusedInv
<1>2. (ParseInv /\ RefusedInv) /\ [Next]_vars => (ParseInv /\ RefusedInv)'
  BY ParseInvInductive, RefusedInductive
<1>3. ParseInv /\ RefusedInv => NamesTaken
  BY HostsAsNamed DEF NamesTaken, HostTaken, RefusedInv
<1>. QED
  BY <1>1, <1>2, <1>3, PTL DEF Spec
=============================================================================
