--------------------------- MODULE FramingProofs ---------------------------
(***************************************************************************)
(* Proofs about the framings: the COBS codec for all payloads, the         *)
(* reassembly of its frames on a line that loses and changes bytes, and    *)
(* that no parser writes behind its buffer.                                *)
(*                                                                         *)
(* What the codec computes takes an induction over the bytes.  It is made  *)
(* with sets: the numbers of bytes for which the claim holds contain 0 and *)
(* with each number the next one (UpTo).                                   *)
(***************************************************************************)
EXTENDS MCReception, DriverProofs

-----------------------------------------------------------------------------
(* Induction and recursion.                                                *)

\* A set of numbers that contains 0 and the successors of its elements.
LEMMA UpTo ==
    ASSUME NEW L \in Nat, NEW Good, 0 \in Good,
           \A n \in 0..L : n < L /\ n \in Good => n + 1 \in Good
    PROVE  \A n \in 0..L : n \in Good
<1> DEFINE Bad == {n \in 0..L : n \notin Good}
<1>1. SUFFICES ASSUME Bad # {} PROVE FALSE
    OBVIOUS
<1>2. Bad \in SUBSET Nat
    OBVIOUS
<1>3. PICK i \in Bad : \A j \in Bad : i <= j
    BY <1>1, <1>2, LeastPosition, Zenon
<1>4. i \in 0..L /\ i \notin Good /\ i # 0
    BY <1>3
<1>5. i - 1 \in 0..L /\ i - 1 < L /\ (i - 1) + 1 = i /\ ~(i <= i - 1)
    BY <1>4
<1>6. i - 1 \in Good
    BY <1>3, <1>5
<1> QED
    BY <1>4, <1>5, <1>6

\* A recursive definition over 0..L has a solution.
HasSolution(S, b, L, G) ==
    \E f \in [0..L -> S] : f[0] = b /\ \A n \in 1..L : f[n] = G[n][f[n - 1]]

LEMMA Recursion ==
    ASSUME NEW S, NEW b \in S, NEW L \in Nat, NEW G \in [1..L -> [S -> S]]
    PROVE  HasSolution(S, b, L, G)
<1> DEFINE Sol(k) == \E f \in [0..k -> S] : f[0] = b /\ \A n \in 1..k : f[n] = G[n][f[n - 1]]
           Good == {k \in 0..L : Sol(k)}
<1>1. Sol(0)
    <2> DEFINE f == [i \in 0..0 |-> b]
    <2>1. f \in [0..0 -> S] /\ f[0] = b /\ \A n \in 1..0 : f[n] = G[n][f[n - 1]]
        OBVIOUS
    <2> QED
        BY <2>1
<1>2. ASSUME NEW k \in 0..L, k < L, Sol(k) PROVE Sol(k + 1)
    <2>1. PICK f \in [0..k -> S] : f[0] = b /\ \A n \in 1..k : f[n] = G[n][f[n - 1]]
        BY <1>2
    <2>2. k \in 0..k /\ k + 1 \in 1..L /\ f[k] \in S
        BY <1>2
    <2>3. G[k + 1][f[k]] \in S
        BY <2>2
    <2> DEFINE g == [i \in 0..(k + 1) |-> IF i = k + 1 THEN G[k + 1][f[k]] ELSE f[i]]
    <2>4. g \in [0..(k + 1) -> S]
        BY <2>3
    <2>5. \A i \in 0..k : g[i] = f[i]
        OBVIOUS
    <2>6. g[k + 1] = G[k + 1][f[k]]
        OBVIOUS
    <2>7. g[0] = b
        BY <2>1, <2>5
    <2>8. ASSUME NEW n \in 1..(k + 1) PROVE g[n] = G[n][g[n - 1]]
        <3>1. CASE n = k + 1
            <4>1. n - 1 = k /\ k \in 0..k
                BY <3>1
            <4>2. g[n - 1] = f[k]
                BY <4>1, <2>5
            <4> HIDE DEF g
            <4> QED
                BY <2>6, <3>1, <4>2
        <3>2. CASE n # k + 1
            <4>1. n \in 1..k /\ n \in 0..k /\ n - 1 \in 0..k
                BY <3>2
            <4> HIDE DEF g
            <4> QED
                BY <4>1, <2>1, <2>5
        <3> QED
            BY <3>1, <3>2
    <2> HIDE DEF g
    <2> QED
        BY <2>4, <2>7, <2>8
<1> HIDE DEF Sol
<1>3. 0 \in Good /\ \A n \in 0..L : n < L /\ n \in Good => n + 1 \in Good
    BY <1>1, <1>2
<1> HIDE DEF Good
<1>4. \A n \in 0..L : n \in Good
    BY <1>3, UpTo, Zenon
<1>5. Sol(L)
    BY <1>4 DEF Good
<1> QED
    BY <1>5, Zenon DEF Sol, HasSolution

-----------------------------------------------------------------------------
(* The codec, byte by byte.                                                *)

EncoderStates == [out : Seq(Nat), block : Seq(Nat)]
DecoderStates == [out : Seq(Nat), left : Int, code : Nat]

EncoderStart == [out |-> << >>, block |-> << >>]
DecoderStart == [out |-> << >>, left |-> 0, code |-> 0]

\* A block is its code and its bytes.
LEMMA BlockFacts ==
    ASSUME NEW s \in Seq(Nat)
    PROVE  /\ Block(s) \in Seq(Nat) /\ Len(Block(s)) = Len(s) + 1
           /\ Block(s)[1] = Len(s) + 1
           /\ \A i \in 1..Len(s) : Block(s)[i + 1] = s[i]
<1>1. Len(s) \in Nat /\ <<Len(s) + 1>> \in Seq(Nat) /\ Len(<<Len(s) + 1>>) = 1
    OBVIOUS
<1> QED
    BY <1>1 DEF Block

LEMMA EncodeByteType ==
    ASSUME NEW e \in EncoderStates, NEW b \in Nat
    PROVE  EncodeByte(e, b) \in EncoderStates
<1>1. e.out \in Seq(Nat) /\ e.block \in Seq(Nat) /\ Append(e.block, b) \in Seq(Nat)
    BY DEF EncoderStates
<1>2. Block(e.block) \in Seq(Nat) /\ Block(Append(e.block, b)) \in Seq(Nat)
    BY <1>1, BlockFacts
<1>3. e.out \o Block(e.block) \in Seq(Nat) /\ e.out \o Block(Append(e.block, b)) \in Seq(Nat)
    BY <1>1, <1>2
<1> QED
    BY <1>1, <1>3 DEF EncodeByte, EncoderStates

LEMMA DecodeByteType ==
    ASSUME NEW d \in DecoderStates, NEW b \in Nat
    PROVE  DecodeByte(d, b) \in DecoderStates
<1>1. d.out \in Seq(Nat) /\ d.left \in Int /\ d.code \in Nat
    BY DEF DecoderStates
<1>2. Append(d.out, b) \in Seq(Nat) /\ Append(d.out, 0) \in Seq(Nat) /\ d.left - 1 \in Int /\ b - 1 \in Int
    BY <1>1
<1> QED
    BY <1>1, <1>2 DEF DecodeByte, DecoderStates

\* The defining equations of the encoder.
LEMMA EncoderEquation ==
    ASSUME NEW src \in Seq(Nat)
    PROVE  /\ Encoder(src)[0] = EncoderStart
           /\ \A n \in 1..Len(src) : Encoder(src)[n] = EncodeByte(Encoder(src)[n - 1], src[n])
<1> DEFINE L == Len(src)
           G == [n \in 1..L |-> [e \in EncoderStates |-> EncodeByte(e, src[n])]]
           Solves(f) == f = [n \in 0..L |-> IF n = 0 THEN EncoderStart
                                             ELSE EncodeByte(f[n - 1], src[n])]
<1>1. L \in Nat /\ EncoderStart \in EncoderStates /\ \A n \in 1..L : src[n] \in Nat
    BY DEF EncoderStart, EncoderStates
<1>2. G \in [1..L -> [EncoderStates -> EncoderStates]]
    BY <1>1, EncodeByteType
<1>3. PICK f \in [0..L -> EncoderStates] :
          f[0] = EncoderStart /\ \A n \in 1..L : f[n] = G[n][f[n - 1]]
    <2> HIDE DEF G, L
    <2>1. HasSolution(EncoderStates, EncoderStart, L, G)
        BY <1>1, <1>2, Recursion, Zenon
    <2> QED
        BY <2>1, Zenon DEF HasSolution
<1>4. \A n \in 1..L : f[n] = EncodeByte(f[n - 1], src[n])
    <2> SUFFICES ASSUME NEW n \in 1..L PROVE f[n] = EncodeByte(f[n - 1], src[n])
        OBVIOUS
    <2>1. n - 1 \in 0..L
        BY <1>1
    <2>2. f[n - 1] \in EncoderStates
        BY <1>3, <2>1
    <2> QED
        BY <1>3, <2>2
<1>5. Solves(f)
    <2> HIDE DEF L
    <2> QED
        BY <1>1, <1>3, <1>4
<1>6. Encoder(src) = CHOOSE g : Solves(g)
    BY Zenon DEF Encoder, EncoderStart
<1>7. Solves(Encoder(src))
    <2> HIDE DEF Solves
    <2> QED
        BY <1>5, <1>6, Zenon
<1>8. /\ Encoder(src)[0] = EncoderStart
      /\ \A n \in 1..L : Encoder(src)[n] = EncodeByte(Encoder(src)[n - 1], src[n])
    <2> HIDE DEF L
    <2> QED
        BY <1>1, <1>7
<1> QED
    BY <1>8

\* The defining equations of the decoder.
LEMMA DecoderEquation ==
    ASSUME NEW src \in Seq(Nat)
    PROVE  /\ Decoder(src)[0] = DecoderStart
           /\ \A n \in 1..Len(src) : Decoder(src)[n] = DecodeByte(Decoder(src)[n - 1], src[n])
<1> DEFINE L == Len(src)
           G == [n \in 1..L |-> [d \in DecoderStates |-> DecodeByte(d, src[n])]]
           Solves(f) == f = [n \in 0..L |-> IF n = 0 THEN DecoderStart
                                             ELSE DecodeByte(f[n - 1], src[n])]
<1>1. L \in Nat /\ DecoderStart \in DecoderStates /\ \A n \in 1..L : src[n] \in Nat
    BY DEF DecoderStart, DecoderStates
<1>2. G \in [1..L -> [DecoderStates -> DecoderStates]]
    BY <1>1, DecodeByteType
<1>3. PICK f \in [0..L -> DecoderStates] :
          f[0] = DecoderStart /\ \A n \in 1..L : f[n] = G[n][f[n - 1]]
    <2> HIDE DEF G, L
    <2>1. HasSolution(DecoderStates, DecoderStart, L, G)
        BY <1>1, <1>2, Recursion, Zenon
    <2> QED
        BY <2>1, Zenon DEF HasSolution
<1>4. \A n \in 1..L : f[n] = DecodeByte(f[n - 1], src[n])
    <2> SUFFICES ASSUME NEW n \in 1..L PROVE f[n] = DecodeByte(f[n - 1], src[n])
        OBVIOUS
    <2>1. n - 1 \in 0..L
        BY <1>1
    <2>2. f[n - 1] \in DecoderStates
        BY <1>3, <2>1
    <2> QED
        BY <1>3, <2>2
<1>5. Solves(f)
    <2> HIDE DEF L
    <2> QED
        BY <1>1, <1>3, <1>4
<1>6. Decoder(src) = CHOOSE g : Solves(g)
    BY Zenon DEF Decoder, DecoderStart
<1>7. Solves(Decoder(src))
    <2> HIDE DEF Solves
    <2> QED
        BY <1>5, <1>6, Zenon
<1>8. /\ Decoder(src)[0] = DecoderStart
      /\ \A n \in 1..L : Decoder(src)[n] = DecodeByte(Decoder(src)[n - 1], src[n])
    <2> HIDE DEF L
    <2> QED
        BY <1>1, <1>7
<1> QED
    BY <1>8

\* Concatenation of sequences of numbers.
LEMMA Concat ==
    ASSUME NEW s \in Seq(Nat), NEW t \in Seq(Nat)
    PROVE  /\ s \o t \in Seq(Nat) /\ Len(s \o t) = Len(s) + Len(t)
           /\ Len(s) \in Nat /\ Len(t) \in Nat
           /\ \A i \in 1..Len(s) : (s \o t)[i] = s[i]
           /\ \A i \in 1..Len(t) : (s \o t)[Len(s) + i] = t[i]
OBVIOUS

LEMMA Associative ==
    ASSUME NEW s \in Seq(Nat), NEW t \in Seq(Nat), NEW u \in Seq(Nat)
    PROVE  (s \o t) \o u = s \o (t \o u)
BY ConcatAssociative

LEMMA AppendConcat ==
    ASSUME NEW s \in Seq(Nat), NEW x \in Nat
    PROVE  Append(s, x) = s \o <<x>> /\ <<x>> \in Seq(Nat) /\ Append(s, x) \in Seq(Nat)
OBVIOUS

LEMMA ConcatEmpty ==
    ASSUME NEW s \in Seq(Nat)
    PROVE  s \o << >> = s /\ << >> \o s = s /\ << >> \in Seq(Nat)
BY ConcatEmptySeq

\* Every state of the decoder.
LEMMA DecoderType ==
    ASSUME NEW src \in Seq(Nat)
    PROVE  \A n \in 0..Len(src) : Decoder(src)[n] \in DecoderStates
<1> DEFINE L == Len(src)
           Good == {n \in 0..L : Decoder(src)[n] \in DecoderStates}
<1>1. L \in Nat /\ \A n \in 1..L : src[n] \in Nat
    OBVIOUS
<1>2. 0 \in Good
    <2>1. DecoderStart \in DecoderStates
        BY DEF DecoderStart, DecoderStates
    <2>2. Decoder(src)[0] = DecoderStart
        BY DecoderEquation, Zenon
    <2> QED
        BY <1>1, <2>1, <2>2
<1>3. ASSUME NEW n \in 0..L, n < L, n \in Good PROVE n + 1 \in Good
    <2>1. n + 1 \in 1..L /\ (n + 1) - 1 = n
        BY <1>1, <1>3
    <2>2. Decoder(src)[n + 1] = DecodeByte(Decoder(src)[n], src[n + 1])
        BY <2>1, DecoderEquation
    <2> QED
        BY <1>1, <1>3, <2>1, <2>2, DecodeByteType
<1> HIDE DEF Good
<1>4. \A n \in 0..L : n \in Good
    BY <1>1, <1>2, <1>3, UpTo, Zenon
<1> QED
    BY <1>4 DEF Good

\* The decoder does not look ahead.
LEMMA DecoderPrefix ==
    ASSUME NEW s \in Seq(Nat), NEW t \in Seq(Nat)
    PROVE  \A n \in 0..Len(s) : Decoder(s \o t)[n] = Decoder(s)[n]
<1> DEFINE L == Len(s)
           c == s \o t
           Good == {n \in 0..L : Decoder(c)[n] = Decoder(s)[n]}
<1>1. L \in Nat /\ c \in Seq(Nat) /\ Len(c) >= L /\ Len(c) \in Nat /\ \A n \in 1..L : c[n] = s[n]
    BY Concat
<1>2. 0 \in Good
    <2> HIDE DEF c
    <2> QED
        BY <1>1, DecoderEquation
<1>3. ASSUME NEW n \in 0..L, n < L, n \in Good PROVE n + 1 \in Good
    <2> HIDE DEF c
    <2>1. n + 1 \in 1..L /\ n + 1 \in 1..Len(c) /\ (n + 1) - 1 = n
        BY <1>1, <1>3
    <2>2. Decoder(s)[n + 1] = DecodeByte(Decoder(s)[n], s[n + 1])
        BY <2>1, DecoderEquation
    <2>3. Decoder(c)[n + 1] = DecodeByte(Decoder(c)[n], c[n + 1])
        BY <1>1, <2>1, DecoderEquation
    <2> QED
        BY <1>1, <1>3, <2>1, <2>2, <2>3
<1> HIDE DEF Good
<1>4. \A n \in 0..L : n \in Good
    BY <1>1, <1>2, <1>3, UpTo, Zenon
<1> QED
    BY <1>4 DEF Good

\* One more element of a slice.
LEMMA SliceGrows ==
    ASSUME NEW u \in Seq(Nat), NEW v \in Seq(Nat), NEW j \in 0..Len(v), j < Len(v)
    PROVE  Append(u \o SubSeq(v, 1, j), v[j + 1]) = u \o SubSeq(v, 1, j + 1)
<1> DEFINE w == SubSeq(v, 1, j)
           x == v[j + 1]
<1>1. Len(v) \in Nat /\ 1 \in 1..Len(v) /\ j + 1 \in 1..Len(v) /\ (j + 1) - 1 = j
    OBVIOUS
<1>2. SubSeq(v, 1, j + 1) = w \o <<x>>
    BY <1>1, SubSeqRecursiveSecond
<1>3. w \in Seq(Nat) /\ x \in Nat /\ <<x>> \in Seq(Nat)
    BY <1>1
<1> HIDE DEF w, x
<1>4. Append(u \o w, x) = (u \o w) \o <<x>>
    BY <1>3, Concat, AppendConcat, Zenon
<1>5. (u \o w) \o <<x>> = u \o (w \o <<x>>)
    BY <1>3, Associative, Zenon
<1>6. Append(u \o w, x) = u \o SubSeq(v, 1, j + 1)
    BY <1>2, <1>4, <1>5
<1> QED
    BY <1>6 DEF w, x

\* What the decoder has written once it reads another code.
Ended(d) == IF d.code \in {0, MaxCode} THEN d.out ELSE Append(d.out, 0)

\* At the end of a block the decoder takes another block as a whole.
LEMMA DecodeBlock ==
    ASSUME NEW s \in Seq(Nat), NEW v \in Seq(Nat), Decoder(s)[Len(s)].left = 0
    PROVE  LET c == s \o Block(v) IN
           Decoder(c)[Len(c)] = [out |-> Ended(Decoder(s)[Len(s)]) \o v,
                                 left |-> 0, code |-> Len(v) + 1]
<1> DEFINE c == s \o Block(v)
           d == Decoder(s)[Len(s)]
           L == Len(v)
           M == Len(s)
           State(j) == [out |-> Ended(d) \o SubSeq(v, 1, j), left |-> L - j, code |-> L + 1]
           Good == {j \in 0..L : Decoder(c)[M + 1 + j] = State(j)}
<1>1. M \in Nat /\ L \in Nat
    OBVIOUS
<1>a. Block(v) \in Seq(Nat) /\ Len(Block(v)) = L + 1 /\ Block(v)[1] = L + 1
      /\ \A i \in 1..L : Block(v)[i + 1] = v[i]
    BY BlockFacts, Zenon
<1>2. /\ c \in Seq(Nat) /\ Len(c) = M + 1 + L /\ c[M + 1] = L + 1
      /\ \A j \in 1..L : c[M + 1 + j] = v[j]
    <2>1. c \in Seq(Nat) /\ Len(c) = M + Len(Block(v))
          /\ \A i \in 1..Len(Block(v)) : c[M + i] = Block(v)[i]
        BY <1>a, Concat, Zenon
    <2> HIDE DEF c, L, M
    <2>2. Len(c) = M + 1 + L
        BY <1>1, <1>a, <2>1
    <2>b. \A i \in 1..(L + 1) : c[M + i] = Block(v)[i]
        BY <1>a, <2>1, Zenon
    <2>3. c[M + 1] = L + 1
        BY <1>1, <1>a, <2>b
    <2>4. ASSUME NEW j \in 1..L PROVE c[M + 1 + j] = v[j]
        <3>1. j + 1 \in 1..(L + 1) /\ M + (j + 1) = M + 1 + j
            BY <1>1
        <3>2. c[M + (j + 1)] = Block(v)[j + 1]
            BY <2>b, <3>1
        <3> QED
            BY <1>a, <3>1, <3>2
    <2> QED
        BY <2>1, <2>2, <2>3, <2>4
<1>3. d \in DecoderStates /\ d.left = 0 /\ Decoder(c)[M] = d
    <2>1. M \in 0..M
        BY <1>1
    <2>2. d \in DecoderStates
        BY <2>1, DecoderType, Zenon
    <2>3. Decoder(c)[M] = d
        BY <1>a, <2>1, DecoderPrefix, Zenon
    <2> QED
        BY <2>2, <2>3
<1>4. Ended(d) \in Seq(Nat)
    BY <1>3 DEF Ended, DecoderStates
<1>5. Ended(d) \o SubSeq(v, 1, 0) = Ended(d) /\ Ended(d) \o SubSeq(v, 1, L) = Ended(d) \o v
    <2>1. SubSeq(v, 1, 0) = << >> /\ SubSeq(v, 1, L) = v
        BY SubSeqEmpty, SubSeqFull
    <2> QED
        BY <1>4, <2>1, ConcatEmptySeq
<1>6. 0 \in Good
    <2> HIDE DEF c, d, L, M
    <2>0. Len(c) = M + 1 + L
        BY <1>2, Zenon
    <2>1. M + 1 \in 1..Len(c) /\ (M + 1) - 1 = M /\ M + 1 + 0 = M + 1
        BY <1>1, <2>0
    <2>2. Decoder(c)[M + 1] = DecodeByte(d, L + 1)
        <3>1. \A n \in 1..Len(c) : Decoder(c)[n] = DecodeByte(Decoder(c)[n - 1], c[n])
            BY <1>2, DecoderEquation, Zenon
        <3>2. Decoder(c)[M + 1] = DecodeByte(Decoder(c)[(M + 1) - 1], c[M + 1])
            BY <2>1, <3>1, Zenon
        <3> QED
            BY <1>2, <1>3, <2>1, <3>2, Zenon
    <2>3. DecodeByte(d, L + 1) = [out |-> Ended(d), left |-> L, code |-> L + 1]
        BY <1>1, <1>3 DEF DecodeByte, Ended
    <2>4. State(0) = [out |-> Ended(d), left |-> L, code |-> L + 1]
        BY <1>1, <1>5
    <2>5. Decoder(c)[M + 1 + 0] = State(0)
        <3> HIDE DEF State
        <3> QED
            BY <2>1, <2>2, <2>3, <2>4
    <2> QED
        BY <1>1, <2>5
<1>7. ASSUME NEW j \in 0..L, j < L, j \in Good PROVE j + 1 \in Good
    <2>0. Append(Ended(d) \o SubSeq(v, 1, j), v[j + 1]) = Ended(d) \o SubSeq(v, 1, j + 1)
        BY <1>4, <1>7, SliceGrows
    <2> HIDE DEF c, d, L, M
    <2>1. /\ M + 1 + (j + 1) \in 1..Len(c) /\ (M + 1 + (j + 1)) - 1 = M + 1 + j
          /\ j + 1 \in 1..L
        <3>1. Len(c) = M + 1 + L
            BY <1>2, Zenon
        <3>2. j \in Nat /\ j < L
            BY <1>1, <1>7
        <3> HIDE DEF Good
        <3> QED
            BY <1>1, <3>1, <3>2
    <2>2. Decoder(c)[M + 1 + (j + 1)] = DecodeByte(Decoder(c)[M + 1 + j], c[M + 1 + (j + 1)])
        <3>1. \A n \in 1..Len(c) : Decoder(c)[n] = DecodeByte(Decoder(c)[n - 1], c[n])
            BY <1>2, DecoderEquation, Zenon
        <3> DEFINE n == M + 1 + (j + 1)
        <3>2. n \in 1..Len(c) /\ n - 1 = M + 1 + j
            BY <2>1
        <3> HIDE DEF n
        <3>3. Decoder(c)[n] = DecodeByte(Decoder(c)[M + 1 + j], c[n])
            BY <3>1, <3>2, Zenon
        <3> QED
            BY <3>3 DEF n
    <2>3. Decoder(c)[M + 1 + j] = State(j) /\ c[M + 1 + (j + 1)] = v[j + 1]
        BY <1>2, <1>7, <2>1
    <2>4. DecodeByte(State(j), v[j + 1]) = State(j + 1)
        <3>1. /\ State(j).left = L - j /\ State(j).code = L + 1
              /\ State(j).out = Ended(d) \o SubSeq(v, 1, j)
            OBVIOUS
        <3>2. L - j > 0 /\ (L - j) - 1 = L - (j + 1)
            BY <1>1, <1>7
        <3>3. DecodeByte(State(j), v[j + 1]) =
                [out |-> Append(State(j).out, v[j + 1]), left |-> State(j).left - 1, code |-> State(j).code]
            <4> HIDE DEF State
            <4> QED
                BY <3>1, <3>2 DEF DecodeByte
        <3> QED
            BY <2>0, <3>1, <3>2, <3>3
    <2>5. Decoder(c)[M + 1 + (j + 1)] = State(j + 1)
        <3> HIDE DEF State
        <3> QED
            BY <2>2, <2>3, <2>4
    <2> QED
        BY <1>1, <2>1, <2>5
<1>8. \A j \in 0..L : j \in Good
    <2> HIDE DEF Good, L
    <2> QED
        BY <1>1, <1>6, <1>7, UpTo, Zenon
<1>9. Decoder(c)[Len(c)] = State(L)
    <2> HIDE DEF c, d, L, M, State
    <2> QED
        BY <1>1, <1>2, <1>8
<1>10. State(L) = [out |-> Ended(d) \o v, left |-> 0, code |-> L + 1]
    <2>1. L - L = 0
        BY <1>1
    <2> QED
        BY <1>5, <2>1, Zenon
<1> HIDE DEF State
<1> QED
    BY <1>9, <1>10

-----------------------------------------------------------------------------
(* What the encoder has written decodes to what it has read.               *)

Codes == 1..MaxCode

\* A block that is not too long.
LEMMA CodeBlock ==
    ASSUME NEW v \in Seq(Codes), Len(v) + 1 <= MaxCode
    PROVE  Block(v) \in Seq(Codes) /\ v \in Seq(Nat)
<1>1. Len(v) \in Nat /\ MaxCode \in Nat
    BY CobsConstants
<1>2. <<Len(v) + 1>> \in Seq(Codes)
    BY <1>1 DEF Codes
<1>3. Codes \subseteq Nat
    BY <1>1 DEF Codes
<1>4. Block(v) \in Seq(Codes)
    BY <1>2 DEF Block
<1>5. v \in Seq(Nat)
    BY <1>3, SeqMonotonic, Zenon
<1> QED
    BY <1>4, <1>5

LEMMA ConcatCodes ==
    ASSUME NEW s \in Seq(Codes), NEW t \in Seq(Codes)
    PROVE  s \o t \in Seq(Codes) /\ Len(s \o t) = Len(s) + Len(t) /\ Len(s) \in Nat
OBVIOUS

\* The state of the encoder after n bytes: codes and bytes without a zero, a
\* block that is not full, output that decodes to the bytes before that block,
\* and a byte more than was read for every full block.
DecodesTo(e, s) ==
    LET d == Decoder(e.out)[Len(e.out)] IN d.left = 0 /\ Ended(d) \o e.block = s

Overhead(e, n) ==
    \E k \in Nat : /\ Len(e.out) + Len(e.block) = n + k
                   /\ k * (MaxCode - 1) + Len(e.block) <= n

EncoderInv(e, src, n) ==
    /\ e \in [out : Seq(Codes), block : Seq(Codes)]
    /\ Len(e.block) + 2 <= MaxCode
    /\ DecodesTo(e, SubSeq(src, 1, n))
    /\ Overhead(e, n)

\* Another byte.
LEMMA EncoderInvStep ==
    ASSUME NEW src \in Seq(0..MaxCode), NEW n \in 0..Len(src), n < Len(src),
           NEW e, EncoderInv(e, src, n)
    PROVE  EncoderInv(EncodeByte(e, src[n + 1]), src, n + 1)
<1> DEFINE b == src[n + 1]
           o == e.out
           v == e.block
           w == Append(v, b)
           d == Decoder(o)[Len(o)]
           s == SubSeq(src, 1, n)
           t == SubSeq(src, 1, n + 1)
           f == EncodeByte(e, b)
<1>0. MaxCode \in Nat /\ MaxCode > 1
    BY CobsConstants
<1>1. Len(src) \in Nat /\ n \in Nat /\ b \in 0..MaxCode /\ src \in Seq(Nat) /\ b \in Nat
    <2>1. 0..MaxCode \subseteq Nat
        BY <1>0
    <2>2. src \in Seq(Nat)
        BY <2>1, SeqMonotonic
    <2> QED
        BY <1>0, <2>2
<1>2. /\ o \in Seq(Codes) /\ v \in Seq(Codes) /\ Len(v) + 2 <= MaxCode /\ Len(v) \in Nat
      /\ e = [out |-> o, block |-> v] /\ o \in Seq(Nat) /\ v \in Seq(Nat)
    <2>1. o \in Seq(Codes) /\ v \in Seq(Codes) /\ Len(v) + 2 <= MaxCode /\ e = [out |-> o, block |-> v]
        BY DEF EncoderInv
    <2>2. Codes \subseteq Nat
        BY <1>0 DEF Codes
    <2> QED
        BY <2>1, <2>2, SeqMonotonic
<1>3. d.left = 0 /\ Ended(d) \o v = s
    BY DEF EncoderInv, DecodesTo
<1>4. PICK k \in Nat : Len(o) + Len(v) = n + k /\ k * (MaxCode - 1) + Len(v) <= n
    BY DEF EncoderInv, Overhead
<1>l. n \in Nat /\ Len(v) \in Nat /\ Len(o) \in Nat
    BY <1>1, <1>2
<1>5. s \in Seq(Nat) /\ t = Append(s, b)
    <2>1. << >> \in Seq(Nat) /\ Append(<< >> \o s, b) = << >> \o t
        BY <1>1, SliceGrows
    <2>2. s \in Seq(Nat) /\ t \in Seq(Nat)
        BY <1>1
    <2> QED
        BY <2>1, <2>2, ConcatEmpty
<1>6. d \in DecoderStates /\ Ended(d) \in Seq(Nat)
    <2>1. Len(o) \in 0..Len(o)
        BY <1>2
    <2>2. d \in DecoderStates
        BY <1>2, <2>1, DecoderType, Zenon
    <2> QED
        BY <2>2 DEF Ended, DecoderStates
<1>7. w \in Seq(Nat) /\ Len(w) = Len(v) + 1 /\ Ended(d) \o w = t
    <2>1. w \in Seq(Nat) /\ Len(w) = Len(v) + 1 /\ w = v \o <<b>> /\ <<b>> \in Seq(Nat)
        BY <1>1, <1>2, AppendConcat
    <2>2. Ended(d) \o (v \o <<b>>) = (Ended(d) \o v) \o <<b>>
        BY <1>2, <1>6, <2>1, Associative, Zenon
    <2>3. Append(s, b) = s \o <<b>>
        BY <1>1, <1>5, AppendConcat, Zenon
    <2> HIDE DEF w, d, s, t
    <2> QED
        BY <1>3, <1>5, <2>1, <2>2, <2>3
<1>8. CASE b = 0
    <2> DEFINE c == o \o Block(v)
               x == Decoder(c)[Len(c)]
    <2>1. f = [out |-> c, block |-> << >>] /\ f.out = c /\ f.block = << >>
        BY <1>8 DEF EncodeByte
    <2>2. x = [out |-> Ended(d) \o v, left |-> 0, code |-> Len(v) + 1]
        BY <1>2, <1>3, DecodeBlock, Zenon
    <2>3. Ended(x) = Append(s, 0) /\ x.left = 0
        <3>1. x.out = s /\ x.left = 0 /\ x.code = Len(v) + 1
            BY <1>3, <2>2
        <3>2. Len(v) + 1 \notin {0, MaxCode}
            BY <1>0, <1>2
        <3> HIDE DEF x
        <3> QED
            BY <3>1, <3>2 DEF Ended
    <2>4. t \in Seq(Nat) /\ t \o << >> = t
        BY <1>1, ConcatEmpty
    <2>5. DecodesTo(f, t)
        <3> HIDE DEF c, f, t
        <3>1. Ended(x) \o << >> = t
            BY <1>5, <1>8, <2>3, <2>4 DEF t
        <3> HIDE DEF x
        <3> QED
            BY <2>1, <2>3, <3>1 DEF DecodesTo, x
    <2>6. Block(v) \in Seq(Codes) /\ Len(Block(v)) = Len(v) + 1
        BY <1>0, <1>2, CodeBlock, BlockFacts
    <2>7. c \in Seq(Codes) /\ Len(c) = Len(o) + Len(v) + 1 /\ Len(o) \in Nat
        <3>1. c \in Seq(Codes) /\ Len(c) = Len(o) + Len(Block(v)) /\ Len(o) \in Nat
            BY <1>2, <2>6, ConcatCodes, Zenon
        <3> HIDE DEF c, o, v
        <3> QED
            BY <1>2, <2>6, <3>1
    <2>8. Overhead(f, n + 1)
        <3> HIDE DEF o, v, w, c
        <3>1. Len(c) + 0 = (n + 1) + k
            BY <1>l, <1>4, <2>7
        <3>2. k * (MaxCode - 1) \in Int
            BY <1>0
        <3>3. k * (MaxCode - 1) + 0 <= n + 1
            BY <1>1, <1>2, <1>4, <3>2
        <3> HIDE DEF f
        <3> QED
            BY <2>1, <3>1, <3>3 DEF Overhead
    <2>9. f \in [out : Seq(Codes), block : Seq(Codes)] /\ Len(f.block) + 2 <= MaxCode
        <3> HIDE DEF c, f
        <3> QED
            BY <1>0, <2>1, <2>7
    <2> HIDE DEF f, t
    <2> QED
        BY <2>5, <2>8, <2>9 DEF EncoderInv, f, t
<1>9. CASE b # 0 /\ Len(v) + 2 = MaxCode
    <2> DEFINE c == o \o Block(w)
               x == Decoder(c)[Len(c)]
    <2>1. f = [out |-> c, block |-> << >>] /\ f.out = c /\ f.block = << >>
        BY <1>9 DEF EncodeByte
    <2>2. x = [out |-> Ended(d) \o w, left |-> 0, code |-> Len(w) + 1]
        BY <1>2, <1>3, <1>7, DecodeBlock, Zenon
    <2>3. Ended(x) = t /\ x.left = 0
        <3>1. x.out = t /\ x.left = 0 /\ x.code = Len(w) + 1
            <4> HIDE DEF x, d, w, t
            <4> QED
                BY <1>7, <2>2
        <3>2. Len(w) + 1 = MaxCode
            BY <1>0, <1>2, <1>7, <1>9
        <3> HIDE DEF x
        <3> QED
            BY <3>1, <3>2 DEF Ended
    <2>4. t \in Seq(Nat) /\ t \o << >> = t
        BY <1>1, ConcatEmpty
    <2>5. DecodesTo(f, t)
        <3> HIDE DEF c, f, t
        <3>1. Ended(x) \o << >> = t
            BY <2>3, <2>4 DEF t
        <3> HIDE DEF x
        <3> QED
            BY <2>1, <2>3, <3>1 DEF DecodesTo, x
    <2>6. w \in Seq(Codes) /\ Block(w) \in Seq(Codes) /\ Len(Block(w)) = Len(v) + 2
        <3>1. b \in Codes
            BY <1>0, <1>1, <1>9 DEF Codes
        <3>2. w \in Seq(Codes)
            BY <1>2, <3>1
        <3>3. Len(w) + 1 <= MaxCode
            BY <1>0, <1>2, <1>7
        <3> HIDE DEF w
        <3> QED
            BY <1>2, <1>7, <3>2, <3>3, CodeBlock, BlockFacts
    <2>7. c \in Seq(Codes) /\ Len(c) = Len(o) + Len(v) + 2 /\ Len(o) \in Nat
        <3>1. c \in Seq(Codes) /\ Len(c) = Len(o) + Len(Block(w)) /\ Len(o) \in Nat
            BY <1>2, <2>6, ConcatCodes, Zenon
        <3> HIDE DEF c, o, v, w
        <3> QED
            BY <1>2, <2>6, <3>1
    <2>8. Overhead(f, n + 1)
        <3> HIDE DEF o, v, w, c
        <3>1. Len(c) + 0 = (n + 1) + (k + 1) /\ k + 1 \in Nat
            BY <1>1, <1>2, <1>4, <2>7
        <3>2. k * (MaxCode - 1) \in Int /\ (k + 1) * (MaxCode - 1) = k * (MaxCode - 1) + (MaxCode - 1)
            BY <1>0
        <3>3. (k + 1) * (MaxCode - 1) + 0 <= n + 1
            BY <1>0, <1>1, <1>2, <1>4, <1>9, <3>2
        <3> HIDE DEF f
        <3> QED
            BY <2>1, <3>1, <3>3 DEF Overhead
    <2>9. f \in [out : Seq(Codes), block : Seq(Codes)] /\ Len(f.block) + 2 <= MaxCode
        <3> HIDE DEF c, f
        <3> QED
            BY <1>0, <2>1, <2>7
    <2> HIDE DEF f, t
    <2> QED
        BY <2>5, <2>8, <2>9 DEF EncoderInv, f, t
<1>10. CASE b # 0 /\ Len(v) + 2 # MaxCode
    <2>1. f = [out |-> o, block |-> w] /\ f.out = o /\ f.block = w
        BY <1>10 DEF EncodeByte
    <2>2. DecodesTo(f, t)
        <3> HIDE DEF f, w, t, o
        <3> QED
            BY <1>3, <1>7, <2>1 DEF DecodesTo
    <2>3. w \in Seq(Codes)
        <3>1. b \in Codes
            BY <1>0, <1>1, <1>10 DEF Codes
        <3> QED
            BY <1>2, <3>1
    <2>4. Overhead(f, n + 1)
        <3>0. Len(w) = Len(v) + 1
            BY <1>7
        <3> HIDE DEF o, v, w
        <3>1. Len(o) + Len(w) = (n + 1) + k
            BY <1>l, <1>4, <3>0
        <3>2. k * (MaxCode - 1) \in Int
            BY <1>0
        <3>3. k * (MaxCode - 1) + Len(w) <= n + 1
            BY <1>l, <1>4, <3>0, <3>2
        <3> HIDE DEF f
        <3> QED
            BY <2>1, <3>1, <3>3 DEF Overhead
    <2>5. f \in [out : Seq(Codes), block : Seq(Codes)] /\ Len(f.block) + 2 <= MaxCode
        <3>1. Len(w) + 2 <= MaxCode
            BY <1>0, <1>2, <1>7, <1>10
        <3> HIDE DEF f, w, o
        <3> QED
            BY <1>2, <2>1, <2>3, <3>1
    <2> HIDE DEF f, t
    <2> QED
        BY <2>2, <2>4, <2>5 DEF EncoderInv, f, t
<1> QED
    BY <1>8, <1>9, <1>10

\* No byte.
LEMMA EncoderInvStart ==
    ASSUME NEW src \in Seq(0..MaxCode)
    PROVE  EncoderInv(EncoderStart, src, 0)
<1>1. EncoderStart.out = << >> /\ EncoderStart.block = << >> /\ << >> \in Seq(Codes)
      /\ EncoderStart \in [out : Seq(Codes), block : Seq(Codes)]
    BY DEF EncoderStart
<1>2. MaxCode \in Nat /\ MaxCode > 1 /\ Len(<< >>) = 0
    BY CobsConstants
<1>3. SubSeq(src, 1, 0) = << >>
    BY SubSeqEmpty
<1>4. DecodesTo(EncoderStart, << >>)
    <2>1. << >> \in Seq(Nat) /\ Len(<< >>) = 0
        OBVIOUS
    <2>2. Decoder(<< >>)[0] = DecoderStart
        BY <2>1, DecoderEquation, Zenon
    <2>3. DecoderStart.left = 0 /\ Ended(DecoderStart) = << >>
        BY DEF DecoderStart, Ended
    <2>4. << >> \o << >> = << >>
        BY <2>1, ConcatEmpty, Zenon
    <2> QED
        BY <1>1, <2>1, <2>2, <2>3, <2>4 DEF DecodesTo
<1>5. Overhead(EncoderStart, 0)
    <2>1. 0 * (MaxCode - 1) = 0
        BY <1>2
    <2> QED
        BY <1>1, <1>2, <2>1 DEF Overhead
<1>6. Len(EncoderStart.block) + 2 <= MaxCode
    BY <1>1, <1>2
<1>7. DecodesTo(EncoderStart, SubSeq(src, 1, 0))
    BY <1>3, <1>4, Zenon
<1> QED
    BY <1>1, <1>5, <1>6, <1>7, Zenon DEF EncoderInv

\* Every number of bytes.
LEMMA EncoderCorrect ==
    ASSUME NEW src \in Seq(0..MaxCode)
    PROVE  EncoderInv(Encoder(src)[Len(src)], src, Len(src))
<1> DEFINE L == Len(src)
           Good == {n \in 0..L : EncoderInv(Encoder(src)[n], src, n)}
<1>1. L \in Nat /\ src \in Seq(Nat)
    <2>1. 0..MaxCode \subseteq Nat
        BY CobsConstants
    <2>2. src \in Seq(Nat)
        BY <2>1, SeqMonotonic, Zenon
    <2> QED
        BY <2>2
<1>2. 0 \in Good
    <2>1. Encoder(src)[0] = EncoderStart
        BY <1>1, EncoderEquation, Zenon
    <2>2. EncoderInv(Encoder(src)[0], src, 0)
        BY <2>1, EncoderInvStart
    <2> QED
        BY <1>1, <2>2
<1>3. ASSUME NEW n \in 0..L, n < L, n \in Good PROVE n + 1 \in Good
    <2>1. n + 1 \in 1..L /\ n + 1 \in 0..L /\ (n + 1) - 1 = n
        BY <1>1, <1>3
    <2>2. Encoder(src)[n + 1] = EncodeByte(Encoder(src)[n], src[n + 1])
        BY <1>1, <2>1, EncoderEquation
    <2>3. EncoderInv(Encoder(src)[n], src, n)
        BY <1>3
    <2>4. EncoderInv(EncodeByte(Encoder(src)[n], src[n + 1]), src, n + 1)
        BY <1>3, <2>3, EncoderInvStep, Zenon
    <2> QED
        BY <2>1, <2>2, <2>4, Zenon
<1> HIDE DEF Good
<1>4. \A n \in 0..L : n \in Good
    BY <1>1, <1>2, <1>3, UpTo, Zenon
<1>5. L \in 0..L
    BY <1>1
<1>6. L \in Good
    BY <1>4, <1>5
<1> QED
    BY <1>6, Zenon DEF Good

\* The bound of the encoded length, from the number of full blocks.
LEMMA OverheadBound ==
    ASSUME NEW m \in Nat, m > 0, NEW k \in Nat, NEW n \in Nat, k * m <= n
    PROVE  k <= n \div m /\ n \div m \in Nat
<1> DEFINE q == n \div m
<1>1. q \in Nat /\ n < (q + 1) * m
    OBVIOUS
<1> HIDE DEF q
<1>2. k <= q
    <2> SUFFICES ASSUME q + 1 <= k PROVE FALSE
        BY <1>1
    <2>1. (q + 1) * m <= k * m
        BY <1>1
    <2>2. (q + 1) * m \in Nat /\ k * m \in Nat
        BY <1>1
    <2> QED
        BY <1>1, <2>1, <2>2
<1> QED
    BY <1>1, <1>2 DEF q

\* A payload is encoded without a zero, in the worst case the buffers are made
\* for, and decoded to itself.
LEMMA RoundTrip ==
    ASSUME NEW src \in Seq(0..MaxCode)
    PROVE  /\ CobsEncode(src) \in Seq(Codes)
           /\ Len(CobsEncode(src)) <= Len(src) + (Len(src) \div (MaxCode - 1)) + 1
           /\ CobsDecode(CobsEncode(src)) = [out |-> src, ok |-> TRUE]
<1> DEFINE e == Encoder(src)[Len(src)]
           o == e.out
           v == e.block
           c == o \o Block(v)
           d == Decoder(o)[Len(o)]
           x == Decoder(c)[Len(c)]
<1>0. MaxCode \in Nat /\ MaxCode > 1 /\ Len(src) \in Nat
    BY CobsConstants
<1>1. EncoderInv(e, src, Len(src))
    BY EncoderCorrect, Zenon
<1>2. CobsEncode(src) = c
    BY Zenon DEF CobsEncode
<1> HIDE DEF e
<1>3. o \in Seq(Codes) /\ v \in Seq(Codes) /\ Len(v) + 2 <= MaxCode
    BY <1>1 DEF EncoderInv
<1>4. PICK k \in Nat : Len(o) + Len(v) = Len(src) + k /\ k * (MaxCode - 1) + Len(v) <= Len(src)
    BY <1>1 DEF EncoderInv, Overhead
<1>5. d.left = 0 /\ Ended(d) \o v = src
    <2>1. SubSeq(src, 1, Len(src)) = src
        BY SubSeqFull
    <2>2. DecodesTo(e, src)
        BY <1>1, <2>1 DEF EncoderInv
    <2> QED
        BY <2>2 DEF DecodesTo
<1>6. o \in Seq(Nat) /\ v \in Seq(Nat)
    <2>1. Codes \subseteq Nat
        BY <1>0 DEF Codes
    <2> QED
        BY <1>3, <2>1, SeqMonotonic, Zenon
<1>7. Len(v) \in Nat /\ Len(o) \in Nat
    BY <1>6
<1>8. Block(v) \in Seq(Codes) /\ Len(Block(v)) = Len(v) + 1
    <2>1. Len(v) + 1 <= MaxCode
        <3> HIDE DEF v
        <3> QED
            BY <1>0, <1>3, <1>7
    <2> QED
        BY <1>3, <1>6, <2>1, CodeBlock, BlockFacts, Zenon
<1>9. c \in Seq(Codes) /\ Len(c) = Len(o) + Len(Block(v))
    BY <1>3, <1>8, ConcatCodes, Zenon
<1>10. Len(c) <= Len(src) + (Len(src) \div (MaxCode - 1)) + 1
    <2> HIDE DEF c, o, v
    <2> DEFINE m == MaxCode - 1
    <2>1. m \in Nat /\ m > 0
        BY <1>0
    <2>2. k * m \in Nat
        BY <2>1
    <2>3. k * m <= Len(src)
        <3> HIDE DEF m
        <3>1. k * m + Len(v) <= Len(src)
            BY <1>4 DEF m
        <3> QED
            BY <1>0, <1>7, <2>2, <3>1
    <2> HIDE DEF m
    <2>4. k <= Len(src) \div m /\ Len(src) \div m \in Nat
        BY <1>0, <2>1, <2>3, OverheadBound, Zenon
    <2>5. Len(c) = Len(src) + k + 1
        <3>1. Len(c) = (Len(o) + Len(v)) + 1
            BY <1>7, <1>8, <1>9
        <3>2. Len(o) + Len(v) = Len(src) + k
            BY <1>4
        <3> QED
            BY <3>1, <3>2
    <2>6. Len(c) <= Len(src) + (Len(src) \div m) + 1
        <3> DEFINE q == Len(src) \div m
        <3>1. q \in Nat /\ k <= q
            BY <2>4
        <3> HIDE DEF q
        <3>2. Len(c) <= Len(src) + q + 1
            BY <1>0, <2>5, <3>1
        <3> QED
            BY <3>2 DEF q
    <2> QED
        BY <2>6 DEF m
<1>11. x = [out |-> Ended(d) \o v, left |-> 0, code |-> Len(v) + 1]
    BY <1>5, <1>6, DecodeBlock, Zenon
<1>12. CobsDecode(c) = [out |-> src, ok |-> TRUE]
    <2>1. x.out = src /\ x.left = 0
        <3> HIDE DEF x, d, v
        <3> QED
            BY <1>5, <1>11
    <2>2. CobsDecode(c) = [out |-> x.out, ok |-> x.left = 0]
        BY Zenon DEF CobsDecode
    <2> HIDE DEF x, c
    <2> QED
        BY <2>1, <2>2
<1> HIDE DEF c
<1> QED
    BY <1>2, <1>9, <1>10, <1>12

-----------------------------------------------------------------------------
(* The frames on the line.                                                 *)

\* The decoder writes fewer bytes than it reads.
LEMMA DecodeShrinks ==
    ASSUME NEW src \in Seq(Nat)
    PROVE  LET out == CobsDecode(src).out IN
           out \in Seq(Nat) /\ (Len(out) = 0 \/ Len(out) < Len(src))
<1> DEFINE L == Len(src)
           Small(n) == Len(Decoder(src)[n].out) = 0 \/ Len(Decoder(src)[n].out) < n
           Good == {n \in 0..L : Small(n)}
<1>1. L \in Nat
    OBVIOUS
<1>2. \A n \in 0..L : Decoder(src)[n] \in DecoderStates
    BY DecoderType, Zenon
<1>3. 0 \in Good
    <2>1. Decoder(src)[0] = DecoderStart
        BY DecoderEquation, Zenon
    <2>2. Len(DecoderStart.out) = 0
        BY DEF DecoderStart
    <2> QED
        BY <1>1, <2>1, <2>2
<1>4. ASSUME NEW n \in 0..L, n < L, n \in Good PROVE n + 1 \in Good
    <2> DEFINE d == Decoder(src)[n]
               b == src[n + 1]
    <2>1. n + 1 \in 1..L /\ n + 1 \in 0..L /\ (n + 1) - 1 = n
        BY <1>1, <1>4
    <2>2. Decoder(src)[n + 1] = DecodeByte(d, b)
        BY <2>1, DecoderEquation
    <2>3. d \in DecoderStates /\ d.out \in Seq(Nat) /\ Len(d.out) \in Nat /\ b \in Nat
        BY <1>2, <2>1 DEF DecoderStates
    <2>4. Small(n)
        BY <1>4
    <2>5. CASE n = 0
        <3>1. d = DecoderStart
            BY <2>5, DecoderEquation, Zenon
        <3>2. DecodeByte(DecoderStart, b).out = << >>
            BY DEF DecodeByte, DecoderStart
        <3> HIDE DEF d, b
        <3> QED
            BY <2>1, <2>2, <3>1, <3>2
    <2>6. CASE n # 0
        <3> HIDE DEF d, b
        <3>1. DecodeByte(d, b).out \in {d.out, Append(d.out, b), Append(d.out, 0)}
            BY DEF DecodeByte
        <3>2. Len(Append(d.out, b)) = Len(d.out) + 1 /\ Len(Append(d.out, 0)) = Len(d.out) + 1
            BY <2>3
        <3>3. Len(d.out) <= n - 1
            BY <1>4, <2>3, <2>4, <2>6 DEF d
        <3>4. Len(DecodeByte(d, b).out) < n + 1
            BY <1>4, <2>3, <3>1, <3>2, <3>3
        <3> QED
            BY <2>1, <2>2, <3>4
    <2> QED
        BY <2>5, <2>6
<1> HIDE DEF Good
<1>5. \A n \in 0..L : n \in Good
    BY <1>1, <1>3, <1>4, UpTo, Zenon
<1>6. L \in 0..L
    BY <1>1
<1>7. Small(L)
    BY <1>5, <1>6 DEF Good
<1>8. CobsDecode(src).out = Decoder(src)[L].out
    BY DEF CobsDecode
<1>9. Decoder(src)[L].out \in Seq(Nat)
    BY <1>2, <1>6 DEF DecoderStates
<1> QED
    BY <1>7, <1>8, <1>9

LEMMA MaxOfTwo ==
    ASSUME NEW a \in Nat, NEW b \in Nat
    PROVE  Max({a, b}) \in {a, b}
<1>1. \E x \in {a, b} : \A y \in {a, b} : x >= y
    OBVIOUS
<1> QED
    BY <1>1, Zenon DEF Max

\* What is known of the frame of a payload.
LEMMA FrameFacts ==
    ASSUME NEW p \in Payloads
    PROVE  LET c == CobsEncode(p) IN
           /\ c \in Seq(Codes) /\ c \in Seq(Nat) /\ Len(c) \in Nat
           /\ Len(c) <= RX_BUF_SIZE /\ Len(c) <= DECODE_BUF_SIZE + 1
           /\ CobsDecode(c) = [out |-> p, ok |-> TRUE]
           /\ Frame(p) \in Seq(0..MaxCode) /\ Len(Frame(p)) = Len(c) + 1
           /\ \A i \in 1..Len(c) : Frame(p)[i] = c[i] /\ c[i] \in Codes
           /\ Frame(p)[Len(c) + 1] = 0
<1> DEFINE c == CobsEncode(p)
           m == MaxCode - 1
<1>0. MaxCode \in Nat /\ MaxCode > 1 /\ RX_BUF_SIZE \in Nat /\ DECODE_BUF_SIZE \in Nat
    BY CobsConstants
<1>1. p \in Seq(0..MaxCode)
    <2>1. Bytes \subseteq 0..MaxCode /\ p \in Seq(Bytes)
        BY CobsConstants
    <2> QED
        BY <2>1, SeqMonotonic, Zenon
<1>2. c \in Seq(Codes) /\ Len(c) <= Len(p) + (Len(p) \div m) + 1
      /\ CobsDecode(c) = [out |-> p, ok |-> TRUE]
    BY <1>1, RoundTrip, Zenon
<1>3. Codes \subseteq Nat /\ Codes \subseteq 0..MaxCode /\ 0 \in 0..MaxCode
    BY <1>0 DEF Codes
<1>4. c \in Seq(Nat) /\ c \in Seq(0..MaxCode)
    BY <1>2, <1>3, SeqMonotonic, Zenon
<1>5. Len(c) <= RX_BUF_SIZE /\ Len(c) <= DECODE_BUF_SIZE + 1 /\ Len(c) \in Nat
    <2> HIDE DEF c
    <2>1. Len(p) + (Len(p) \div m) + 1 <= RX_BUF_SIZE /\ Len(p) + (Len(p) \div m) <= DECODE_BUF_SIZE
        BY CobsConstants
    <2>2. Len(c) \in Nat /\ Len(p) \in Nat
        BY <1>1, <1>4
    <2>3. m \in Nat /\ m > 0
        BY <1>0
    <2> HIDE DEF m
    <2>4. Len(p) \div m \in Nat
        BY <2>2, <2>3
    <2> QED
        BY <1>0, <1>2, <2>1, <2>2, <2>4
<1> HIDE DEF c
<1>6. Frame(p) = Append(c, 0)
    BY DEF Frame, c
<1>7. /\ Append(c, 0) \in Seq(0..MaxCode) /\ Len(Append(c, 0)) = Len(c) + 1
      /\ \A i \in 1..Len(c) : Append(c, 0)[i] = c[i]
      /\ Append(c, 0)[Len(c) + 1] = 0
    BY <1>3, <1>4
<1>8. \A i \in 1..Len(c) : c[i] \in Codes
    BY <1>2
<1>9. /\ c \in Seq(Codes) /\ c \in Seq(Nat) /\ Len(c) \in Nat
      /\ Len(c) <= RX_BUF_SIZE /\ Len(c) <= DECODE_BUF_SIZE + 1
      /\ CobsDecode(c) = [out |-> p, ok |-> TRUE]
      /\ Frame(p) \in Seq(0..MaxCode) /\ Len(Frame(p)) = Len(c) + 1
      /\ \A i \in 1..Len(c) : Frame(p)[i] = c[i] /\ c[i] \in Codes
      /\ Frame(p)[Len(c) + 1] = 0
    BY <1>2, <1>4, <1>5, <1>6, <1>7, <1>8
<1> QED
    BY <1>9 DEF c

\* The receiver has read the first bytes of the frame, the others are to come.
Split ==
    LET f == Frame(payload) IN
    /\ Len(buf) + Len(wire) = Len(f)
    /\ \A i \in 1..Len(buf) : buf[i] = f[i]
    /\ \A i \in 1..Len(wire) : wire[i] = f[Len(buf) + i]

LinkTypeOK ==
    /\ payload \in Payloads
    /\ wire \in Seq(0..MaxCode)
    /\ buf \in Seq(0..MaxCode) /\ Len(buf) <= RX_BUF_SIZE
    /\ longest \in Nat
    /\ synced \in BOOLEAN /\ clean \in BOOLEAN /\ joined \in BOOLEAN

\* As long as every delimiter has arrived, the buffer holds no more than the part
\* of one frame that has been sent, and nothing between two frames.
OneFrame ==
    /\ wire # << >> => wire[Len(wire)] = 0
    /\ ~joined => /\ longest <= DECODE_BUF_SIZE
                  /\ wire # << >> => Len(buf) + Len(wire) <= Len(Frame(payload))
                  /\ wire = << >> => buf = << >>

LinkInv ==
    /\ LinkTypeOK
    /\ OneFrame
    /\ longest = 0 \/ longest < RX_BUF_SIZE
    /\ synced => buf = << >>
    /\ clean /\ wire # << >> => Split
    /\ CleanFrameDelivered

LEMMA LinkStart == LinkInit => LinkInv
<1> SUFFICES ASSUME LinkInit PROVE LinkInv
    OBVIOUS
<1>0. RX_BUF_SIZE \in Nat /\ DECODE_BUF_SIZE \in Nat
    BY CobsConstants
<1>1. payload \in Payloads /\ wire = Frame(payload) /\ buf = << >> /\ longest = 0
      /\ synced = TRUE /\ clean = TRUE /\ joined = FALSE
    BY DEF LinkInit
<1>2. Frame(payload) \in Seq(0..MaxCode) /\ Len(Frame(payload)) = Len(CobsEncode(payload)) + 1
      /\ Len(CobsEncode(payload)) \in Nat /\ Frame(payload)[Len(CobsEncode(payload)) + 1] = 0
    BY <1>1, FrameFacts
<1>3. LinkTypeOK
    <2>1. wire \in Seq(0..MaxCode) /\ buf \in Seq(0..MaxCode) /\ Len(buf) <= RX_BUF_SIZE /\ longest \in Nat
        BY <1>0, <1>1, <1>2
    <2> QED
        BY <1>1, <2>1, Zenon DEF LinkTypeOK
<1>4. Len(buf) = 0 /\ Len(wire) \in Nat
    BY <1>1, <1>2
<1>5. Split
    <2> HIDE DEF LinkInit
    <2>1. Len(buf) + Len(wire) = Len(Frame(payload))
        BY <1>1, <1>4
    <2>2. \A i \in 1..Len(wire) : wire[i] = Frame(payload)[Len(buf) + i]
        <3> TAKE i \in 1..Len(wire)
        <3>1. 0 + i = i
            BY <1>4
        <3> QED
            BY <1>1, <1>4, <3>1
    <2>3. \A i \in 1..Len(buf) : FALSE
        BY <1>4
    <2> QED
        BY <2>1, <2>2, <2>3 DEF Split
<1>6. wire # << >>
    <2>1. Len(wire) # 0
        BY <1>1, <1>2
    <2> QED
        BY <2>1
<1>7. OneFrame
    <2>1. wire[Len(wire)] = 0 /\ Len(buf) + Len(wire) <= Len(Frame(payload)) /\ longest <= DECODE_BUF_SIZE
        BY <1>0, <1>1, <1>2, <1>4
    <2> QED
        BY <1>6, <2>1 DEF OneFrame
<1> QED
    BY <1>1, <1>3, <1>5, <1>6, <1>7 DEF LinkInv, CleanFrameDelivered

\* Any byte, of a frame or not.
LEMMA ReceiveBounds ==
    ASSUME LinkInv, NEW b \in 0..MaxCode, Receive(b)
    PROVE  /\ buf' \in Seq(0..MaxCode) /\ Len(buf') <= RX_BUF_SIZE
           /\ longest' \in Nat /\ (longest' = 0 \/ longest' < RX_BUF_SIZE)
           /\ b = 0 => buf' = << >>
           /\ Len(buf') <= Len(buf) + 1
           /\ longest' = longest \/ longest' = 0 \/ longest' < Len(buf)
<1>0. RX_BUF_SIZE \in Nat /\ MaxCode \in Nat
    BY CobsConstants
<1>1. buf \in Seq(0..MaxCode) /\ Len(buf) <= RX_BUF_SIZE /\ longest \in Nat /\ Len(buf) \in Nat
      /\ (longest = 0 \/ longest < RX_BUF_SIZE)
    BY DEF LinkInv, LinkTypeOK
<1>2. << >> \in Seq(0..MaxCode) /\ Len(<< >>) = 0
    OBVIOUS
<1>3. CASE b = 0
    <2> DEFINE out == CobsDecode(buf).out
    <2>1. buf' = << >> /\ longest' = Max({longest, Len(out)})
        BY <1>3 DEF Receive
    <2>2. buf \in Seq(Nat)
        <3>1. 0..MaxCode \subseteq Nat
            BY <1>0
        <3> QED
            BY <1>1, <3>1, SeqMonotonic, Zenon
    <2>3. out \in Seq(Nat) /\ (Len(out) = 0 \/ Len(out) < Len(buf))
        BY <2>2, DecodeShrinks
    <2>4. Len(out) \in Nat
        BY <2>3
    <2> HIDE DEF out
    <2>5. longest' \in {longest, Len(out)}
        BY <1>1, <2>1, <2>4, MaxOfTwo
    <2> QED
        BY <1>0, <1>1, <1>2, <2>1, <2>3, <2>4, <2>5
<1>4. CASE b # 0
    <2>1. buf' = (IF Room THEN Append(buf, b) ELSE << >>) /\ longest' = longest
        BY <1>4 DEF Receive
    <2>2. Append(buf, b) \in Seq(0..MaxCode) /\ Len(Append(buf, b)) = Len(buf) + 1
        BY <1>1
    <2>3. CASE Room
        <3>1. buf' = Append(buf, b)
            BY <2>1, <2>3
        <3>2. Len(buf) + 1 <= RX_BUF_SIZE
            BY <1>0, <1>1, <2>3 DEF Room
        <3>3. buf' \in Seq(0..MaxCode) /\ Len(buf') <= RX_BUF_SIZE /\ Len(buf') <= Len(buf) + 1
            BY <1>1, <2>2, <3>1, <3>2
        <3> QED
            BY <1>1, <1>4, <2>1, <3>3
    <2>4. CASE ~Room
        BY <1>0, <1>1, <1>2, <1>4, <2>1, <2>4
    <2> QED
        BY <2>3, <2>4
<1> QED
    BY <1>3, <1>4

\* The byte that was taken from the line.
LEMMA RestOfWire ==
    ASSUME NEW w \in Seq(0..MaxCode), w # << >>
    PROVE  /\ Head(w) = w[1] /\ w[1] \in 0..MaxCode /\ Len(w) \in Nat \ {0}
           /\ Tail(w) \in Seq(0..MaxCode) /\ Len(Tail(w)) = Len(w) - 1
           /\ \A i \in 1..(Len(w) - 1) : Tail(w)[i] = w[i + 1]
<1>1. Len(w) \in Nat /\ Len(w) # 0
    OBVIOUS
<1>2. Head(w) = w[1] /\ 1 \in 1..Len(w)
    BY <1>1
<1>3. w[1] \in 0..MaxCode
    BY <1>2, ElementOfSeq, Zenon
<1>4. Tail(w) \in Seq(0..MaxCode)
    OBVIOUS
<1>5. Len(Tail(w)) = Len(w) - 1
    BY <1>1
<1>6. \A i \in 1..(Len(w) - 1) : Tail(w)[i] = w[i + 1]
    BY <1>1, <1>5
<1> QED
    BY <1>1, <1>2, <1>3, <1>4, <1>5, <1>6

\* A byte less on the line, and at most one more in the buffer.
LEMMA OneFrameStep ==
    ASSUME LinkInv, NextByte, Len(buf') \in Nat, longest' \in Nat,
           Len(buf') <= Len(buf) + 1,
           longest' = longest \/ longest' = 0 \/ longest' < Len(buf),
           ~joined' => ~joined /\ (Head(wire) = 0 => buf' = << >>)
    PROVE  OneFrame'
<1>0. DECODE_BUF_SIZE \in Nat
    BY CobsConstants
<1>1. wire \in Seq(0..MaxCode) /\ Len(buf) \in Nat /\ longest \in Nat /\ payload \in Payloads
    BY DEF LinkInv, LinkTypeOK
<1>2. wire # << >> /\ wire' = Tail(wire) /\ payload' = payload
    BY DEF NextByte
<1>3. /\ Head(wire) = wire[1] /\ Len(wire) \in Nat \ {0} /\ Len(wire') = Len(wire) - 1
      /\ \A i \in 1..(Len(wire) - 1) : wire'[i] = wire[i + 1]
      /\ wire' \in Seq(0..MaxCode)
    BY <1>1, <1>2, RestOfWire
<1>4. wire[Len(wire)] = 0
    BY <1>2 DEF LinkInv, OneFrame
<1>5. ASSUME wire' # << >> PROVE wire'[Len(wire')] = 0
    <2>1. Len(wire') # 0
        BY <1>3, <1>5
    <2>2. Len(wire') \in 1..(Len(wire) - 1) /\ Len(wire') + 1 = Len(wire)
        BY <1>3, <2>1
    <2> QED
        BY <1>3, <1>4, <2>2
<1>6. ASSUME wire' = << >> PROVE Head(wire) = 0
    <2>1. Len(wire') = 0
        BY <1>6
    <2>2. Len(wire) = 1
        BY <1>3, <2>1
    <2> QED
        BY <1>3, <1>4, <2>2
<1>7. ASSUME ~joined'
      PROVE  /\ longest' <= DECODE_BUF_SIZE
             /\ Len(buf') + Len(wire') <= Len(Frame(payload'))
    <2>1. longest <= DECODE_BUF_SIZE /\ Len(buf) + Len(wire) <= Len(Frame(payload))
        BY <1>2, <1>7 DEF LinkInv, OneFrame
    <2>2. LET c == CobsEncode(payload) IN
          Len(c) \in Nat /\ Len(c) <= DECODE_BUF_SIZE + 1 /\ Len(Frame(payload)) = Len(c) + 1
        BY <1>1, FrameFacts
    <2>3. Len(Frame(payload)) \in Nat /\ Len(Frame(payload)) <= DECODE_BUF_SIZE + 2
        BY <1>0, <2>2
    <2>4. longest' <= DECODE_BUF_SIZE
        BY <1>0, <1>1, <1>3, <2>1, <2>3
    <2>5. Len(buf') + Len(wire') <= Len(Frame(payload))
        BY <1>1, <1>3, <2>1, <2>3
    <2> QED
        BY <1>2, <2>4, <2>5
<1> QED
    BY <1>5, <1>6, <1>7 DEF OneFrame

LEMMA DeliverStep ==
    ASSUME LinkInv, Deliver
    PROVE  LinkInv'
<1> DEFINE h == wire[1]
           f == Frame(payload)
           c == CobsEncode(payload)
<1>0. RX_BUF_SIZE \in Nat /\ MaxCode \in Nat
    BY CobsConstants
<1>1. /\ payload \in Payloads /\ wire \in Seq(0..MaxCode) /\ buf \in Seq(0..MaxCode)
      /\ Len(buf) \in Nat /\ clean \in BOOLEAN /\ joined \in BOOLEAN
    BY DEF LinkInv, LinkTypeOK
<1>2. /\ wire # << >> /\ wire' = Tail(wire) /\ Head(wire) = h /\ Receive(h)
      /\ synced' = (h = 0) /\ UNCHANGED <<payload, clean, joined>>
    BY <1>1, RestOfWire DEF Deliver, NextByte
<1>3. /\ h \in 0..MaxCode /\ Len(wire) \in Nat \ {0} /\ wire' \in Seq(0..MaxCode)
      /\ Len(wire') = Len(wire) - 1 /\ \A i \in 1..(Len(wire) - 1) : wire'[i] = wire[i + 1]
    BY <1>1, <1>2, RestOfWire
<1>4. /\ buf' \in Seq(0..MaxCode) /\ Len(buf') <= RX_BUF_SIZE
      /\ longest' \in Nat /\ (longest' = 0 \/ longest' < RX_BUF_SIZE)
      /\ h = 0 => buf' = << >>
      /\ Len(buf') <= Len(buf) + 1
      /\ longest' = longest \/ longest' = 0 \/ longest' < Len(buf)
    <2> HIDE DEF h
    <2> QED
        BY <1>2, <1>3, ReceiveBounds
<1>5. LinkTypeOK'
    BY <1>1, <1>2, <1>3, <1>4 DEF LinkTypeOK
<1>6. (synced => buf = << >>)'
    BY <1>2, <1>4
<1>7. ASSUME clean PROVE (wire' # << >> => Split') /\ (wire' = << >> => handed' = payload')
    <2>1. /\ c \in Seq(Nat) /\ Len(c) \in Nat /\ Len(c) <= RX_BUF_SIZE
          /\ CobsDecode(c) = [out |-> payload, ok |-> TRUE] /\ Len(f) = Len(c) + 1
          /\ \A i \in 1..Len(c) : f[i] = c[i] /\ c[i] \in Codes
          /\ f[Len(c) + 1] = 0
        BY <1>1, FrameFacts
    <2>2. /\ Len(buf) + Len(wire) = Len(f)
          /\ \A i \in 1..Len(buf) : buf[i] = f[i]
          /\ \A i \in 1..Len(wire) : wire[i] = f[Len(buf) + i]
        BY <1>2, <1>7 DEF LinkInv, Split
    <2> HIDE DEF f, c
    <2>3. h = f[Len(buf) + 1] /\ Len(buf) + 1 <= Len(c) + 1
        BY <1>1, <1>3, <2>1, <2>2
    <2> HIDE DEF h
    <2>4. CASE Len(buf) + 1 <= Len(c)
        <3>1. h # 0
            <4>1. Len(buf) + 1 \in 1..Len(c)
                BY <1>1, <2>1, <2>4
            <4>2. h \in Codes
                BY <2>1, <2>3, <4>1
            <4> QED
                BY <4>2 DEF Codes
        <3>2. Room
            BY <1>0, <1>1, <2>1, <2>4 DEF Room
        <3>3. buf' = Append(buf, h)
            BY <1>2, <3>1, <3>2 DEF Receive
        <3>4. /\ Len(buf') = Len(buf) + 1 /\ \A i \in 1..Len(buf) : buf'[i] = buf[i]
              /\ buf'[Len(buf) + 1] = h
            BY <1>1, <1>3, <3>3
        <3>5. Len(wire) > 1
            BY <1>1, <1>3, <2>1, <2>2, <2>4
        <3>6. wire' # << >>
            <4>1. Len(wire') # 0
                BY <1>3, <3>5
            <4> QED
                BY <4>1
        <3>7. Len(buf') + Len(wire') = Len(f)
            <4>1. Len(buf') = Len(buf) + 1 /\ Len(wire') = Len(wire) - 1
                BY <1>3, <3>4
            <4>2. Len(buf) \in Nat /\ Len(wire) \in Nat /\ Len(buf) + Len(wire) = Len(f)
                BY <1>1, <1>3, <2>2
            <4> QED
                BY <4>1, <4>2
        <3>8. ASSUME NEW i \in 1..Len(buf') PROVE buf'[i] = f[i]
            <4>1. CASE i = Len(buf) + 1
                BY <2>3, <3>4, <4>1
            <4>2. CASE i # Len(buf) + 1
                <5>1. i \in 1..Len(buf)
                    BY <1>1, <3>4, <4>2
                <5> QED
                    BY <2>2, <3>4, <5>1
            <4> QED
                BY <4>1, <4>2
        <3>9. ASSUME NEW i \in 1..Len(wire') PROVE wire'[i] = f[Len(buf') + i]
            <4>1. i \in 1..(Len(wire) - 1) /\ i + 1 \in 1..Len(wire)
                BY <1>3
            <4>2. wire'[i] = wire[i + 1] /\ wire[i + 1] = f[Len(buf) + (i + 1)]
                BY <1>3, <2>2, <4>1
            <4>3. Len(buf) + (i + 1) = Len(buf') + i
                BY <1>1, <3>4, <4>1
            <4> QED
                BY <4>2, <4>3
        <3>10. Frame(payload') = f
            BY <1>2 DEF f
        <3>11. Split'
            BY <3>7, <3>8, <3>9, <3>10 DEF Split
        <3> QED
            BY <3>6, <3>11
    <2>5. CASE Len(buf) + 1 = Len(c) + 1
        <3>1. h = 0 /\ Len(buf) = Len(c)
            BY <1>1, <2>1, <2>3, <2>5
        <3>2. Len(wire) = 1
            BY <1>1, <1>3, <2>1, <2>2, <3>1
        <3>3. wire' = << >>
            BY <1>3, <3>2
        <3>4. buf = c
            <4>1. buf \in Seq(Nat)
                <5>1. 0..MaxCode \subseteq Nat
                    BY <1>0
                <5> QED
                    BY <1>1, <5>1, SeqMonotonic, Zenon
            <4>2. \A i \in 1..Len(buf) : buf[i] = c[i]
                BY <2>1, <2>2, <3>1
            <4> QED
                BY <2>1, <3>1, <4>1, <4>2
        <3>5. handed' = payload
            <4>1. CobsDecode(buf).ok = TRUE /\ CobsDecode(buf).out = payload
                BY <2>1, <3>4
            <4>2. handed' = IF CobsDecode(buf).ok THEN CobsDecode(buf).out ELSE << >>
                BY <1>2, <3>1 DEF Receive
            <4> QED
                BY <4>1, <4>2
        <3> QED
            BY <1>2, <3>3, <3>5
    <2>6. Len(buf) + 1 <= Len(c) \/ Len(buf) + 1 = Len(c) + 1
        BY <1>1, <2>1, <2>3
    <2> QED
        BY <2>4, <2>5, <2>6
<1>8. OneFrame'
    <2>1. NextByte /\ Len(buf') \in Nat
        BY <1>4 DEF Deliver
    <2>2. ~joined' => ~joined /\ (Head(wire) = 0 => buf' = << >>)
        BY <1>2, <1>4
    <2> QED
        BY <1>4, <2>1, <2>2, OneFrameStep
<1> QED
    BY <1>2, <1>4, <1>5, <1>6, <1>7, <1>8 DEF LinkInv, CleanFrameDelivered

LEMMA LinkStep ==
    ASSUME LinkInv, [LinkNext]_cobsVars
    PROVE  LinkInv'
<1>0. RX_BUF_SIZE \in Nat /\ MaxCode \in Nat /\ Bytes \subseteq 0..MaxCode
    BY CobsConstants
<1>1. CASE Deliver
    BY <1>1, DeliverStep
<1>2. CASE Lose
    <2>1. /\ NextByte /\ wire # << >> /\ wire' = Tail(wire) /\ clean' = FALSE
          /\ joined' = (joined \/ Head(wire) = 0)
          /\ UNCHANGED <<payload, buf, handed, longest, synced>>
        BY <1>2 DEF Lose, Damage, NextByte
    <2>2. wire' \in Seq(0..MaxCode)
        BY <2>1, RestOfWire DEF LinkInv, LinkTypeOK
    <2>3. Len(buf') \in Nat /\ longest' \in Nat /\ Len(buf') <= Len(buf) + 1 /\ longest' = longest
        BY <2>1 DEF LinkInv, LinkTypeOK
    <2>4. OneFrame'
        BY <2>1, <2>3, OneFrameStep
    <2>5. joined' \in BOOLEAN
        BY <2>1, Zenon
    <2> QED
        BY <2>1, <2>2, <2>4, <2>5 DEF LinkInv, LinkTypeOK, CleanFrameDelivered
<1>3. CASE Change
    <2>1. PICK b \in Bytes : Receive(b) /\ synced' = (b = 0)
        BY <1>3 DEF Change
    <2>2. /\ NextByte /\ wire # << >> /\ wire' = Tail(wire) /\ clean' = FALSE
          /\ joined' = (joined \/ Head(wire) = 0) /\ payload' = payload
        BY <1>3 DEF Change, Damage, NextByte
    <2>3. wire' \in Seq(0..MaxCode)
        BY <2>2, RestOfWire DEF LinkInv, LinkTypeOK
    <2>4. /\ buf' \in Seq(0..MaxCode) /\ Len(buf') <= RX_BUF_SIZE
          /\ longest' \in Nat /\ (longest' = 0 \/ longest' < RX_BUF_SIZE)
          /\ b = 0 => buf' = << >>
          /\ Len(buf') <= Len(buf) + 1
          /\ longest' = longest \/ longest' = 0 \/ longest' < Len(buf)
        BY <1>0, <2>1, ReceiveBounds
    <2>5. Len(buf') \in Nat
        BY <2>4
    <2>6. OneFrame'
        BY <2>2, <2>4, <2>5, OneFrameStep
    <2>7. joined' \in BOOLEAN
        BY <2>2, Zenon
    <2> QED
        BY <2>1, <2>2, <2>3, <2>4, <2>6, <2>7 DEF LinkInv, LinkTypeOK, CleanFrameDelivered
<1>4. CASE SendFrame
    <2>1. PICK p \in Payloads : payload' = p /\ wire' = Frame(p)
        BY <1>4 DEF SendFrame
    <2>2. clean' = synced /\ wire = << >> /\ UNCHANGED <<buf, longest, synced, joined>>
        BY <1>4 DEF SendFrame
    <2>3. Frame(p) \in Seq(0..MaxCode) /\ Len(Frame(p)) = Len(CobsEncode(p)) + 1
          /\ Len(CobsEncode(p)) \in Nat /\ Frame(p)[Len(CobsEncode(p)) + 1] = 0
        BY FrameFacts
    <2>4. LinkTypeOK'
        BY <2>1, <2>2, <2>3 DEF LinkInv, LinkTypeOK
    <2>5. wire' # << >>
        <3>1. Len(wire') # 0
            BY <2>1, <2>3
        <3> QED
            BY <3>1
    <2>6. ASSUME synced PROVE Split'
        <3>1. buf' = << >> /\ Len(<< >>) = 0
            BY <2>2, <2>6 DEF LinkInv
        <3>2. Len(buf') = 0
            BY <3>1
        <3>3. Len(wire') \in Nat /\ wire' = Frame(payload')
            BY <2>1, <2>3
        <3>4. Len(buf') + Len(wire') = Len(Frame(payload'))
            BY <3>2, <3>3
        <3>5. \A i \in 1..Len(wire') : wire'[i] = Frame(payload')[Len(buf') + i]
            <4> TAKE i \in 1..Len(wire')
            <4>1. 0 + i = i
                BY <3>3
            <4> QED
                BY <3>2, <3>3, <4>1
        <3>6. \A i \in 1..Len(buf') : FALSE
            BY <3>2
        <3> QED
            BY <3>4, <3>5, <3>6 DEF Split
    <2>7. OneFrame'
        <3>1. wire'[Len(wire')] = 0 /\ Len(wire') \in Nat /\ Len(wire') = Len(Frame(payload'))
            BY <2>1, <2>3
        <3>2. ASSUME ~joined
              PROVE  longest' <= DECODE_BUF_SIZE /\ Len(buf') + Len(wire') <= Len(Frame(payload'))
            <4>1. longest <= DECODE_BUF_SIZE /\ buf = << >>
                BY <2>2, <3>2 DEF LinkInv, OneFrame
            <4>2. Len(buf') = 0
                BY <2>2, <4>1
            <4> QED
                BY <2>2, <3>1, <4>1, <4>2
        <3> QED
            BY <2>2, <2>5, <3>1, <3>2 DEF OneFrame
    <2> QED
        BY <2>2, <2>4, <2>5, <2>6, <2>7 DEF LinkInv, CleanFrameDelivered
<1>5. CASE UNCHANGED cobsVars
    BY <1>5 DEF cobsVars, LinkInv, LinkTypeOK, OneFrame, Split, CleanFrameDelivered
<1> QED
    BY <1>1, <1>2, <1>3, <1>4, <1>5 DEF LinkNext, AllSent

LEMMA LinkInvariant == LinkSpec => []LinkInv
<1> QED
    BY LinkStart, LinkStep, PTL DEF LinkSpec

\* The codec is right for every payload the peer may send, zeros, full blocks
\* and any end included (cobs_encode, cobs_decode; CobsEncode, CobsDecode).
THEOREM CodecCorrect == LinkSpec => []CodecRoundTrip
<1>1. ASSUME LinkInv PROVE CodecRoundTrip
    <2> DEFINE c == CobsEncode(payload)
    <2>1. payload \in Seq(0..MaxCode)
        <3>1. Bytes \subseteq 0..MaxCode /\ payload \in Seq(Bytes)
            BY <1>1, CobsConstants DEF LinkInv, LinkTypeOK
        <3> QED
            BY <3>1, SeqMonotonic, Zenon
    <2>2. /\ c \in Seq(Codes) /\ Len(c) <= Len(payload) + (Len(payload) \div (MaxCode - 1)) + 1
          /\ CobsDecode(c) = [out |-> payload, ok |-> TRUE]
        BY <2>1, RoundTrip, Zenon
    <2> HIDE DEF c
    <2>3. \A i \in DOMAIN c : c[i] \in 1..MaxCode
        <3>1. DOMAIN c = 1..Len(c) /\ \A i \in 1..Len(c) : c[i] \in Codes
            BY <2>2
        <3> QED
            BY <3>1, Zenon DEF Codes
    <2> QED
        BY <2>2, <2>3 DEF CodecRoundTrip, c
<1> QED
    BY <1>1, LinkInvariant, PTL

\* ProcessRxBytes hands over every frame that the line left alone and that
\* followed a delimiter, whatever was lost or changed before it.
THEOREM CleanFrames == LinkSpec => []CleanFrameDelivered
<1>1. LinkInv => CleanFrameDelivered
    BY DEF LinkInv
<1> QED
    BY <1>1, LinkInvariant, PTL

\* What the decoding of a frame writes, with any sizes of the two buffers.
LEMMA DecodeBound == ASSUME LinkInv PROVE OnlyJoinedOverrun
<1>1. RX_BUF_SIZE \in Nat /\ DECODE_BUF_SIZE \in Nat /\ longest \in Nat
    BY CobsConstants DEF LinkInv, LinkTypeOK
<1>2. CASE joined
    BY <1>1, <1>2 DEF LinkInv, OnlyJoinedOverrun
<1>3. CASE ~joined
    BY <1>1, <1>3 DEF LinkInv, OneFrame, OnlyJoinedOverrun
<1> QED
    BY <1>2, <1>3

\* CobsDecode stays in its buffer whatever bytes of a frame are lost or changed,
\* as long as the delimiters arrive; frames that were joined overrun it by less
\* than the receive buffer is longer.
THEOREM SingleFramesFit == LinkSpec => []OnlyJoinedOverrun
<1>1. LinkInv => OnlyJoinedOverrun
    BY DecodeBound
<1> QED
    BY <1>1, LinkInvariant, PTL

\* With the sizes of the YFR4 driver, whose decode buffer is at most one byte
\* shorter than its receive buffer, joined frames fit as well.
THEOREM JoinedFramesFit ==
    ASSUME RX_BUF_SIZE <= DECODE_BUF_SIZE + 1
    PROVE  LinkSpec => []DecodeFits
<1>1. LinkInv => DecodeFits
    <2> SUFFICES ASSUME LinkInv PROVE DecodeFits
        OBVIOUS
    <2>1. RX_BUF_SIZE \in Nat /\ DECODE_BUF_SIZE \in Nat /\ longest \in Nat
        BY CobsConstants DEF LinkInv, LinkTypeOK
    <2> QED
        BY <2>1 DEF LinkInv, DecodeFits
<1> QED
    BY <1>1, LinkInvariant, PTL

-----------------------------------------------------------------------------
(* The buffer of the u-blox driver.                                        *)

AnyBytes == [value : Nat, index : Nat, end : Nat]

\* More than the header is only read of a packet that fits and is not complete.
UbxBoundsInv ==
    /\ contents \in ContentSets
    /\ packet \in [length : PayloadLengths, next : Nat]
    /\ buffer \in Seq(AnyBytes) /\ Len(buffer) <= MaxBuffer
    /\ busy \in BOOLEAN
    /\ busy => buffer # << >>
    /\ found_header \in BOOLEAN
    /\ length_field \in [1..2 -> Nat]
    /\ faulted \in BOOLEAN /\ gbuffer_fill \in Nat
    /\ OnlyWrapFaults
    /\ ~faulted /\ gbuffer_fill > 6 => gbuffer_fill < TotalLength

LEMMA FirstIsNat ==
    ASSUME NEW v, Len(buffer) \in Nat
    PROVE  FirstOf(v) \in 0..Len(buffer)
<1> DEFINE found == {i \in 1..Len(buffer) : buffer[i].value = v}
<1>1. CASE found = {}
    BY <1>1 DEF FirstOf
<1>2. CASE found # {}
    <2>1. found \in SUBSET Nat
        OBVIOUS
    <2>2. FirstOf(v) = CHOOSE i \in found : \A j \in found : i <= j
        BY <1>2, Zenon DEF FirstOf
    <2>3. found \in SUBSET (0..Len(buffer))
        OBVIOUS
    <2> HIDE DEF found
    <2>4. \E i \in found : \A j \in found : i <= j
        BY <1>2, <2>1, LeastPosition, Zenon
    <2> QED
        BY <2>2, <2>3, <2>4, Zenon
<1> QED
    BY <1>1, <1>2

\* A pass of the loop leaves a shorter rest.
LEMMA ShorterRest ==
    ASSUME NEW S, NEW n \in Nat, buffer \in Seq(S), Advance(n)
    PROVE  Len(buffer') <= Len(buffer)
<1> DEFINE c == SubSeq(buffer, n + 1, Len(buffer))
<1>1. Len(buffer) \in Nat /\ n + 1 \in Int /\ Len(buffer) \in Int
      /\ \A i \in (n + 1)..Len(buffer) : buffer[i] \in S
    OBVIOUS
<1>2. Len(c) = IF n + 1 <= Len(buffer) THEN Len(buffer) - (n + 1) + 1 ELSE 0
    BY ONLY <1>1, SubSeqProperties
<1>3. buffer' = c
    BY DEF Advance
<1> HIDE DEF c
<1>4. Len(c) <= Len(buffer)
    BY <1>1, <1>2
<1> QED
    BY <1>3, <1>4

\* The part of the invariant that all passes of the loop keep.
LEMMA UbxAdvances ==
    ASSUME UbxBoundsInv, NEW n \in Nat, Advance(n)
    PROVE  /\ contents' \in ContentSets /\ packet' \in [length : PayloadLengths, next : Nat]
           /\ buffer' \in Seq(AnyBytes) /\ Len(buffer') <= MaxBuffer
           /\ busy' \in BOOLEAN /\ (busy' => buffer' # << >>)
<1>1. buffer \in Seq(AnyBytes) /\ Len(buffer) <= MaxBuffer
    BY DEF UbxBoundsInv
<1>2. buffer' \in Seq(AnyBytes) /\ busy' \in BOOLEAN /\ (busy' => buffer' # << >>)
    BY <1>1, RawAdvance
<1>3. Len(buffer') <= MaxBuffer
    <2>1. Len(buffer') <= Len(buffer)
        BY <1>1, ShorterRest
    <2>2. Len(buffer) \in Nat /\ Len(buffer') \in Nat /\ MaxBuffer \in Nat
        BY <1>1, <1>2, StreamAssumption
    <2> QED
        BY <1>1, <2>1, <2>2
<1>4. contents' = contents /\ packet' = packet
    BY DEF Advance, peerVars
<1> QED
    BY <1>2, <1>3, <1>4 DEF UbxBoundsInv

LEMMA UbxBoundsSend ==
    ASSUME UbxBoundsInv, ReceiverSends
    PROVE  UbxBoundsInv'
<1> DEFINE last == packet.length + 7
<1>0. ByteRange \in Nat /\ ByteRange > 5 /\ MaxBuffer \in Nat
    BY StreamAssumption
<1>1. packet.length \in Nat /\ packet.next \in Nat /\ last \in Nat
    <2>1. packet.length \in PayloadLengths /\ packet.next \in Nat
        BY DEF UbxBoundsInv
    <2>2. packet.length \in Nat
        BY <2>1, UbxTypes
    <2> QED
        BY <2>1, <2>2
<1>2. PICK v \in UbxByteValues :
          buffer' = Append(buffer, [value |-> v, index |-> packet.next, end |-> last])
    BY DEF ReceiverSends, SendByte
<1>3. v \in Nat
    <2>1. packet.length % ByteRange \in Nat /\ packet.length \div ByteRange \in Nat
        BY <1>0, <1>1
    <2>2. contents \subseteq 0..(ByteRange - 1)
        BY StreamAssumption DEF UbxBoundsInv
    <2>3. \/ v = SYNC_1 \/ v = SYNC_2 \/ v \in contents
          \/ v = packet.length % ByteRange \/ v = packet.length \div ByteRange
        <3>1. CASE packet.next = 0
            BY <3>1 DEF UbxByteValues
        <3>2. CASE packet.next = 1
            BY <3>2 DEF UbxByteValues
        <3>3. CASE packet.next = 4
            BY <3>3 DEF UbxByteValues
        <3>4. CASE packet.next = 5
            BY <3>4 DEF UbxByteValues
        <3>5. CASE packet.next # 0 /\ packet.next # 1 /\ packet.next # 4 /\ packet.next # 5
            BY <3>5 DEF UbxByteValues
        <3> QED
            BY <3>1, <3>2, <3>3, <3>4, <3>5
    <2>4. SYNC_1 \in Nat /\ SYNC_2 \in Nat /\ 0..(ByteRange - 1) \subseteq Nat
        BY <1>0 DEF SYNC_1, SYNC_2
    <2> QED
        BY <2>1, <2>2, <2>3, <2>4, Zenon
<1>4. buffer' \in Seq(AnyBytes) /\ Len(buffer') <= MaxBuffer
    <2>1. [value |-> v, index |-> packet.next, end |-> last] \in AnyBytes
        BY <1>1, <1>3 DEF AnyBytes
    <2>2. buffer \in Seq(AnyBytes) /\ Len(buffer) < MaxBuffer
        BY DEF UbxBoundsInv, ReceiverSends, SendByte
    <2> DEFINE x == [value |-> v, index |-> packet.next, end |-> last]
    <2>3. buffer' = Append(buffer, x) /\ x \in AnyBytes
        BY <1>2, <2>1
    <2> HIDE DEF x
    <2>4. Append(buffer, x) \in Seq(AnyBytes) /\ Len(Append(buffer, x)) = Len(buffer) + 1 /\ Len(buffer) \in Nat
        BY <2>2, <2>3
    <2> QED
        BY <1>0, <2>2, <2>3, <2>4
<1>5. packet' \in [length : PayloadLengths, next : Nat]
    <2>1. packet \in [length : PayloadLengths, next : Nat]
        BY DEF UbxBoundsInv
    <2>2. packet' \in IF packet.next = last THEN [length : PayloadLengths, next : {0}]
                                            ELSE {[packet EXCEPT !.next = @ + 1]}
        BY DEF ReceiverSends, SendByte
    <2>3. CASE packet.next = last
        BY <2>2, <2>3
    <2>4. CASE packet.next # last
        BY <2>1, <2>2, <2>4
    <2> QED
        BY <2>3, <2>4
<1>6. /\ contents' = contents /\ busy' = busy /\ ~busy /\ UNCHANGED gbufferVars
    BY DEF ReceiverSends, SendByte
<1>7. TotalLength' = TotalLength /\ (OnlyWrapFaults => OnlyWrapFaults')
    BY <1>6 DEF gbufferVars, TotalLength, PayloadLength, OnlyWrapFaults
<1> QED
    BY <1>4, <1>5, <1>6, <1>7 DEF UbxBoundsInv, gbufferVars

\* The total length is that of the packet unless it wraps around.
LEMMA TotalFacts ==
    ASSUME UbxBoundsInv
    PROVE  /\ TotalLength \in Nat
           /\ PayloadLength + 8 < ByteRange * ByteRange => TotalLength >= 8
<1> DEFINE w == ByteRange * ByteRange
           l == PayloadLength
<1>1. ByteRange \in Nat /\ ByteRange > 5
    BY StreamAssumption
<1>2. w \in Nat /\ w > 0
    BY <1>1
<1>3. l \in Nat
    <2>1. length_field[1] \in Nat /\ length_field[2] \in Nat
        BY DEF UbxBoundsInv
    <2>2. length_field[2] * ByteRange \in Nat
        BY <1>1, <2>1
    <2> QED
        BY <2>1, <2>2 DEF PayloadLength
<1>4. TotalLength = (l + 8) % w
    BY DEF TotalLength
<1> HIDE DEF w, l
<1>5. TotalLength \in Nat /\ (l + 8 < w => TotalLength >= 8)
    BY <1>2, <1>3, <1>4
<1> QED
    BY <1>5 DEF w, l

LEMMA UbxBoundsParse ==
    ASSUME UbxBoundsInv, ~faulted,
           FindSync1 \/ FindSync2 \/ ReadHeader \/ SkipPacket \/ TakeRest
    PROVE  UbxBoundsInv'
<1> DEFINE g == gbuffer_fill
<1>1. /\ BufferSize \in Nat /\ 8 <= BufferSize /\ MaxBuffer \in Nat
    BY UbxAssumption, StreamAssumption
<1>2. busy
    BY DEF FindSync1, FindSync2, ReadHeader, SkipPacket, TakeRest
<1>3. buffer \in Seq(AnyBytes) /\ Len(buffer) <= MaxBuffer /\ buffer # << >>
    BY <1>2 DEF UbxBoundsInv
<1>4. Len(buffer) \in Nat /\ Len(buffer) >= 1 /\ \A i \in 1..Len(buffer) : buffer[i].value \in Nat
    <2>1. Len(buffer) \in Nat /\ Len(buffer) # 0 /\ \A i \in 1..Len(buffer) : buffer[i] \in AnyBytes
        BY <1>3
    <2>2. \A x \in AnyBytes : x.value \in Nat
        BY DEF AnyBytes
    <2> QED
        BY <2>1, <2>2
<1>5. /\ ~faulted /\ g \in 0..BufferSize /\ (found_header <=> g >= 2)
      /\ found_header \in BOOLEAN /\ length_field \in [1..2 -> Nat]
      /\ (g > 6 => g < TotalLength)
    BY DEF UbxBoundsInv, OnlyWrapFaults
<1>6. CASE FindSync1
    <2> DEFINE first == FirstOf(SYNC_1)
               n == IF first = 0 THEN Len(buffer) ELSE first
    <2>1. first \in 0..Len(buffer)
        BY <1>4, FirstIsNat
    <2>2. Advance(n) /\ ~found_header /\ gbuffer_fill' \in {0, 1} /\ UNCHANGED <<found_header, length_field, faulted>>
        BY <1>6 DEF FindSync1
    <2> HIDE DEF first
    <2>3. n \in Nat
        BY <1>4, <2>1
    <2> HIDE DEF n
    <2>4. /\ contents' \in ContentSets /\ packet' \in [length : PayloadLengths, next : Nat]
          /\ buffer' \in Seq(AnyBytes) /\ Len(buffer') <= MaxBuffer
          /\ busy' \in BOOLEAN /\ (busy' => buffer' # << >>)
        BY <2>2, <2>3, UbxAdvances
    <2>5. OnlyWrapFaults' /\ ~(gbuffer_fill' > 6)
        BY <1>1, <1>5, <2>2 DEF OnlyWrapFaults
    <2> QED
        BY <1>5, <2>2, <2>4, <2>5 DEF UbxBoundsInv
<1>7. CASE FindSync2
    <2>2. /\ Advance(1) /\ UNCHANGED <<length_field, faulted>>
          /\ \/ found_header' = TRUE /\ gbuffer_fill' = 2
             \/ found_header' = FALSE /\ gbuffer_fill' = 0
        BY <1>7 DEF FindSync2
    <2>4. /\ contents' \in ContentSets /\ packet' \in [length : PayloadLengths, next : Nat]
          /\ buffer' \in Seq(AnyBytes) /\ Len(buffer') <= MaxBuffer
          /\ busy' \in BOOLEAN /\ (busy' => buffer' # << >>)
        BY <2>2, UbxAdvances
    <2>5. OnlyWrapFaults' /\ ~(gbuffer_fill' > 6) /\ found_header' \in BOOLEAN
        <3>1. CASE found_header' = TRUE /\ gbuffer_fill' = 2
            BY <1>1, <1>5, <2>2, <3>1 DEF OnlyWrapFaults
        <3>2. CASE found_header' = FALSE /\ gbuffer_fill' = 0
            <4>1. gbuffer_fill' \in 0..BufferSize /\ ~(gbuffer_fill' >= 2) /\ ~(gbuffer_fill' > 6)
                BY <1>1, <3>2
            <4>2. ~faulted'
                BY <1>5, <2>2
            <4> QED
                BY <3>2, <4>1, <4>2, Zenon DEF OnlyWrapFaults
        <3> QED
            BY <2>2, <3>1, <3>2
    <2> QED
        BY <1>5, <2>2, <2>4, <2>5 DEF UbxBoundsInv
<1>8. CASE ReadHeader
    <2> DEFINE n == IF Len(buffer) < 6 - g THEN Len(buffer) ELSE 6 - g
    <2>1. found_header /\ g < 6
        BY <1>8 DEF ReadHeader
    <2>2. /\ Advance(n) /\ gbuffer_fill' = g + n /\ UNCHANGED <<found_header, faulted>>
          /\ length_field' = [i \in 1..2 |-> IF i + 4 - g \in 1..n THEN buffer[i + 4 - g].value
                                             ELSE length_field[i]]
        BY <1>8 DEF ReadHeader
    <2>3. n \in Nat /\ n <= Len(buffer) /\ g + n <= 6 /\ g \in Nat
        BY <1>4, <1>5, <2>1
    <2> HIDE DEF n
    <2>4. /\ contents' \in ContentSets /\ packet' \in [length : PayloadLengths, next : Nat]
          /\ buffer' \in Seq(AnyBytes) /\ Len(buffer') <= MaxBuffer
          /\ busy' \in BOOLEAN /\ (busy' => buffer' # << >>)
        BY <2>2, <2>3, UbxAdvances
    <2>5. length_field' \in [1..2 -> Nat]
        <3>1. ASSUME NEW i \in 1..2
              PROVE  (IF i + 4 - g \in 1..n THEN buffer[i + 4 - g].value ELSE length_field[i]) \in Nat
            <4>1. CASE i + 4 - g \in 1..n
                <5>1. i + 4 - g \in 1..Len(buffer)
                    BY <1>4, <2>3, <4>1
                <5> QED
                    BY <1>4, <4>1, <5>1
            <4>2. CASE i + 4 - g \notin 1..n
                BY <1>5, <4>2
            <4> QED
                BY <4>1, <4>2
        <3> QED
            BY <2>2, <3>1
    <2>6. OnlyWrapFaults' /\ ~(gbuffer_fill' > 6) /\ gbuffer_fill' \in Nat
        BY <1>1, <1>5, <2>1, <2>2, <2>3 DEF OnlyWrapFaults
    <2> QED
        BY <1>5, <2>2, <2>4, <2>5, <2>6 DEF UbxBoundsInv
<1>9. CASE SkipPacket
    <2>1. found_header' = FALSE /\ gbuffer_fill' = 0
          /\ UNCHANGED <<peerVars, buffer, busy, length_field, faulted>>
        BY <1>9 DEF SkipPacket
    <2>2. OnlyWrapFaults' /\ ~(gbuffer_fill' > 6)
        BY <1>1, <1>5, <2>1 DEF OnlyWrapFaults
    <2> QED
        BY <2>1, <2>2 DEF UbxBoundsInv, peerVars
<1>10. CASE TakeRest
    <2> DEFINE t == TotalLength
               n == RestToTake
               fill == g + n
    <2>1. g >= 6 /\ fill <= BufferSize /\ t \in Nat
        <3>1. t \in Nat
            BY TotalFacts
        <3>2. n \in Nat
            BY <1>4, <1>5, <3>1 DEF RestToTake
        <3>3. ~(fill > BufferSize) /\ g >= 6
            BY <1>10 DEF TakeRest, Leaves
        <3> HIDE DEF n, t
        <3> QED
            BY <1>1, <1>5, <3>1, <3>2, <3>3
    <2>2. /\ Advance(n) /\ length_field' = length_field /\ faulted' = faulted
          /\ gbuffer_fill' = IF t <= fill THEN 0 ELSE fill
          /\ found_header' = ~(t <= fill)
        BY <1>10 DEF TakeRest
    <2>3. n \in Nat
        BY <1>4, <1>5, <2>1 DEF RestToTake
    <2>t. TotalLength' = t
        BY <2>2 DEF TotalLength, PayloadLength
    <2> HIDE DEF t, n
    <2>4. /\ contents' \in ContentSets /\ packet' \in [length : PayloadLengths, next : Nat]
          /\ buffer' \in Seq(AnyBytes) /\ Len(buffer') <= MaxBuffer
          /\ busy' \in BOOLEAN /\ (busy' => buffer' # << >>)
        BY <2>2, <2>3, UbxAdvances
    <2>5. CASE t <= fill
        <3>1. gbuffer_fill' = 0 /\ found_header' = FALSE
            BY <2>2, <2>5
        <3>2. gbuffer_fill' \in 0..BufferSize /\ ~(gbuffer_fill' >= 2) /\ ~(gbuffer_fill' > 6)
              /\ gbuffer_fill' \in Nat
            BY <1>1, <3>1
        <3>3. ~faulted'
            BY <1>5, <2>2
        <3>4. OnlyWrapFaults'
            BY <3>1, <3>2, <3>3, Zenon DEF OnlyWrapFaults
        <3> QED
            BY <1>5, <2>2, <2>4, <3>1, <3>2, <3>3, <3>4 DEF UbxBoundsInv
    <2>6. CASE ~(t <= fill)
        <3>1. gbuffer_fill' = fill /\ found_header' = TRUE
            BY <2>2, <2>6
        <3>2. fill \in 0..BufferSize /\ fill >= 2 /\ fill < t /\ fill \in Nat
            BY <1>1, <1>5, <2>1, <2>3, <2>6
        <3> HIDE DEF fill
        <3>3. ~faulted'
            BY <1>5, <2>2
        <3>4. OnlyWrapFaults' /\ gbuffer_fill' < TotalLength' /\ gbuffer_fill' \in Nat
            BY <2>t, <3>1, <3>2, <3>3, Zenon DEF OnlyWrapFaults
        <3> QED
            BY <1>5, <2>2, <2>4, <3>1, <3>3, <3>4 DEF UbxBoundsInv
    <2> QED
        BY <2>5, <2>6
<1> QED
    BY <1>6, <1>7, <1>8, <1>9, <1>10

\* Only the six bytes of the header are there when the parser leaves gbuffer_,
\* and the total length is less than any packet's.
LEMMA UbxFaults ==
    ASSUME UbxBoundsInv, Fault
    PROVE  UbxBoundsInv'
<1> DEFINE g == gbuffer_fill
           t == TotalLength
           n == RestToTake
           l == Len(buffer)
           b == BufferSize
<1>1. /\ ~faulted /\ g >= 6 /\ t <= b /\ (g + n > b \/ t < 4)
      /\ faulted' = TRUE /\ gbuffer_fill' = g + n
      /\ UNCHANGED <<streamVars, found_header, length_field>>
    BY DEF Fault, Fits, Leaves
<1>2. g \in Nat /\ (g > 6 => g < t) /\ l \in Nat /\ l <= MaxBuffer
    BY <1>1 DEF UbxBoundsInv
<1>3. t \in Nat /\ b \in Nat /\ MaxBuffer \in Nat
    BY TotalFacts, UbxAssumption, StreamAssumption
<1>4. n = IF t - g \in 0..l THEN t - g ELSE l
    BY DEF RestToTake
<1>5. g = 6 /\ ~(t >= 8) /\ n \in Nat /\ n <= l
    <2> HIDE DEF g, t, n, l, b
    <2>1. n \in Nat /\ n <= l /\ (g <= t => g + n <= t)
        BY <1>2, <1>3, <1>4
    <2>2. g < t => t < 4
        BY <1>1, <1>2, <1>3, <2>1
    <2>3. g = 6
        BY <1>1, <1>2, <1>3, <2>2
    <2> QED
        BY <1>3, <2>1, <2>2, <2>3
<1>6. PayloadLength + 8 >= ByteRange * ByteRange
    <2>1. PayloadLength + 8 \in Nat /\ ByteRange * ByteRange \in Nat
        <3>1. ByteRange \in Nat
            BY StreamAssumption
        <3>2. length_field[1] \in Nat /\ length_field[2] \in Nat
            BY DEF UbxBoundsInv
        <3>3. length_field[2] * ByteRange \in Nat /\ ByteRange * ByteRange \in Nat
            BY <3>1, <3>2
        <3> QED
            BY <3>2, <3>3 DEF PayloadLength
    <2>2. ~(PayloadLength + 8 < ByteRange * ByteRange)
        BY <1>5, TotalFacts
    <2> QED
        BY <2>1, <2>2
<1>7. gbuffer_fill' \in Nat /\ gbuffer_fill' <= MaxBuffer + 6
    <2> HIDE DEF g, n, l
    <2> QED
        BY <1>1, <1>2, <1>3, <1>5
<1>8. PayloadLength' = PayloadLength
    BY <1>1 DEF PayloadLength
<1>9. OnlyWrapFaults'
    BY <1>1, <1>6, <1>7, <1>8 DEF OnlyWrapFaults
<1> QED
    BY <1>1, <1>7, <1>9 DEF UbxBoundsInv, streamVars, peerVars

LEMMA UbxBoundsStep ==
    ASSUME UbxBoundsInv, [UbxNext]_ubxVars
    PROVE  UbxBoundsInv'
<1>1. CASE UNCHANGED ubxVars
    BY <1>1 DEF UbxBoundsInv, OnlyWrapFaults, TotalLength, PayloadLength, ubxVars, streamVars, peerVars, gbufferVars
<1>2. CASE ReceiverSends
    BY <1>2, UbxBoundsSend
<1>3. CASE UbxParse
    BY <1>3, UbxBoundsParse, UbxFaults DEF UbxParse
<1>4. CASE CutShort /\ UNCHANGED gbufferVars
    <2>1. packet' \in [length : PayloadLengths, next : Nat]
        BY <1>4 DEF CutShort, UbxBoundsInv
    <2> QED
        BY <1>4, <2>1 DEF CutShort, UbxBoundsInv, OnlyWrapFaults, TotalLength, PayloadLength, gbufferVars
<1>5. CASE ProcessBytes /\ UNCHANGED gbufferVars
    BY <1>5 DEF ProcessBytes, UbxBoundsInv, OnlyWrapFaults, TotalLength, PayloadLength, peerVars, gbufferVars
<1> QED
    BY <1>1, <1>2, <1>3, <1>4, <1>5 DEF UbxNext

LEMMA GbufferStart == GbufferInit => OnlyWrapFaults
<1> SUFFICES ASSUME GbufferInit PROVE OnlyWrapFaults
    OBVIOUS
<1>1. found_header = FALSE /\ gbuffer_fill = 0 /\ faulted = FALSE
    BY DEF GbufferInit
<1>2. gbuffer_fill \in 0..BufferSize /\ ~(gbuffer_fill >= 2)
    BY <1>1, UbxAssumption
<1> QED
    BY <1>1, <1>2, Zenon DEF OnlyWrapFaults

LEMMA UbxBoundsStart == UbxInit => UbxBoundsInv
<1> SUFFICES ASSUME UbxInit PROVE UbxBoundsInv
    OBVIOUS
<1>1. /\ contents \in ContentSets /\ packet \in [length : PayloadLengths, next : {0}]
      /\ buffer = << >> /\ busy = FALSE /\ GbufferInit
    BY DEF UbxInit, StreamInit
<1>2. packet \in [length : PayloadLengths, next : Nat]
    BY <1>1
<1>3. buffer \in Seq(AnyBytes) /\ Len(buffer) <= MaxBuffer
    BY <1>1, StreamAssumption
<1>4. /\ length_field \in [1..2 -> Nat] /\ found_header \in BOOLEAN
      /\ faulted \in BOOLEAN /\ gbuffer_fill \in Nat /\ ~(gbuffer_fill > 6)
    <2>1. length_field = <<0, 0>> /\ found_header = FALSE /\ gbuffer_fill = 0 /\ faulted = FALSE
        BY <1>1 DEF GbufferInit
    <2>2. <<0, 0>> \in [1..2 -> Nat]
        <3>1. <<0, 0>> \in Seq(Nat) /\ Len(<<0, 0>>) = 2
            OBVIOUS
        <3> QED
            BY <3>1
    <2>3. ~(0 > 6) /\ 0 \in Nat
        OBVIOUS
    <2> QED
        BY <2>1, <2>2, <2>3, Zenon
<1> QED
    BY <1>1, <1>2, <1>3, <1>4, GbufferStart DEF UbxBoundsInv

\* ProcessBytes of the u-blox driver stays in gbuffer_ with every length but the
\* eight of which total_length wraps around, those read from the middle of a
\* packet included, for all sizes of the buffer and of a call; and where it
\* leaves the buffer, a header and one call are all it has copied.
THEOREM UbxLeavesByWrapOnly == UbxSpec => []OnlyWrapFaults
<1>1. UbxBoundsInv => OnlyWrapFaults
    BY DEF UbxBoundsInv
<1> QED
    BY <1>1, UbxBoundsStart, UbxBoundsStep, PTL DEF UbxSpec

-----------------------------------------------------------------------------
(* All framings together.                                                  *)

\* The part that moves keeps its invariant, the others their first state.
ReceptionInv ==
    /\ LinkInv
    /\ IF part = "vesc" THEN VescBoundsInv ELSE FillInit
    /\ IF part = "ubx" THEN UbxBoundsInv ELSE GbufferInit

LEMMA ReceptionStart == ReceptionInit => ReceptionInv
<1> SUFFICES ASSUME ReceptionInit PROVE ReceptionInv
    OBVIOUS
<1>1. LinkInv /\ FillInit /\ GbufferInit
    BY LinkStart DEF ReceptionInit
<1>2. part = "vesc" => VescBoundsInv
    BY <1>1, VescBoundsStart DEF ReceptionInit, VescInit
<1>3. part = "ubx" => UbxBoundsInv
    BY <1>1, UbxBoundsStart DEF ReceptionInit, UbxInit
<1> QED
    BY <1>1, <1>2, <1>3 DEF ReceptionInv

\* Which parser moves in a step, and that the others do not.
LEMMA ReceptionMoves ==
    ASSUME [ReceptionNext]_receptionVars
    PROVE  /\ part' = part
           /\ [LinkNext]_cobsVars
           /\ part = "vesc" => [VescNext]_vescVars
           /\ part # "vesc" => UNCHANGED fillVars
           /\ part = "ubx" => [UbxNext]_ubxVars
           /\ part # "ubx" => UNCHANGED gbufferVars
BY DEF ReceptionNext, receptionVars, vescVars, ubxVars

LEMMA ReceptionStep ==
    ASSUME ReceptionInv, [ReceptionNext]_receptionVars
    PROVE  ReceptionInv'
<1>1. LinkInv'
    BY ReceptionMoves, LinkStep DEF ReceptionInv
<1>2. IF part = "vesc" THEN VescBoundsInv' ELSE FillInit'
    <2>1. CASE part = "vesc"
        BY <2>1, ReceptionMoves, VescBoundsStep DEF ReceptionInv
    <2>2. CASE part # "vesc"
        BY <2>2, ReceptionMoves DEF ReceptionInv, FillInit, fillVars
    <2> QED
        BY <2>1, <2>2
<1>3. IF part = "ubx" THEN UbxBoundsInv' ELSE GbufferInit'
    <2>1. CASE part = "ubx"
        BY <2>1, ReceptionMoves, UbxBoundsStep DEF ReceptionInv
    <2>2. CASE part # "ubx"
        BY <2>2, ReceptionMoves DEF ReceptionInv, GbufferInit, gbufferVars
    <2> QED
        BY <2>1, <2>2
<1> QED
    BY <1>1, <1>2, <1>3, ReceptionMoves DEF ReceptionInv

LEMMA ReceptionBounds == ASSUME ReceptionInv PROVE BuffersHold
<1>1. OnlyJoinedOverrun
    BY DecodeBound DEF ReceptionInv
<1>2. FillInit => InBounds
    BY StreamAssumption DEF FillInit, InBounds, WORKING_BUFFER_SIZE
<1>3. InBounds
    BY <1>2 DEF ReceptionInv, VescBoundsInv
<1>4. OnlyWrapFaults
    BY GbufferStart DEF ReceptionInv, UbxBoundsInv
<1> QED
    BY <1>1, <1>3, <1>4 DEF BuffersHold

\* What is written behind a receive buffer, for all sizes, lengths and contents:
\* nothing by the VESC driver's ProcessBytes, by the u-blox driver's only after a
\* length that wraps around, by the decoding of COBS frames only if frames were
\* joined.
THEOREM BuffersAreKept == ReceptionSpec => []BuffersHold
<1>1. ReceptionInv => BuffersHold
    BY ReceptionBounds
<1> QED
    BY <1>1, ReceptionStart, ReceptionStep, PTL DEF ReceptionSpec
=============================================================================
