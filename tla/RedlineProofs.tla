--------------------------- MODULE RedlineProofs ---------------------------
(***************************************************************************)
(* Lemmas about the body of a document: what its texts are, and what       *)
(* unpacking, repairing and condensing make of them, for every body.       *)
(*                                                                         *)
(* What a recursive function computes is proved by induction.  The prover  *)
(* takes no predicate as a parameter, so SeqInduction is about a set: a    *)
(* set that holds the empty sequence, and with a sequence every longer one *)
(* by an element, holds all of them.                                       *)
(***************************************************************************)
EXTENDS Redline, TLAPS, SequenceTheorems, WellFoundedInduction

(* What holds of 0, and of i + 1 if of i, holds of every natural.          *)
LEMMA NatSetInduction ==
  ASSUME NEW G, 0 \in G, \A i \in Nat : i \in G => i + 1 \in G
  PROVE  Nat \subseteq G
<1>1. IsWellFoundedOn({ss \in Nat \X Nat : ss[1] < ss[2]}, Nat)
  BY NatLessThanWellFounded DEF OpToRel
<1>2. SUFFICES ASSUME Nat \ G # {} PROVE FALSE
  OBVIOUS
<1>3. PICK m \in Nat \ G : \A c \in Nat \ G : <<c, m>> \notin {ss \in Nat \X Nat : ss[1] < ss[2]}
  <2>1. Nat \ G \subseteq Nat
    OBVIOUS
  <2> QED BY <1>1, <1>2, <2>1, WFMin
<1>4. m # 0 /\ m - 1 \in Nat
  BY <1>3
<1>5. m - 1 \notin G
  <2>1. m - 1 + 1 = m
    BY <1>4
  <2> QED BY <1>3, <1>4, <2>1
<1>6. <<m - 1, m>> \in {ss \in Nat \X Nat : ss[1] < ss[2]}
  <2>1. <<m - 1, m>> \in Nat \X Nat /\ <<m - 1, m>>[1] < <<m - 1, m>>[2]
    BY <1>4
  <2> QED BY <2>1
<1> QED BY <1>3, <1>4, <1>5, <1>6

LEMMA SeqInduction ==
  ASSUME NEW S, NEW G, <<>> \in G,
         \A s \in Seq(S), e \in S : s \in G => Append(s, e) \in G
  PROVE  Seq(S) \subseteq G
<1> DEFINE L == {i \in Nat : \A s \in Seq(S) : Len(s) = i => s \in G}
<1>1. 0 \in L
  <2>1. \A s \in Seq(S) : Len(s) = 0 => s = <<>>
    BY EmptySeq
  <2> QED BY <2>1
<1>2. ASSUME NEW i \in Nat, i \in L PROVE i + 1 \in L
  <2>1. ASSUME NEW s \in Seq(S), Len(s) = i + 1 PROVE s \in G
    <3>1. s # <<>>
      BY <1>2, <2>1, EmptySeq
    <3>2. PICK t \in Seq(S), e \in S : s = Append(t, e)
      BY <3>1, SequenceEmptyOrAppend
    <3>3. Len(s) = Len(t) + 1 /\ Len(t) \in Nat
      BY <3>2, AppendProperties
    <3>4. t \in G
      BY <1>2, <2>1, <3>3
    <3> QED BY <3>2, <3>4
  <2> QED BY <1>2, <2>1
<1>3. Nat \subseteq L
  <2> HIDE DEF L
  <2> QED BY <1>1, <1>2, NatSetInduction
<1> QED BY <1>3, LenProperties
-----------------------------------------------------------------------------
(* FlattenSeq, as the recursive function it is.                            *)
Joins(ss, f) == f = [i \in 1 .. Len(ss) |-> IF i = 1 THEN ss[i] ELSE f[i - 1] \o ss[i]]
Flats(ss) == CHOOSE f : Joins(ss, f)

LEMMA FlattenIsFlats ==
  ASSUME NEW ss
  PROVE  FlattenSeq(ss) = IF Len(ss) = 0 THEN ss ELSE Flats(ss)[Len(ss)]
BY Zenon DEF FlattenSeq, Flats, Joins

LEMMA JoinsStep ==
  ASSUME NEW ss, NEW f, Joins(ss, f)
  PROVE  \A i \in 1 .. Len(ss) : f[i] = IF i = 1 THEN ss[i] ELSE f[i - 1] \o ss[i]
BY Zenon DEF Joins

(* There is such a function, and only one.                                 *)
LEMMA FlatsExist ==
  ASSUME NEW S
  PROVE  \A ss \in Seq(Seq(S)) : \E f \in [1 .. Len(ss) -> Seq(S)] : Joins(ss, f)
<1> DEFINE G == {ss \in Seq(Seq(S)) : \E f \in [1 .. Len(ss) -> Seq(S)] : Joins(ss, f)}
<1>1. <<>> \in G
  <2> DEFINE f == [i \in 1 .. Len(<<>>) |-> IF i = 1 THEN <<>>[i] ELSE <<>>]
  <2>1. 1 .. Len(<<>>) = {} /\ <<>> \in Seq(Seq(S))
    BY EmptySeq
  <2>2. f \in [1 .. Len(<<>>) -> Seq(S)]
    BY <2>1
  <2>3. Joins(<<>>, f)
    BY <2>1 DEF Joins
  <2> QED BY <2>1, <2>2, <2>3
<1>2. ASSUME NEW ss \in Seq(Seq(S)), NEW s \in Seq(S), ss \in G
      PROVE  Append(ss, s) \in G
  <2> DEFINE n == Len(ss)
             tt == Append(ss, s)
  <2>1. PICK f \in [1 .. n -> Seq(S)] : Joins(ss, f)
    BY <1>2
  <2>2. /\ n \in Nat /\ tt \in Seq(Seq(S)) /\ Len(tt) = n + 1 /\ tt[n + 1] = s
        /\ \A i \in 1 .. n : tt[i] = ss[i] /\ ss[i] \in Seq(S)
    BY AppendProperties, LenProperties
  <2> DEFINE g == [i \in 1 .. n + 1 |-> IF i <= n THEN f[i] ELSE IF n = 0 THEN s ELSE f[n] \o s]
  <2>3. g \in [1 .. Len(tt) -> Seq(S)]
    <3>1. ASSUME n # 0 PROVE f[n] \o s \in Seq(S)
      <4>1. n \in 1 .. n
        <5> HIDE DEF n
        <5> QED BY <2>2, <3>1
      <4>2. f[n] \in Seq(S)
        BY <2>1, <4>1
      <4> HIDE DEF n
      <4> QED BY <4>2, ConcatProperties
    <3> HIDE DEF n, tt
    <3> QED BY <2>1, <2>2, <3>1
  <2>4. Joins(tt, g)
    <3>1. ASSUME NEW i \in 1 .. n + 1
          PROVE  g[i] = IF i = 1 THEN tt[i] ELSE g[i - 1] \o tt[i]
      <4>1. CASE i <= n
        <5>1. i \in 1 .. n /\ (i # 1 => i - 1 \in 1 .. n)
          BY <2>2, <4>1
        <5>2. f[i] = IF i = 1 THEN ss[i] ELSE f[i - 1] \o ss[i]
          BY <2>1, <5>1, JoinsStep
        <5>3. g[i] = f[i] /\ (i # 1 => g[i - 1] = f[i - 1]) /\ tt[i] = ss[i]
          BY <2>2, <5>1
        <5> HIDE DEF g, tt, n
        <5> QED BY <5>2, <5>3
      <4>2. CASE i = n + 1
        <5>1. n # 0 => n \in 1 .. n
          BY <2>2
        <5>2. g[i] = (IF n = 0 THEN s ELSE f[n] \o s) /\ tt[i] = s /\ (n # 0 => g[n] = f[n])
          BY <2>2, <4>2, <5>1
        <5>3. i - 1 = n /\ (i = 1 <=> n = 0)
          BY <2>2, <4>2
        <5> HIDE DEF g, tt, n
        <5> QED BY <5>2, <5>3
      <4> QED BY <2>2, <4>1, <4>2
    <3>2. g = [i \in 1 .. n + 1 |-> g[i]]
      OBVIOUS
    <3> HIDE DEF g, tt, n
    <3> QED BY <2>2, <3>1, <3>2 DEF Joins
  <2> HIDE DEF g, tt, n
  <2> QED BY <2>2, <2>3, <2>4 DEF tt
<1>3. Seq(Seq(S)) \subseteq G
  <2> HIDE DEF G
  <2> QED BY <1>1, <1>2, SeqInduction
<1> QED BY <1>3

LEMMA FlatsTyped ==
  ASSUME NEW S, NEW ss \in Seq(Seq(S)), NEW f, Joins(ss, f)
  PROVE  /\ \A i \in 1 .. Len(ss) : f[i] \in Seq(S)
         /\ \A g : Joins(ss, g) => \A i \in 1 .. Len(ss) : g[i] = f[i]
<1> DEFINE n == Len(ss)
           L == {i \in Nat : i \in 1 .. n => f[i] \in Seq(S) /\ \A g : Joins(ss, g) => g[i] = f[i]}
<1>1. n \in Nat /\ \A i \in 1 .. n : ss[i] \in Seq(S)
  BY LenProperties
<1>2. 0 \in L
  BY <1>1
<1>3. ASSUME NEW i \in Nat, i \in L PROVE i + 1 \in L
  <2>1. ASSUME i + 1 \in 1 .. n
        PROVE  f[i + 1] \in Seq(S) /\ \A g : Joins(ss, g) => g[i + 1] = f[i + 1]
    <3>1. ss[i + 1] \in Seq(S)
      BY <1>1, <2>1
    <3>2. \A g : Joins(ss, g) => g[i + 1] = IF i + 1 = 1 THEN ss[i + 1] ELSE g[i + 1 - 1] \o ss[i + 1]
      BY <2>1, JoinsStep
    <3>3. i + 1 - 1 = i
      OBVIOUS
    <3>4. CASE i = 0
      <4>1. i + 1 = 1
        BY <3>4
      <4> QED BY <3>1, <3>2, <4>1
    <3>5. CASE i # 0
      <4>1. i \in 1 .. n /\ i + 1 # 1
        BY <1>1, <2>1, <3>5
      <4>2. f[i] \in Seq(S) /\ \A g : Joins(ss, g) => g[i] = f[i]
        BY <1>3, <4>1
      <4>3. f[i] \o ss[i + 1] \in Seq(S)
        BY <3>1, <4>2, ConcatProperties
      <4> QED BY <3>2, <3>3, <4>1, <4>2, <4>3
    <3> QED BY <3>4, <3>5
  <2> QED BY <2>1
<1>4. Nat \subseteq L
  <2> HIDE DEF L
  <2> QED BY <1>2, <1>3, NatSetInduction
<1> QED BY <1>1, <1>4

(* What FlattenSeq gives of nothing, and of one sequence more.             *)
LEMMA FlattenEmpty == FlattenSeq(<<>>) = <<>>
BY FlattenIsFlats, EmptySeq

LEMMA FlattenAppend ==
  ASSUME NEW S, NEW ss \in Seq(Seq(S)), NEW s \in Seq(S)
  PROVE  /\ FlattenSeq(ss) \in Seq(S)
         /\ FlattenSeq(Append(ss, s)) = FlattenSeq(ss) \o s
<1> DEFINE n == Len(ss)
           tt == Append(ss, s)
           f == Flats(ss)
           g == Flats(tt)
<1>1. /\ n \in Nat /\ tt \in Seq(Seq(S)) /\ Len(tt) = n + 1 /\ tt[n + 1] = s
      /\ \A i \in 1 .. n : tt[i] = ss[i]
  BY AppendProperties, LenProperties
<1>2. Joins(ss, f) /\ Joins(tt, g)
  <2>1. (\E h : Joins(ss, h)) /\ \E h : Joins(tt, h)
    BY <1>1, FlatsExist
  <2> HIDE DEF tt
  <2> QED BY <2>1, Zenon DEF Flats
<1> HIDE DEF f, g, tt
<1>3. \A i \in 1 .. n : f[i] \in Seq(S)
  BY <1>2, FlatsTyped
<1>4. \A i \in 1 .. n + 1 : g[i] = IF i = 1 THEN tt[i] ELSE g[i - 1] \o tt[i]
  <2>1. \A i \in 1 .. Len(tt) : g[i] = IF i = 1 THEN tt[i] ELSE g[i - 1] \o tt[i]
    BY <1>2, JoinsStep
  <2> QED BY <1>1, <2>1
<1>5. \A i \in 1 .. n : g[i] = f[i]
  <2> DEFINE h == [i \in 1 .. n |-> g[i]]
  <2>1. Joins(ss, h)
    <3>1. ASSUME NEW i \in 1 .. n PROVE h[i] = IF i = 1 THEN ss[i] ELSE h[i - 1] \o ss[i]
      <4>1. i \in 1 .. n + 1 /\ (i # 1 => i - 1 \in 1 .. n)
        <5> HIDE DEF n
        <5> QED BY <1>1
      <4>2. g[i] = IF i = 1 THEN tt[i] ELSE g[i - 1] \o tt[i]
        BY <1>4, <4>1
      <4>3. h[i] = g[i] /\ (i # 1 => h[i - 1] = g[i - 1]) /\ tt[i] = ss[i]
        BY <1>1, <4>1
      <4> HIDE DEF h
      <4> QED BY <4>2, <4>3
    <3>2. h = [i \in 1 .. n |-> h[i]]
      OBVIOUS
    <3> HIDE DEF h
    <3> QED BY <3>1, <3>2 DEF Joins
  <2>2. \A i \in 1 .. n : h[i] = f[i]
    <3> HIDE DEF h
    <3> QED BY <1>2, <2>1, FlatsTyped
  <2> QED BY <2>2
<1>6. FlattenSeq(ss) = (IF n = 0 THEN ss ELSE f[n]) /\ FlattenSeq(tt) = g[n + 1]
  BY <1>1, FlattenIsFlats DEF f, g
<1>7. CASE n = 0
  <2>1. ss = <<>> /\ <<>> \in Seq(S)
    BY <1>7, EmptySeq
  <2>2. g[n + 1] = s
    BY <1>1, <1>4, <1>7
  <2>3. <<>> \o s = s
    BY ConcatEmptySeq
  <2> QED BY <1>6, <1>7, <2>1, <2>2, <2>3 DEF tt
<1>8. CASE n # 0
  <2>1. n \in 1 .. n /\ n + 1 \in 1 .. n + 1 /\ n + 1 # 1 /\ n + 1 - 1 = n
    <3> HIDE DEF n
    <3> QED BY <1>1, <1>8
  <2>2. g[n + 1] = g[n] \o tt[n + 1]
    <3> HIDE DEF n
    <3> DEFINE m == n + 1
    <3>1. m \in 1 .. n + 1 /\ m # 1 /\ m - 1 = n
      BY <2>1
    <3> HIDE DEF m
    <3>2. g[m] = IF m = 1 THEN tt[m] ELSE g[m - 1] \o tt[m]
      BY <1>4, <3>1, Zenon
    <3>3. g[m] = g[n] \o tt[m]
      BY <3>1, <3>2, Zenon
    <3> QED BY <3>3 DEF m
  <2> QED BY <1>1, <1>3, <1>5, <1>6, <1>8, <2>1, <2>2 DEF tt
<1> QED BY <1>7, <1>8
-----------------------------------------------------------------------------
(* What g gives of each element of a sequence, and one after the other.    *)
Mapped(g, s) == [k \in DOMAIN s |-> g[s[k]]]
Each(g, s) == FlattenSeq(Mapped(g, s))

LEMMA MapTyped ==
  ASSUME NEW S, NEW W, NEW g \in [S -> W], NEW s \in Seq(S)
  PROVE  Mapped(g, s) \in Seq(W)
<1>1. DOMAIN s = 1 .. Len(s) /\ Len(s) \in Nat /\ \A k \in 1 .. Len(s) : s[k] \in S
  BY LenProperties
<1>2. [k \in DOMAIN s |-> g[s[k]]] \in [1 .. Len(s) -> W]
  BY <1>1
<1> QED BY <1>1, <1>2, SeqDef DEF Mapped

LEMMA MapAppend ==
  ASSUME NEW S, NEW W, NEW g \in [S -> W], NEW s \in Seq(S), NEW e \in S
  PROVE  Mapped(g, Append(s, e)) = Append(Mapped(g, s), g[e])
<1> DEFINE n == Len(s)
           t == Append(s, e)
           ms == Mapped(g, s)
           mt == Mapped(g, t)
<1>1. /\ n \in Nat /\ DOMAIN s = 1 .. n /\ t \in Seq(S) /\ Len(t) = n + 1 /\ t[n + 1] = e
      /\ \A k \in 1 .. n : t[k] = s[k]
  BY AppendProperties, LenProperties
<1>2. DOMAIN t = 1 .. n + 1
  <2>1. DOMAIN t = 1 .. Len(t)
    BY <1>1, LenProperties
  <2> QED BY <1>1, <2>1
<1>3. ms \in Seq(W) /\ mt \in Seq(W)
  <2> HIDE DEF t, n
  <2> QED BY <1>1, MapTyped
<1>4. Len(ms) = n /\ Len(mt) = n + 1
  <2>1. DOMAIN ms = 1 .. n /\ DOMAIN mt = 1 .. n + 1
    <3> HIDE DEF n, t
    <3> QED BY <1>1, <1>2 DEF Mapped
  <2> HIDE DEF n, ms, mt
  <2>2. DOMAIN ms = 1 .. Len(ms) /\ Len(ms) \in Nat /\ DOMAIN mt = 1 .. Len(mt) /\ Len(mt) \in Nat
    BY <1>3, LenProperties
  <2> QED BY <1>1, <2>1, <2>2
<1>5. \A k \in 1 .. n : mt[k] = ms[k]
  <2> HIDE DEF n, t
  <2> QED BY <1>1, <1>2 DEF Mapped
<1>6. mt[n + 1] = g[e]
  <2> HIDE DEF n, t
  <2> QED BY <1>1, <1>2 DEF Mapped
<1>7. g[e] \in W
  OBVIOUS
<1> DEFINE u == Append(ms, g[e])
<1>8. /\ u \in Seq(W) /\ Len(u) = n + 1 /\ u[n + 1] = g[e]
      /\ \A k \in 1 .. n : u[k] = ms[k]
  <2> HIDE DEF ms, n
  <2> QED BY <1>3, <1>4, <1>7, AppendProperties
<1>9. \A k \in 1 .. Len(mt) : mt[k] = u[k]
  <2> HIDE DEF ms, mt, u, n
  <2> QED BY <1>1, <1>4, <1>5, <1>6, <1>8
<1>10. mt = u
  <2> HIDE DEF ms, mt, u, n
  <2> QED BY <1>3, <1>4, <1>8, <1>9, SeqEqual
<1> QED BY <1>10

LEMMA EachTyped ==
  ASSUME NEW S, NEW W, NEW g \in [S -> Seq(W)], NEW s \in Seq(S)
  PROVE  Each(g, s) \in Seq(W)
<1> DEFINE m == Mapped(g, s)
<1>1. m \in Seq(Seq(W))
  BY MapTyped
<1>2. <<>> \in Seq(W)
  OBVIOUS
<1> HIDE DEF m
<1>3. FlattenSeq(m) \in Seq(W)
  BY <1>1, <1>2, FlattenAppend
<1> QED BY <1>3 DEF Each, m

LEMMA EachEmpty ==
  ASSUME NEW g
  PROVE  Each(g, <<>>) = <<>>
<1>1. Mapped(g, <<>>) = <<>>
  BY DEF Mapped
<1> QED BY <1>1, FlattenEmpty DEF Each

LEMMA EachAppend ==
  ASSUME NEW S, NEW W, NEW g \in [S -> Seq(W)], NEW s \in Seq(S), NEW e \in S
  PROVE  Each(g, Append(s, e)) = Each(g, s) \o g[e]
<1> DEFINE m == Mapped(g, s)
<1>1. m \in Seq(Seq(W)) /\ g[e] \in Seq(W)
  BY MapTyped
<1>2. Mapped(g, Append(s, e)) = Append(m, g[e])
  BY MapAppend
<1> HIDE DEF m
<1>3. FlattenSeq(Append(m, g[e])) = FlattenSeq(m) \o g[e]
  BY <1>1, FlattenAppend
<1> QED BY <1>2, <1>3 DEF Each, m

LEMMA EachSingle ==
  ASSUME NEW S, NEW W, NEW g \in [S -> Seq(W)], NEW e \in S
  PROVE  Each(g, <<e>>) = g[e]
<1>1. <<e>> = Append(<<>>, e) /\ <<>> \in Seq(S) /\ g[e] \in Seq(W)
  OBVIOUS
<1>2. Each(g, Append(<<>>, e)) = Each(g, <<>>) \o g[e]
  BY <1>1, EachAppend
<1> QED BY <1>1, <1>2, EachEmpty, ConcatEmptySeq

LEMMA ConcatAppend ==
  ASSUME NEW S, NEW s \in Seq(S), NEW t \in Seq(S), NEW e \in S
  PROVE  s \o Append(t, e) = Append(s \o t, e)
<1>1. <<e>> \in Seq(S) /\ s \o t \in Seq(S)
  BY ConcatProperties
<1>2. Append(t, e) = t \o <<e>> /\ Append(s \o t, e) = (s \o t) \o <<e>>
  BY <1>1, AppendIsConcat
<1> QED BY <1>1, <1>2, ConcatAssociative

LEMMA EachConcat ==
  ASSUME NEW S, NEW W, NEW g \in [S -> Seq(W)], NEW s \in Seq(S), NEW t \in Seq(S)
  PROVE  Each(g, s \o t) = Each(g, s) \o Each(g, t)
<1> DEFINE G == {u \in Seq(S) : Each(g, s \o u) = Each(g, s) \o Each(g, u)}
<1>1. <<>> \in G
  <2>1. s \o <<>> = s /\ Each(g, s) \o <<>> = Each(g, s)
    BY EachTyped, ConcatEmptySeq
  <2>2. <<>> \in Seq(S) /\ Each(g, <<>>) = <<>>
    BY EachEmpty
  <2> QED BY <2>1, <2>2
<1>2. ASSUME NEW u \in Seq(S), NEW e \in S, u \in G
      PROVE  Append(u, e) \in G
  <2>1. s \o u \in Seq(S) /\ Append(u, e) \in Seq(S) /\ g[e] \in Seq(W)
    BY ConcatProperties, AppendProperties
  <2>2. s \o Append(u, e) = Append(s \o u, e)
    BY ConcatAppend, SMTT(20)
  <2>3. Each(g, Append(s \o u, e)) = Each(g, s \o u) \o g[e]
    BY <2>1, EachAppend
  <2>4. Each(g, Append(u, e)) = Each(g, u) \o g[e]
    BY EachAppend
  <2>5. Each(g, s) \in Seq(W) /\ Each(g, u) \in Seq(W)
    BY EachTyped
  <2>6. (Each(g, s) \o Each(g, u)) \o g[e] = Each(g, s) \o (Each(g, u) \o g[e])
    BY <2>1, <2>5, ConcatAssociative, SMTT(20)
  <2> QED BY <1>2, <2>1, <2>2, <2>3, <2>4, <2>6
<1>3. Seq(S) \subseteq G
  <2> HIDE DEF G
  <2> QED BY <1>1, <1>2, SeqInduction
<1> QED BY <1>3

(* One of each of the parts is one of each of the whole.                   *)
LEMMA EachFlatten ==
  ASSUME NEW S, NEW W, NEW g \in [S -> Seq(W)]
  PROVE  \A ss \in Seq(Seq(S)) : Each(g, FlattenSeq(ss)) = Each([s \in Seq(S) |-> Each(g, s)], ss)
<1>0. \A s, t \in Seq(S) : Each(g, s \o t) = Each(g, s) \o Each(g, t)
  BY EachConcat
<1> DEFINE h == [s \in Seq(S) |-> Each(g, s)]
           G == {tt \in Seq(Seq(S)) : Each(g, FlattenSeq(tt)) = Each(h, tt)}
<1>1. h \in [Seq(S) -> Seq(W)]
  BY EachTyped
<1>2. <<>> \in G
  BY FlattenEmpty, EachEmpty
<1>3. ASSUME NEW tt \in Seq(Seq(S)), NEW s \in Seq(S), tt \in G
      PROVE  Append(tt, s) \in G
  <2>1. FlattenSeq(tt) \in Seq(S) /\ FlattenSeq(Append(tt, s)) = FlattenSeq(tt) \o s
    BY FlattenAppend
  <2>2. Each(g, FlattenSeq(tt) \o s) = Each(g, FlattenSeq(tt)) \o Each(g, s)
    BY <1>0, <2>1
  <2>3. h[s] = Each(g, s)
    OBVIOUS
  <2> HIDE DEF h
  <2>4. Each(h, Append(tt, s)) = Each(h, tt) \o h[s]
    BY <1>1, EachAppend
  <2>5. Append(tt, s) \in Seq(Seq(S))
    BY AppendProperties
  <2> QED BY <1>3, <2>1, <2>2, <2>3, <2>4, <2>5
<1>4. Seq(Seq(S)) \subseteq G
  <2> HIDE DEF G
  <2> QED BY <1>2, <1>3, SeqInduction
<1> QED BY <1>4

(* What is in one of the parts is in the whole, and nothing else.          *)
LEMMA FlattenRange ==
  ASSUME NEW S, NEW ss \in Seq(Seq(S))
  PROVE  Range(FlattenSeq(ss)) = UNION {Range(ss[i]) : i \in DOMAIN ss}
<1> DEFINE G == {tt \in Seq(Seq(S)) : Range(FlattenSeq(tt)) = UNION {Range(tt[i]) : i \in DOMAIN tt}}
<1>1. <<>> \in G
  <2>1. Range(<<>>) = {} /\ DOMAIN <<>> = {} /\ <<>> \in Seq(Seq(S))
    BY DEF Range
  <2> QED BY <2>1, FlattenEmpty
<1>2. ASSUME NEW tt \in Seq(Seq(S)), NEW s \in Seq(S), tt \in G
      PROVE  Append(tt, s) \in G
  <2>1. FlattenSeq(tt) \in Seq(S) /\ FlattenSeq(Append(tt, s)) = FlattenSeq(tt) \o s
    BY FlattenAppend
  <2>2. Range(FlattenSeq(tt) \o s) = Range(FlattenSeq(tt)) \cup Range(s)
    BY <2>1, RangeConcatenation
  <2> DEFINE n == Len(tt)
             uu == Append(tt, s)
  <2>3. /\ n \in Nat /\ DOMAIN tt = 1 .. n /\ uu \in Seq(Seq(S)) /\ Len(uu) = n + 1
        /\ uu[n + 1] = s /\ \A i \in 1 .. n : uu[i] = tt[i]
    BY AppendProperties, LenProperties
  <2>4. DOMAIN uu = 1 .. n + 1
    <3>1. DOMAIN uu = 1 .. Len(uu)
      BY <2>3, LenProperties
    <3> QED BY <2>3, <3>1
  <2> HIDE DEF n, uu
  <2> DEFINE A == UNION {Range(uu[i]) : i \in DOMAIN uu}
             B == UNION {Range(tt[i]) : i \in DOMAIN tt}
  <2>5. ASSUME NEW x PROVE x \in A <=> x \in B \cup Range(s)
    <3>1. x \in A <=> \E i \in DOMAIN uu : x \in Range(uu[i])
      OBVIOUS
    <3>2. x \in B <=> \E i \in DOMAIN tt : x \in Range(tt[i])
      OBVIOUS
    <3> HIDE DEF A, B
    <3>3. \A i \in DOMAIN uu : i \in DOMAIN tt \/ i = n + 1
      BY <2>3, <2>4
    <3>4. \A i \in DOMAIN tt : i \in DOMAIN uu /\ uu[i] = tt[i]
      BY <2>3, <2>4
    <3>5. n + 1 \in DOMAIN uu /\ uu[n + 1] = s
      BY <2>3, <2>4
    <3> QED BY <3>1, <3>2, <3>3, <3>4, <3>5, Zenon
  <2>6. A = B \cup Range(s)
    <3> HIDE DEF A, B
    <3> QED BY <2>5
  <2>7. Range(FlattenSeq(uu)) = A
    <3>1. Range(FlattenSeq(tt)) = B
      BY <1>2
    <3> HIDE DEF A, B
    <3> QED BY <2>1, <2>2, <2>6, <3>1 DEF uu
  <2> QED BY <2>3, <2>7 DEF uu
<1>3. Seq(Seq(S)) \subseteq G
  <2> HIDE DEF G
  <2> QED BY <1>1, <1>2, SeqInduction
<1> QED BY <1>3

(* Of the elements of a sequence, each for another, only the values count. *)
LEMMA EachSame ==
  ASSUME NEW s, NEW t, NEW g, NEW h, DOMAIN s = DOMAIN t, \A k \in DOMAIN s : g[s[k]] = h[t[k]]
  PROVE  Each(g, s) = Each(h, t)
<1>1. Mapped(g, s) = Mapped(h, t)
  BY DEF Mapped
<1> QED BY <1>1, Zenon DEF Each

Through(g, F, S) == [x \in S |-> Each(g, F[x])]
Composes(g, F, S, s) == Each(g, Each(F, s)) = Each(Through(g, F, S), s)

LEMMA EachOfEach ==
  ASSUME NEW S, NEW V, NEW W, NEW F \in [S -> Seq(V)], NEW g \in [V -> Seq(W)], NEW s \in Seq(S)
  PROVE  Composes(g, F, S, s)
<1> DEFINE ss == Mapped(F, s)
           h == [t \in Seq(V) |-> Each(g, t)]
           gF == Through(g, F, S)
<1>1. ss \in Seq(Seq(V))
  BY MapTyped
<1>2. Each(g, FlattenSeq(ss)) = Each(h, ss)
  <2> HIDE DEF ss
  <2> QED BY <1>1, EachFlatten, SMTT(20)
<1>3. DOMAIN ss = DOMAIN s /\ \A k \in DOMAIN ss : h[ss[k]] = gF[s[k]]
  <2>1. \A k \in DOMAIN s : s[k] \in S
    BY LenProperties
  <2>2. \A k \in DOMAIN s : ss[k] = F[s[k]] /\ F[s[k]] \in Seq(V)
    BY <2>1 DEF Mapped
  <2>3. DOMAIN ss = DOMAIN s
    BY DEF Mapped
  <2> HIDE DEF ss
  <2>4. \A x \in S : gF[x] = Each(g, F[x])
    BY DEF Through
  <2> QED BY <2>1, <2>2, <2>3, <2>4
<1>4. Each(h, ss) = Each(gF, s)
  <2> HIDE DEF ss, h, gF
  <2> QED BY <1>3, EachSame, SMTT(20)
<1> QED BY <1>2, <1>4 DEF Each, Composes
-----------------------------------------------------------------------------
(* The texts of a paragraph, node by node.                                 *)
Holder == Person \cup {NoAuthor}
Entry == [t : Text, fmt : Format, ins : Holder, del : Holder]
MidNode == PlainNode \cup Wrap("ins", PlainNode) \cup Wrap("del", PlainNode)

KidsOf(kind) == PlainNode \cup (IF kind = "ins" THEN Wrap("del", PlainNode) ELSE Wrap("ins", PlainNode))

TextsOfPlain(ins, del) == [n \in PlainNode |-> IF n.kind = "run" THEN RunTexts(n, ins, del) ELSE <<>>]
TextsOfMid(N, ins, del) ==
  [n \in N |->
     CASE n.kind = "run" -> RunTexts(n, ins, del)
       [] n.kind = "ins" -> InnerTexts(n.kids, n.author, del)
       [] n.kind = "del" -> InnerTexts(n.kids, ins, n.author)
       [] OTHER -> <<>>]
TextsOfNode ==
  [n \in Node |->
     CASE n.kind = "run" -> RunTexts(n, NoAuthor, NoAuthor)
       [] n.kind = "ins" -> WrapTexts(n.kids, n.author, NoAuthor)
       [] n.kind = "del" -> WrapTexts(n.kids, NoAuthor, n.author)
       [] OTHER -> <<>>]

LEMMA HoldersAre == NoAuthor \in Holder /\ Person \subseteq Holder
BY DEF Holder

LEMMA NodesNest ==
  /\ RunNode \subseteq PlainNode /\ PlainNode \subseteq MidNode /\ PlainNode \subseteq Node
  /\ ProofErr \in PlainNode /\ Mark \in PlainNode
  /\ \A n \in PlainNode : ~IsWrap(n) /\ (n.kind = "run" => n \in RunNode)
  /\ \A n \in MidNode : /\ n.kind = "run" => n \in RunNode
                        /\ IsWrap(n) => (n.kids \in Seq(PlainNode) /\ n.author \in Person)
  /\ \A n \in Node : /\ n.kind = "run" => n \in RunNode
                     /\ IsWrap(n) => (n.kids \in Seq(KidsOf(n.kind)) /\ n.author \in Person)
  /\ \A kind : KidsOf(kind) \subseteq MidNode /\ PlainNode \subseteq KidsOf(kind)
<1> USE DEF RunNode, PlainNode, MidNode, Node, Wrap, ProofErr, Mark, IsWrap
<1>1. RunNode \subseteq PlainNode /\ PlainNode \subseteq MidNode /\ PlainNode \subseteq Node
  OBVIOUS
<1>2. ProofErr \in PlainNode /\ Mark \in PlainNode
  OBVIOUS
<1>3. ASSUME NEW n \in PlainNode PROVE ~IsWrap(n) /\ (n.kind = "run" => n \in RunNode)
  OBVIOUS
<1>4. ASSUME NEW n \in MidNode PROVE /\ n.kind = "run" => n \in RunNode
                                    /\ IsWrap(n) => (n.kids \in Seq(PlainNode) /\ n.author \in Person)
  OBVIOUS
<1>5. ASSUME NEW n \in Node PROVE /\ n.kind = "run" => n \in RunNode
                                  /\ IsWrap(n) => (n.kids \in Seq(KidsOf(n.kind)) /\ n.author \in Person)
  <2>1. n.kind = "run" => n \in RunNode
    OBVIOUS
  <2>2. IsWrap(n) => n.author \in Person
    OBVIOUS
  <2>3. CASE n \in Wrap("ins", PlainNode \cup Wrap("del", PlainNode))
    <3>1. KidsOf(n.kind) = PlainNode \cup Wrap("del", PlainNode)
      BY <2>3 DEF KidsOf
    <3>2. n.kids \in Seq(PlainNode \cup Wrap("del", PlainNode))
      BY <2>3
    <3> QED BY <2>1, <2>2, <3>1, <3>2
  <2>4. CASE n \in Wrap("del", PlainNode \cup Wrap("ins", PlainNode))
    <3>1. KidsOf(n.kind) = PlainNode \cup Wrap("ins", PlainNode)
      BY <2>4 DEF KidsOf
    <3>2. n.kids \in Seq(PlainNode \cup Wrap("ins", PlainNode))
      BY <2>4
    <3> QED BY <2>1, <2>2, <3>1, <3>2
  <2>5. CASE n \in PlainNode
    BY <2>1, <2>5
  <2> QED BY <2>3, <2>4, <2>5
<1>6. \A kind : KidsOf(kind) \subseteq MidNode /\ PlainNode \subseteq KidsOf(kind)
  <2> HIDE DEF PlainNode, Wrap
  <2> QED BY DEF KidsOf
<1> QED BY <1>1, <1>2, <1>3, <1>4, <1>5, <1>6

LEMMA RunTextsTyped ==
  ASSUME NEW run \in RunNode, NEW ins \in Holder, NEW del \in Holder
  PROVE  RunTexts(run, ins, del) \in Seq(Entry) /\ DOMAIN RunTexts(run, ins, del) = DOMAIN run.ts
<1>1. run.ts \in Seq(Text) /\ run.fmt \in Format
  BY DEF RunNode
<1> DEFINE f == [t \in Text |-> [t |-> t, fmt |-> run.fmt, ins |-> ins, del |-> del]]
<1>2. f \in [Text -> Entry]
  BY <1>1 DEF Entry
<1>3. \A k \in DOMAIN run.ts : run.ts[k] \in Text
  BY <1>1, LenProperties
<1>4. RunTexts(run, ins, del) = Mapped(f, run.ts) /\ DOMAIN RunTexts(run, ins, del) = DOMAIN run.ts
  BY <1>3 DEF RunTexts, Mapped
<1>5. Mapped(f, run.ts) \in Seq(Entry)
  <2> HIDE DEF f
  <2> QED BY <1>1, <1>2, MapTyped
<1> QED BY <1>4, <1>5

LEMMA InnerTextsAre ==
  ASSUME NEW ins \in Holder, NEW del \in Holder
  PROVE  /\ TextsOfPlain(ins, del) \in [PlainNode -> Seq(Entry)]
         /\ \A nodes \in Seq(PlainNode) : /\ InnerTexts(nodes, ins, del) = Each(TextsOfPlain(ins, del), nodes)
                                          /\ InnerTexts(nodes, ins, del) \in Seq(Entry)
<1> DEFINE f == TextsOfPlain(ins, del)
<1>1. \A n \in PlainNode : (IF n.kind = "run" THEN RunTexts(n, ins, del) ELSE <<>>) \in Seq(Entry)
  BY NodesNest, RunTextsTyped
<1>2. f \in [PlainNode -> Seq(Entry)] /\ \A n \in PlainNode : f[n] = IF n.kind = "run" THEN RunTexts(n, ins, del) ELSE <<>>
  BY <1>1 DEF TextsOfPlain
<1> HIDE DEF f
<1>3. ASSUME NEW nodes \in Seq(PlainNode)
      PROVE  InnerTexts(nodes, ins, del) = Each(f, nodes) /\ Each(f, nodes) \in Seq(Entry)
  <2>1. \A i \in DOMAIN nodes : nodes[i] \in PlainNode
    BY LenProperties
  <2>2. [i \in DOMAIN nodes |-> IF nodes[i].kind = "run" THEN RunTexts(nodes[i], ins, del) ELSE <<>>]
          = Mapped(f, nodes)
    BY <1>2, <2>1 DEF Mapped
  <2>3. InnerTexts(nodes, ins, del) = Each(f, nodes)
    BY <2>2, Zenon DEF InnerTexts, Each
  <2> QED BY <1>2, <2>3, EachTyped
<1> QED BY <1>2, <1>3 DEF f

LEMMA WrapTextsAre ==
  ASSUME NEW N \in SUBSET MidNode, NEW ins \in Holder, NEW del \in Holder
  PROVE  /\ TextsOfMid(N, ins, del) \in [N -> Seq(Entry)]
         /\ \A nodes \in Seq(N) : /\ WrapTexts(nodes, ins, del) = Each(TextsOfMid(N, ins, del), nodes)
                                        /\ WrapTexts(nodes, ins, del) \in Seq(Entry)
<1> DEFINE Of(n) == CASE n.kind = "run" -> RunTexts(n, ins, del)
                     [] n.kind = "ins" -> InnerTexts(n.kids, n.author, del)
                     [] n.kind = "del" -> InnerTexts(n.kids, ins, n.author)
                     [] OTHER -> <<>>
           f == TextsOfMid(N, ins, del)
<1>1. ASSUME NEW n \in N PROVE Of(n) \in Seq(Entry)
  <2>1. CASE n.kind = "run"
    <3>1. Of(n) = RunTexts(n, ins, del)
      BY <2>1
    <3>2. n \in RunNode /\ NoAuthor \in Holder
      BY <2>1, NodesNest, HoldersAre
    <3> HIDE DEF Of
    <3> QED BY <3>1, <3>2, RunTextsTyped
  <2>2. CASE n.kind = "ins"
    <3>1. Of(n) = InnerTexts(n.kids, n.author, del)
      BY <2>2
    <3>2. n.kids \in Seq(PlainNode) /\ n.author \in Holder /\ NoAuthor \in Holder
      BY <2>2, NodesNest, HoldersAre DEF IsWrap
    <3> HIDE DEF Of
    <3> QED BY <3>1, <3>2, InnerTextsAre
  <2>3. CASE n.kind = "del"
    <3>1. Of(n) = InnerTexts(n.kids, ins, n.author)
      BY <2>3
    <3>2. n.kids \in Seq(PlainNode) /\ n.author \in Holder /\ NoAuthor \in Holder
      BY <2>3, NodesNest, HoldersAre DEF IsWrap
    <3> HIDE DEF Of
    <3> QED BY <3>1, <3>2, InnerTextsAre
  <2>4. CASE n.kind \notin {"run", "ins", "del"}
    BY <2>4
  <2> QED BY <2>1, <2>2, <2>3, <2>4
<1>2. f = [n \in N |-> Of(n)]
  BY Zenon DEF TextsOfMid
<1> HIDE DEF f, Of
<1>3. f \in [N -> Seq(Entry)]
  BY <1>1, <1>2
<1>4. ASSUME NEW nodes \in Seq(N)
      PROVE  WrapTexts(nodes, ins, del) = Each(f, nodes) /\ Each(f, nodes) \in Seq(Entry)
  <2>1. \A i \in DOMAIN nodes : nodes[i] \in N
    BY LenProperties
  <2>2. [i \in DOMAIN nodes |-> Of(nodes[i])] = Mapped(f, nodes)
    BY <1>2, <2>1 DEF Mapped
  <2>3. WrapTexts(nodes, ins, del) = FlattenSeq([i \in DOMAIN nodes |-> Of(nodes[i])])
    BY Zenon DEF WrapTexts, Of
  <2>4. WrapTexts(nodes, ins, del) = Each(f, nodes)
    BY <2>2, <2>3, Zenon DEF Each
  <2> QED BY <1>3, <2>4, EachTyped
<1> QED BY <1>3, <1>4 DEF f

LEMMA TextsAre ==
  /\ TextsOfNode \in [Node -> Seq(Entry)]
  /\ \A paragraph \in Seq(Node) : /\ Texts(paragraph) = Each(TextsOfNode, paragraph)
                                  /\ Texts(paragraph) \in Seq(Entry)
<1> DEFINE Of(n) == CASE n.kind = "run" -> RunTexts(n, NoAuthor, NoAuthor)
                     [] n.kind = "ins" -> WrapTexts(n.kids, n.author, NoAuthor)
                     [] n.kind = "del" -> WrapTexts(n.kids, NoAuthor, n.author)
                     [] OTHER -> <<>>
<1>1. ASSUME NEW n \in Node PROVE Of(n) \in Seq(Entry)
  <2>1. CASE n.kind = "run"
    <3>1. Of(n) = RunTexts(n, NoAuthor, NoAuthor)
      BY <2>1
    <3>2. n \in RunNode /\ NoAuthor \in Holder
      BY <2>1, NodesNest, HoldersAre
    <3> HIDE DEF Of
    <3> QED BY <3>1, <3>2, RunTextsTyped
  <2>2. CASE n.kind = "ins"
    <3>1. Of(n) = WrapTexts(n.kids, n.author, NoAuthor)
      BY <2>2
    <3>2. n.kids \in Seq(KidsOf(n.kind)) /\ KidsOf(n.kind) \in SUBSET MidNode /\ n.author \in Holder /\ NoAuthor \in Holder
      BY <2>2, NodesNest, HoldersAre DEF IsWrap
    <3> HIDE DEF Of
    <3> QED BY <3>1, <3>2, WrapTextsAre
  <2>3. CASE n.kind = "del"
    <3>1. Of(n) = WrapTexts(n.kids, NoAuthor, n.author)
      BY <2>3
    <3>2. n.kids \in Seq(KidsOf(n.kind)) /\ KidsOf(n.kind) \in SUBSET MidNode /\ n.author \in Holder /\ NoAuthor \in Holder
      BY <2>3, NodesNest, HoldersAre DEF IsWrap
    <3> HIDE DEF Of
    <3> QED BY <3>1, <3>2, WrapTextsAre
  <2>4. CASE n.kind \notin {"run", "ins", "del"}
    BY <2>4
  <2> QED BY <2>1, <2>2, <2>3, <2>4
<1>2. TextsOfNode = [n \in Node |-> Of(n)]
  BY Zenon DEF TextsOfNode
<1> HIDE DEF Of
<1>3. TextsOfNode \in [Node -> Seq(Entry)]
  BY <1>1, <1>2
<1>4. ASSUME NEW nodes \in Seq(Node)
      PROVE  Texts(nodes) = Each(TextsOfNode, nodes) /\ Each(TextsOfNode, nodes) \in Seq(Entry)
  <2>1. \A i \in DOMAIN nodes : nodes[i] \in Node
    BY LenProperties
  <2>2. [i \in DOMAIN nodes |-> Of(nodes[i])] = Mapped(TextsOfNode, nodes)
    BY <1>2, <2>1 DEF Mapped
  <2>3. Texts(nodes) = FlattenSeq([i \in DOMAIN nodes |-> Of(nodes[i])])
    BY Zenon DEF Texts, Of
  <2>4. Texts(nodes) = Each(TextsOfNode, nodes)
    BY <2>2, <2>3, Zenon DEF Each
  <2> QED BY <1>3, <2>4, EachTyped
<1> QED BY <1>3, <1>4
-----------------------------------------------------------------------------
(* Merging                                                                 *)

LEMMA FrontLast ==
  ASSUME NEW S, NEW s \in Seq(S), s # <<>>
  PROVE  Front(s) \in Seq(S) /\ Last(s) \in S /\ s = Append(Front(s), Last(s))
<1> DEFINE n == Len(s)
<1>1. n \in Nat /\ n # 0 /\ \A i \in 1 .. n : s[i] \in S
  BY EmptySeq, LenProperties
<1>2. s = SubSeq(s, 1, n)
  BY SubSeqFull
<1> HIDE DEF n
<1>3. 1 \in 1 .. n /\ n \in 1 .. n /\ n - 1 \in Int
  BY <1>1
<1>4. SubSeq(s, 1, n) = SubSeq(s, 1, n - 1) \o <<s[n]>>
  BY <1>3, SubSeqRecursiveSecond DEF n
<1>5. SubSeq(s, 1, n - 1) \in Seq(S)
  <2>1. \A i \in 1 .. n - 1 : s[i] \in S
    BY <1>1
  <2> QED BY <1>3, <2>1, SubSeqProperties
<1>6. s[n] \in S
  BY <1>1, <1>3
<1>7. SubSeq(s, 1, n - 1) \o <<s[n]>> = Append(SubSeq(s, 1, n - 1), s[n])
  BY <1>5, <1>6, AppendIsConcat
<1>8. Front(s) = SubSeq(s, 1, n - 1) /\ Last(s) = s[n]
  BY Zenon DEF Front, Last, n
<1> QED BY <1>2, <1>4, <1>5, <1>6, <1>7, <1>8

(* A function that starts with y and goes on with h.                       *)
Follows(Y, y, n, h, f) == f \in [0 .. n -> Y] /\ f[0] = y /\ \A i \in 1 .. n : f[i] = h[<<i, f[i - 1]>>]

LEMMA Recursion ==
  ASSUME NEW Y, NEW y \in Y, NEW n \in Nat, NEW h \in [(1 .. n) \X Y -> Y]
  PROVE  \E f : Follows(Y, y, n, h, f)
<1> DEFINE Goes(m, f) == Follows(Y, y, m, h, f)
           L == {m \in Nat : m <= n => \E f : Goes(m, f)}
<1>1. 0 \in L
  <2>1. Goes(0, [i \in 0 .. 0 |-> y])
    BY DEF Follows
  <2> QED BY <2>1
<1>2. ASSUME NEW m \in Nat, m \in L PROVE m + 1 \in L
  <2> SUFFICES ASSUME m + 1 <= n PROVE \E f : Goes(m + 1, f)
    OBVIOUS
  <2>1. PICK f : Goes(m, f)
    BY <1>2
  <2> USE DEF Follows
  <2> DEFINE g == [i \in 0 .. m + 1 |-> IF i <= m THEN f[i] ELSE h[<<m + 1, f[m]>>]]
  <2>2. h[<<m + 1, f[m]>>] \in Y
    <3>1. m + 1 \in 1 .. n /\ f[m] \in Y
      BY <2>1
    <3> QED BY <3>1
  <2>3. g \in [0 .. m + 1 -> Y]
    <3>1. \A i \in 0 .. m + 1 : i <= m => i \in 0 .. m
      OBVIOUS
    <3> QED BY <2>1, <2>2, <3>1
  <2>4. g[0] = y /\ g[m + 1] = h[<<m + 1, f[m]>>] /\ \A i \in 0 .. m : g[i] = f[i]
    <3>1. 0 <= m /\ 0 \in 0 .. m + 1 /\ ~(m + 1 <= m) /\ \A i \in 0 .. m : i \in 0 .. m + 1 /\ i <= m
      OBVIOUS
    <3> QED BY <2>1, <3>1
  <2> HIDE DEF g
  <2>5. ASSUME NEW i \in 1 .. m + 1 PROVE g[i] = h[<<i, g[i - 1]>>]
    <3>1. CASE i = m + 1
      <4>1. i - 1 = m /\ m \in 0 .. m
        BY <3>1
      <4> QED BY <2>4, <3>1, <4>1
    <3>2. CASE i # m + 1
      <4>1. i \in 1 .. m /\ i \in 0 .. m /\ i - 1 \in 0 .. m
        BY <3>2
      <4>2. f[i] = h[<<i, f[i - 1]>>]
        BY <2>1, <4>1
      <4> QED BY <2>4, <4>1, <4>2
    <3> QED BY <3>1, <3>2
  <2>6. Goes(m + 1, g)
    BY <2>3, <2>4, <2>5
  <2> QED BY <2>6
<1>3. Nat \subseteq L
  <2> HIDE DEF L
  <2> QED BY <1>1, <1>2, NatSetInduction
<1>4. PICK f : Goes(n, f)
  BY <1>3
<1> QED BY <1>4

(* A step of Merged on a sequence so far: another element, or one for the  *)
(* last of which v gives what it gave of both.                             *)
Kept(v, S, done, e, next) ==
  \/ next = Append(done, e)
  \/ done # <<>> /\ \E c \in S : v[c] = v[Last(done)] \o v[e] /\ next = Append(Front(done), c)

AllKept(v, S, s, f) ==
  /\ f[0] = <<>>
  /\ \A i \in 1 .. Len(s) : f[i - 1] \in Seq(S) => Kept(v, S, f[i - 1], s[i], f[i])

LEMMA MergeKeeps ==
  ASSUME NEW S, NEW W, NEW v \in [S -> Seq(W)], NEW s \in Seq(S), NEW f, AllKept(v, S, s, f)
  PROVE  f[Len(s)] \in Seq(S) /\ Each(v, f[Len(s)]) = Each(v, s)
<1> DEFINE n == Len(s)
           L == {i \in Nat : i <= n => f[i] \in Seq(S) /\ Each(v, f[i]) = Each(v, SubSeq(s, 1, i))}
<1>0. ASSUME NEW done \in Seq(S), NEW e \in S, NEW next, Kept(v, S, done, e, next)
      PROVE  next \in Seq(S) /\ Each(v, next) = Each(v, done) \o v[e]
  <2>0. \A a, b, c \in Seq(W) : (a \o b) \o c = a \o (b \o c)
    BY ConcatAssociative, SMTT(20)
  <2>1. CASE next = Append(done, e)
    <3>1. Each(v, Append(done, e)) = Each(v, done) \o v[e]
      BY EachAppend
    <3>2. Append(done, e) \in Seq(S)
      BY AppendProperties
    <3> QED BY <2>1, <3>1, <3>2
  <2>2. ASSUME done # <<>>, NEW c \in S, v[c] = v[Last(done)] \o v[e], next = Append(Front(done), c)
        PROVE  next \in Seq(S) /\ Each(v, next) = Each(v, done) \o v[e]
    <3> DEFINE front == Front(done)
               last == Last(done)
    <3>1. front \in Seq(S) /\ last \in S /\ done = Append(front, last)
      BY <2>2, FrontLast
    <3> HIDE DEF front, last
    <3>2. next \in Seq(S) /\ Each(v, next) = Each(v, front) \o v[c]
      <4>1. next = Append(front, c)
        BY <2>2 DEF front
      <4>2. Each(v, Append(front, c)) = Each(v, front) \o v[c]
        BY <3>1, EachAppend
      <4> QED BY <3>1, <4>1, <4>2, AppendProperties
    <3>3. Each(v, done) = Each(v, front) \o v[last]
      BY <3>1, EachAppend
    <3>4. Each(v, front) \in Seq(W) /\ v[last] \in Seq(W) /\ v[e] \in Seq(W)
      BY <3>1, EachTyped
    <3>5. (Each(v, front) \o v[last]) \o v[e] = Each(v, front) \o (v[last] \o v[e])
      <4> DEFINE a == Each(v, front)
                 b == v[last]
                 d == v[e]
      <4>1. a \in Seq(W) /\ b \in Seq(W) /\ d \in Seq(W)
        BY <3>4
      <4> HIDE DEF a, b, d
      <4>2. (a \o b) \o d = a \o (b \o d)
        BY <2>0, <4>1
      <4> QED BY <4>2 DEF a, b, d
    <3>6. v[c] = v[last] \o v[e]
      BY <2>2 DEF last
    <3> QED BY <3>2, <3>3, <3>5, <3>6, Zenon
  <2> QED BY <1>0, <2>1, <2>2, Zenon DEF Kept
<1>1. n \in Nat /\ \A i \in 1 .. n : s[i] \in S
  BY LenProperties
<1>2. 0 \in L
  <2>1. SubSeq(s, 1, 0) = <<>>
    BY SubSeqEmpty
  <2>2. <<>> \in Seq(S)
    OBVIOUS
  <2> QED BY <2>1, <2>2 DEF AllKept
<1>3. ASSUME NEW i \in Nat, i \in L PROVE i + 1 \in L
  <2> SUFFICES ASSUME i + 1 <= n
               PROVE  f[i + 1] \in Seq(S) /\ Each(v, f[i + 1]) = Each(v, SubSeq(s, 1, i + 1))
    OBVIOUS
  <2> DEFINE j == i + 1
  <2>1. j \in 1 .. n /\ j - 1 = i /\ 1 \in 1 .. n /\ i <= n
    <3> HIDE DEF n
    <3> QED BY <1>1
  <2>2. f[i] \in Seq(S) /\ Each(v, f[i]) = Each(v, SubSeq(s, 1, i))
    BY <1>3, <2>1
  <2>3. s[j] \in S /\ Kept(v, S, f[i], s[j], f[j])
    <3> HIDE DEF j
    <3>1. s[j] \in S
      BY <1>1, <2>1
    <3> QED BY <2>1, <2>2, <3>1 DEF AllKept, n
  <2> HIDE DEF j
  <2>4. f[j] \in Seq(S) /\ Each(v, f[j]) = Each(v, f[i]) \o v[s[j]]
    <3> HIDE DEF L, n
    <3> QED BY <1>0, <2>2, <2>3
  <2>5. SubSeq(s, 1, i) \in Seq(S)
    <3>1. \A k \in 1 .. i : s[k] \in S
      <4> HIDE DEF n
      <4> QED BY <1>1, <2>1
    <3> QED BY <3>1, SubSeqProperties
  <2>6. SubSeq(s, 1, j) = Append(SubSeq(s, 1, i), s[j])
    <3>1. SubSeq(s, 1, j) = SubSeq(s, 1, j - 1) \o <<s[j]>>
      BY <2>1, SubSeqRecursiveSecond
    <3> QED BY <2>1, <2>3, <2>5, <3>1, AppendIsConcat
  <2>7. Each(v, SubSeq(s, 1, j)) = Each(v, SubSeq(s, 1, i)) \o v[s[j]]
    BY <2>3, <2>5, <2>6, EachAppend
  <2> QED BY <2>2, <2>4, <2>7 DEF j
<1>4. Nat \subseteq L
  <2> HIDE DEF L
  <2> QED BY <1>2, <1>3, NatSetInduction
<1>5. f[n] \in Seq(S) /\ Each(v, f[n]) = Each(v, SubSeq(s, 1, n))
  BY <1>1, <1>4
<1> QED BY <1>5, SubSeqFull

(* Each of the three merges, step by step.                                 *)
NextTracked(done, e) ==
  IF done # <<>> /\ CanMergeTracked(Last(done), e) THEN Append(Front(done), MergeTracked(Last(done), e)) ELSE Append(done, e)
MergingTracked(s, f) == f = [i \in 0 .. Len(s) |-> IF i = 0 THEN <<>> ELSE NextTracked(f[i - 1], s[i])]

SplitsTracked(v, S, W) ==
  /\ v \in [S -> Seq(W)]
  /\ \A a, b \in S : CanMergeTracked(a, b) => MergeTracked(a, b) \in S /\ v[MergeTracked(a, b)] = v[a] \o v[b]

LEMMA MergeTrackedKeeps ==
  ASSUME NEW S, NEW W, NEW v, SplitsTracked(v, S, W), NEW s \in Seq(S)
  PROVE  /\ Merged(CanMergeTracked, MergeTracked, s) \in Seq(S)
         /\ Each(v, Merged(CanMergeTracked, MergeTracked, s)) = Each(v, s)
<1>0. /\ v \in [S -> Seq(W)]
      /\ \A a, b \in S : CanMergeTracked(a, b) => MergeTracked(a, b) \in S /\ v[MergeTracked(a, b)] = v[a] \o v[b]
  BY Zenon DEF SplitsTracked
<1>1. ASSUME NEW done \in Seq(S), NEW e \in S
      PROVE  Kept(v, S, done, e, NextTracked(done, e)) /\ NextTracked(done, e) \in Seq(S)
  <2>1. CASE done # <<>> /\ CanMergeTracked(Last(done), e)
    <3>1. Last(done) \in S
      BY <2>1, FrontLast
    <3>2. MergeTracked(Last(done), e) \in S /\ v[MergeTracked(Last(done), e)] = v[Last(done)] \o v[e]
      BY <1>0, <2>1, <3>1
    <3>3. NextTracked(done, e) = Append(Front(done), MergeTracked(Last(done), e))
      BY <2>1, Zenon DEF NextTracked
    <3>4. Kept(v, S, done, e, NextTracked(done, e))
      BY <2>1, <3>2, <3>3, Zenon DEF Kept
    <3>5. Front(done) \in Seq(S)
      BY <2>1, FrontLast
    <3> QED BY <3>2, <3>3, <3>4, <3>5, AppendProperties
  <2>2. CASE ~(done # <<>> /\ CanMergeTracked(Last(done), e))
    <3>1. NextTracked(done, e) = Append(done, e)
      BY <2>2, Zenon DEF NextTracked
    <3> QED BY <3>1, AppendProperties DEF Kept
  <2> QED BY <2>1, <2>2
<1> DEFINE n == Len(s)
           h == [ie \in (1 .. n) \X Seq(S) |-> NextTracked(ie[2], s[ie[1]])]
<1>2. n \in Nat /\ \A i \in 1 .. n : s[i] \in S
  BY LenProperties
<1>3. h \in [(1 .. n) \X Seq(S) -> Seq(S)] /\ \A i \in 1 .. n : \A done \in Seq(S) : h[<<i, done>>] = NextTracked(done, s[i])
  <2>1. \A ie \in (1 .. n) \X Seq(S) : NextTracked(ie[2], s[ie[1]]) \in Seq(S)
    BY <1>1, <1>2
  <2> QED BY <2>1
<1> HIDE DEF n, h
<1>4. PICK f : Follows(Seq(S), <<>>, n, h, f)
  <2>1. <<>> \in Seq(S)
    OBVIOUS
  <2> QED BY <1>2, <1>3, <2>1, Recursion
<1>5. MergingTracked(s, f)
  <2> USE DEF Follows
  <2>1. \A i \in 0 .. n : f[i] = IF i = 0 THEN <<>> ELSE NextTracked(f[i - 1], s[i])
    <3>1. ASSUME NEW i \in 0 .. n, i # 0 PROVE f[i] = NextTracked(f[i - 1], s[i])
      <4>1. i \in 1 .. n /\ i - 1 \in 0 .. n
        BY <1>2, <3>1
      <4>2. f[i] = h[<<i, f[i - 1]>>] /\ f[i - 1] \in Seq(S)
        BY <1>4, <3>1, <4>1
      <4> QED BY <1>3, <4>1, <4>2
    <3>2. 0 \in 0 .. n /\ f[0] = <<>>
      BY <1>2, <1>4
    <3> QED BY <3>1, <3>2
  <2>2. f = [i \in 0 .. n |-> f[i]]
    BY <1>4
  <2>3. f = [i \in 0 .. n |-> IF i = 0 THEN <<>> ELSE NextTracked(f[i - 1], s[i])]
    BY <2>1, <2>2
  <2> QED BY <2>3 DEF MergingTracked, n
<1> DEFINE g == CHOOSE x : MergingTracked(s, x)
<1>6. MergingTracked(s, g)
  BY <1>5, Zenon
<1>7. Merged(CanMergeTracked, MergeTracked, s) = g[n]
  BY Zenon DEF Merged, MergingTracked, NextTracked, n
<1> HIDE DEF g
<1>8. g[0] = <<>> /\ \A i \in 1 .. n : g[i] = NextTracked(g[i - 1], s[i])
  <2>1. g = [i \in 0 .. n |-> IF i = 0 THEN <<>> ELSE NextTracked(g[i - 1], s[i])]
    BY <1>6 DEF MergingTracked, n
  <2>2. 0 \in 0 .. n /\ \A i \in 1 .. n : i \in 0 .. n /\ i # 0
    BY <1>2
  <2> QED BY <2>1, <2>2
<1>9. \A i \in 1 .. n : g[i - 1] \in Seq(S) => Kept(v, S, g[i - 1], s[i], g[i])
  BY <1>1, <1>2, <1>8
<1>10. AllKept(v, S, s, g)
  BY <1>8, <1>9, Zenon DEF AllKept, n
<1>11. g[Len(s)] \in Seq(S) /\ Each(v, g[Len(s)]) = Each(v, s)
  BY <1>0, <1>10, MergeKeeps
<1> QED BY <1>7, <1>11 DEF n

NextRuns(done, e) ==
  IF done # <<>> /\ CanMerge(Last(done), e) THEN Append(Front(done), MergeRunContent(Last(done), e)) ELSE Append(done, e)
MergingRuns(s, f) == f = [i \in 0 .. Len(s) |-> IF i = 0 THEN <<>> ELSE NextRuns(f[i - 1], s[i])]

SplitsRuns(v, S, W) ==
  /\ v \in [S -> Seq(W)]
  /\ \A a, b \in S : CanMerge(a, b) => MergeRunContent(a, b) \in S /\ v[MergeRunContent(a, b)] = v[a] \o v[b]

LEMMA MergeRunsKeeps ==
  ASSUME NEW S, NEW W, NEW v, SplitsRuns(v, S, W), NEW s \in Seq(S)
  PROVE  /\ Merged(CanMerge, MergeRunContent, s) \in Seq(S)
         /\ Each(v, Merged(CanMerge, MergeRunContent, s)) = Each(v, s)
<1>0. /\ v \in [S -> Seq(W)]
      /\ \A a, b \in S : CanMerge(a, b) => MergeRunContent(a, b) \in S /\ v[MergeRunContent(a, b)] = v[a] \o v[b]
  BY Zenon DEF SplitsRuns
<1>1. ASSUME NEW done \in Seq(S), NEW e \in S
      PROVE  Kept(v, S, done, e, NextRuns(done, e)) /\ NextRuns(done, e) \in Seq(S)
  <2>1. CASE done # <<>> /\ CanMerge(Last(done), e)
    <3>1. Last(done) \in S
      BY <2>1, FrontLast
    <3>2. MergeRunContent(Last(done), e) \in S /\ v[MergeRunContent(Last(done), e)] = v[Last(done)] \o v[e]
      BY <1>0, <2>1, <3>1
    <3>3. NextRuns(done, e) = Append(Front(done), MergeRunContent(Last(done), e))
      BY <2>1, Zenon DEF NextRuns
    <3>4. Kept(v, S, done, e, NextRuns(done, e))
      BY <2>1, <3>2, <3>3, Zenon DEF Kept
    <3>5. Front(done) \in Seq(S)
      BY <2>1, FrontLast
    <3> QED BY <3>2, <3>3, <3>4, <3>5, AppendProperties
  <2>2. CASE ~(done # <<>> /\ CanMerge(Last(done), e))
    <3>1. NextRuns(done, e) = Append(done, e)
      BY <2>2, Zenon DEF NextRuns
    <3> QED BY <3>1, AppendProperties DEF Kept
  <2> QED BY <2>1, <2>2
<1> DEFINE n == Len(s)
           h == [ie \in (1 .. n) \X Seq(S) |-> NextRuns(ie[2], s[ie[1]])]
<1>2. n \in Nat /\ \A i \in 1 .. n : s[i] \in S
  BY LenProperties
<1>3. h \in [(1 .. n) \X Seq(S) -> Seq(S)] /\ \A i \in 1 .. n : \A done \in Seq(S) : h[<<i, done>>] = NextRuns(done, s[i])
  <2>1. \A ie \in (1 .. n) \X Seq(S) : NextRuns(ie[2], s[ie[1]]) \in Seq(S)
    BY <1>1, <1>2
  <2> QED BY <2>1
<1> HIDE DEF n, h
<1>4. PICK f : Follows(Seq(S), <<>>, n, h, f)
  <2>1. <<>> \in Seq(S)
    OBVIOUS
  <2> QED BY <1>2, <1>3, <2>1, Recursion
<1>5. MergingRuns(s, f)
  <2> USE DEF Follows
  <2>1. \A i \in 0 .. n : f[i] = IF i = 0 THEN <<>> ELSE NextRuns(f[i - 1], s[i])
    <3>1. ASSUME NEW i \in 0 .. n, i # 0 PROVE f[i] = NextRuns(f[i - 1], s[i])
      <4>1. i \in 1 .. n /\ i - 1 \in 0 .. n
        BY <1>2, <3>1
      <4>2. f[i] = h[<<i, f[i - 1]>>] /\ f[i - 1] \in Seq(S)
        BY <1>4, <3>1, <4>1
      <4> QED BY <1>3, <4>1, <4>2
    <3>2. 0 \in 0 .. n /\ f[0] = <<>>
      BY <1>2, <1>4
    <3> QED BY <3>1, <3>2
  <2>2. f = [i \in 0 .. n |-> f[i]]
    BY <1>4
  <2>3. f = [i \in 0 .. n |-> IF i = 0 THEN <<>> ELSE NextRuns(f[i - 1], s[i])]
    BY <2>1, <2>2
  <2> QED BY <2>3 DEF MergingRuns, n
<1> DEFINE g == CHOOSE x : MergingRuns(s, x)
<1>6. MergingRuns(s, g)
  BY <1>5, Zenon
<1>7. Merged(CanMerge, MergeRunContent, s) = g[n]
  BY Zenon DEF Merged, MergingRuns, NextRuns, n
<1> HIDE DEF g
<1>8. g[0] = <<>> /\ \A i \in 1 .. n : g[i] = NextRuns(g[i - 1], s[i])
  <2>1. g = [i \in 0 .. n |-> IF i = 0 THEN <<>> ELSE NextRuns(g[i - 1], s[i])]
    BY <1>6 DEF MergingRuns, n
  <2>2. 0 \in 0 .. n /\ \A i \in 1 .. n : i \in 0 .. n /\ i # 0
    BY <1>2
  <2> QED BY <2>1, <2>2
<1>9. \A i \in 1 .. n : g[i - 1] \in Seq(S) => Kept(v, S, g[i - 1], s[i], g[i])
  BY <1>1, <1>2, <1>8
<1>10. AllKept(v, S, s, g)
  BY <1>8, <1>9, Zenon DEF AllKept, n
<1>11. g[Len(s)] \in Seq(S) /\ Each(v, g[Len(s)]) = Each(v, s)
  BY <1>0, <1>10, MergeKeeps
<1> QED BY <1>7, <1>11 DEF n

NextTexts(done, e) ==
  IF done # <<>> /\ BothTexts(Last(done), e) THEN Append(Front(done), JoinTexts(Last(done), e)) ELSE Append(done, e)
MergingTexts(s, f) == f = [i \in 0 .. Len(s) |-> IF i = 0 THEN <<>> ELSE NextTexts(f[i - 1], s[i])]

SplitsTexts(v, S, W) ==
  /\ v \in [S -> Seq(W)]
  /\ \A a, b \in S : BothTexts(a, b) => JoinTexts(a, b) \in S /\ v[JoinTexts(a, b)] = v[a] \o v[b]

LEMMA MergeTextsKeeps ==
  ASSUME NEW S, NEW W, NEW v, SplitsTexts(v, S, W), NEW s \in Seq(S)
  PROVE  /\ Merged(BothTexts, JoinTexts, s) \in Seq(S)
         /\ Each(v, Merged(BothTexts, JoinTexts, s)) = Each(v, s)
<1>0. /\ v \in [S -> Seq(W)]
      /\ \A a, b \in S : BothTexts(a, b) => JoinTexts(a, b) \in S /\ v[JoinTexts(a, b)] = v[a] \o v[b]
  BY Zenon DEF SplitsTexts
<1>1. ASSUME NEW done \in Seq(S), NEW e \in S
      PROVE  Kept(v, S, done, e, NextTexts(done, e)) /\ NextTexts(done, e) \in Seq(S)
  <2>1. CASE done # <<>> /\ BothTexts(Last(done), e)
    <3>1. Last(done) \in S
      BY <2>1, FrontLast
    <3>2. JoinTexts(Last(done), e) \in S /\ v[JoinTexts(Last(done), e)] = v[Last(done)] \o v[e]
      BY <1>0, <2>1, <3>1
    <3>3. NextTexts(done, e) = Append(Front(done), JoinTexts(Last(done), e))
      BY <2>1, Zenon DEF NextTexts
    <3>4. Kept(v, S, done, e, NextTexts(done, e))
      BY <2>1, <3>2, <3>3, Zenon DEF Kept
    <3>5. Front(done) \in Seq(S)
      BY <2>1, FrontLast
    <3> QED BY <3>2, <3>3, <3>4, <3>5, AppendProperties
  <2>2. CASE ~(done # <<>> /\ BothTexts(Last(done), e))
    <3>1. NextTexts(done, e) = Append(done, e)
      BY <2>2, Zenon DEF NextTexts
    <3> QED BY <3>1, AppendProperties DEF Kept
  <2> QED BY <2>1, <2>2
<1> DEFINE n == Len(s)
           h == [ie \in (1 .. n) \X Seq(S) |-> NextTexts(ie[2], s[ie[1]])]
<1>2. n \in Nat /\ \A i \in 1 .. n : s[i] \in S
  BY LenProperties
<1>3. h \in [(1 .. n) \X Seq(S) -> Seq(S)] /\ \A i \in 1 .. n : \A done \in Seq(S) : h[<<i, done>>] = NextTexts(done, s[i])
  <2>1. \A ie \in (1 .. n) \X Seq(S) : NextTexts(ie[2], s[ie[1]]) \in Seq(S)
    BY <1>1, <1>2
  <2> QED BY <2>1
<1> HIDE DEF n, h
<1>4. PICK f : Follows(Seq(S), <<>>, n, h, f)
  <2>1. <<>> \in Seq(S)
    OBVIOUS
  <2> QED BY <1>2, <1>3, <2>1, Recursion
<1>5. MergingTexts(s, f)
  <2> USE DEF Follows
  <2>1. \A i \in 0 .. n : f[i] = IF i = 0 THEN <<>> ELSE NextTexts(f[i - 1], s[i])
    <3>1. ASSUME NEW i \in 0 .. n, i # 0 PROVE f[i] = NextTexts(f[i - 1], s[i])
      <4>1. i \in 1 .. n /\ i - 1 \in 0 .. n
        BY <1>2, <3>1
      <4>2. f[i] = h[<<i, f[i - 1]>>] /\ f[i - 1] \in Seq(S)
        BY <1>4, <3>1, <4>1
      <4> QED BY <1>3, <4>1, <4>2
    <3>2. 0 \in 0 .. n /\ f[0] = <<>>
      BY <1>2, <1>4
    <3> QED BY <3>1, <3>2
  <2>2. f = [i \in 0 .. n |-> f[i]]
    BY <1>4
  <2>3. f = [i \in 0 .. n |-> IF i = 0 THEN <<>> ELSE NextTexts(f[i - 1], s[i])]
    BY <2>1, <2>2
  <2> QED BY <2>3 DEF MergingTexts, n
<1> DEFINE g == CHOOSE x : MergingTexts(s, x)
<1>6. MergingTexts(s, g)
  BY <1>5, Zenon
<1>7. Merged(BothTexts, JoinTexts, s) = g[n]
  BY Zenon DEF Merged, MergingTexts, NextTexts, n
<1> HIDE DEF g
<1>8. g[0] = <<>> /\ \A i \in 1 .. n : g[i] = NextTexts(g[i - 1], s[i])
  <2>1. g = [i \in 0 .. n |-> IF i = 0 THEN <<>> ELSE NextTexts(g[i - 1], s[i])]
    BY <1>6 DEF MergingTexts, n
  <2>2. 0 \in 0 .. n /\ \A i \in 1 .. n : i \in 0 .. n /\ i # 0
    BY <1>2
  <2> QED BY <2>1, <2>2
<1>9. \A i \in 1 .. n : g[i - 1] \in Seq(S) => Kept(v, S, g[i - 1], s[i], g[i])
  BY <1>1, <1>2, <1>8
<1>10. AllKept(v, S, s, g)
  BY <1>8, <1>9, Zenon DEF AllKept, n
<1>11. g[Len(s)] \in Seq(S) /\ Each(v, g[Len(s)]) = Each(v, s)
  BY <1>0, <1>10, MergeKeeps
<1> QED BY <1>7, <1>11 DEF n
-----------------------------------------------------------------------------
(* What is read of the texts                                               *)

EntryOf(t, fmt, ins, del) == [t |-> t, fmt |-> fmt, ins |-> ins, del |-> del]

(* What g reads of a text in two parts is what it reads of the parts.      *)
Additive(g, W) ==
  /\ g \in [Entry -> Seq(W)]
  /\ \A a, b \in Text : \A fmt \in Format : \A ins, del \in Holder :
       BothTexts(a, b) => g[EntryOf(JoinTexts(a, b), fmt, ins, del)]
                            = g[EntryOf(a, fmt, ins, del)] \o g[EntryOf(b, fmt, ins, del)]

OfText(g, fmt, ins, del) == [t \in Text |-> g[EntryOf(t, fmt, ins, del)]]

LEMMA OfTextTyped ==
  ASSUME NEW W, NEW g, Additive(g, W), NEW fmt \in Format, NEW ins \in Holder, NEW del \in Holder
  PROVE  SplitsTexts(OfText(g, fmt, ins, del), Text, W)
<1>1. \A t \in Text : EntryOf(t, fmt, ins, del) \in Entry
  BY DEF EntryOf, Entry
<1>2. ASSUME NEW a \in Text, NEW b \in Text PROVE JoinTexts(a, b) \in Text
  <2>1. a.text \in Seq(Char) /\ b.text \in Seq(Char)
    BY DEF Text
  <2>2. a.text \o b.text \in Seq(Char)
    BY <2>1, ConcatProperties
  <2>3. EdgeIn(a.text \o b.text, {"space"}) \in BOOLEAN
    BY DEF EdgeIn
  <2> QED BY <2>2, <2>3 DEF JoinTexts, T, Text
<1> DEFINE v == OfText(g, fmt, ins, del)
<1>3. v \in [Text -> Seq(W)] /\ \A t \in Text : v[t] = g[EntryOf(t, fmt, ins, del)]
  BY <1>1 DEF OfText, Additive
<1> HIDE DEF v
<1>4. \A a, b \in Text : BothTexts(a, b) => v[JoinTexts(a, b)] = v[a] \o v[b]
  <2>1. \A a, b \in Text : BothTexts(a, b) => g[EntryOf(JoinTexts(a, b), fmt, ins, del)]
                            = g[EntryOf(a, fmt, ins, del)] \o g[EntryOf(b, fmt, ins, del)]
    BY DEF Additive
  <2> QED BY <1>2, <1>3, <2>1
<1> QED BY <1>2, <1>3, <1>4 DEF v, SplitsTexts

LEMMA RunReads ==
  ASSUME NEW W, NEW g, Additive(g, W), NEW run \in RunNode, NEW ins \in Holder, NEW del \in Holder
  PROVE  /\ Each(g, RunTexts(run, ins, del)) = Each(OfText(g, run.fmt, ins, del), run.ts)
         /\ Each(g, RunTexts(run, ins, del)) \in Seq(W)
<1>1. run.ts \in Seq(Text) /\ run.fmt \in Format
  BY DEF RunNode
<1> DEFINE v == OfText(g, run.fmt, ins, del)
           rt == RunTexts(run, ins, del)
<1>2. v \in [Text -> Seq(W)]
  BY <1>1, OfTextTyped DEF SplitsTexts
<1>3. DOMAIN rt = DOMAIN run.ts /\ rt \in Seq(Entry)
  BY RunTextsTyped
<1>4. \A k \in DOMAIN run.ts : run.ts[k] \in Text
  BY <1>1, LenProperties
<1>5. \A k \in DOMAIN rt : g[rt[k]] = v[run.ts[k]]
  BY <1>3, <1>4 DEF RunTexts, EntryOf, OfText
<1> HIDE DEF v, rt
<1>6. Each(g, rt) = Each(v, run.ts)
  BY <1>3, <1>5, EachSame
<1>7. Each(v, run.ts) \in Seq(W)
  BY <1>1, <1>2, EachTyped
<1> QED BY <1>6, <1>7 DEF v, rt

LEMMA ConsolidateKeeps ==
  ASSUME NEW W, NEW g, Additive(g, W), NEW run \in RunNode, NEW ins \in Holder, NEW del \in Holder
  PROVE  /\ ConsolidateText(run) \in RunNode
         /\ Each(g, RunTexts(ConsolidateText(run), ins, del)) = Each(g, RunTexts(run, ins, del))
<1> DEFINE c == ConsolidateText(run)
           v == OfText(g, run.fmt, ins, del)
           ts == Merged(BothTexts, JoinTexts, run.ts)
<1>1. run.ts \in Seq(Text) /\ run.fmt \in Format
  BY DEF RunNode
<1>2. SplitsTexts(v, Text, W)
  BY <1>1, OfTextTyped
<1> HIDE DEF v
<1>3. ts \in Seq(Text) /\ Each(v, ts) = Each(v, run.ts)
  BY <1>1, <1>2, MergeTextsKeeps
<1>4. c = [run EXCEPT !.ts = ts]
  BY Zenon DEF ConsolidateText
<1> HIDE DEF c, ts
<1>5. c \in RunNode /\ c.ts = ts /\ c.fmt = run.fmt
  BY <1>3, <1>4 DEF RunNode
<1>6. Each(g, RunTexts(c, ins, del)) = Each(v, ts)
  BY <1>5, RunReads DEF v
<1>7. Each(g, RunTexts(run, ins, del)) = Each(v, run.ts)
  BY RunReads DEF v
<1> QED BY <1>3, <1>5, <1>6, <1>7 DEF c

LEMMA RunsMergeKeeps ==
  ASSUME NEW W, NEW g, Additive(g, W), NEW a \in RunNode, NEW b \in RunNode, CanMerge(a, b),
         NEW ins \in Holder, NEW del \in Holder
  PROVE  /\ MergeRunContent(a, b) \in RunNode
         /\ Each(g, RunTexts(MergeRunContent(a, b), ins, del))
              = Each(g, RunTexts(a, ins, del)) \o Each(g, RunTexts(b, ins, del))
<1> DEFINE c == MergeRunContent(a, b)
           v == OfText(g, a.fmt, ins, del)
<1>1. a.ts \in Seq(Text) /\ b.ts \in Seq(Text) /\ a.fmt \in Format /\ a.fmt = b.fmt
  BY DEF RunNode, CanMerge
<1>2. a.ts \o b.ts \in Seq(Text)
  BY <1>1, ConcatProperties
<1>3. c \in RunNode /\ c.ts = a.ts \o b.ts /\ c.fmt = a.fmt
  BY <1>2 DEF RunNode, MergeRunContent
<1> HIDE DEF c
<1>4. v \in [Text -> Seq(W)]
  BY <1>1, OfTextTyped DEF SplitsTexts
<1>5. ASSUME NEW r \in RunNode, r.fmt = a.fmt
      PROVE  Each(g, RunTexts(r, ins, del)) = Each(v, r.ts)
  BY <1>5, RunReads
<1> HIDE DEF v
<1>6. Each(v, a.ts \o b.ts) = Each(v, a.ts) \o Each(v, b.ts)
  BY <1>1, <1>4, EachConcat
<1> QED BY <1>1, <1>3, <1>5, <1>6 DEF c

(* G reads nodes, of which the runs lie in an insertion and a deletion.    *)
Reads(G, N, W, g, ins, del) ==
  /\ G \in [N -> Seq(W)] /\ PlainNode \subseteq N
  /\ \A n \in N : n.kind = "run" => n \in RunNode
  /\ \A n \in RunNode : G[n] = Each(g, RunTexts(n, ins, del))
  /\ G[ProofErr] = <<>>

LEMMA WithoutProofErrKeeps ==
  ASSUME NEW N, NEW W, NEW G \in [N -> Seq(W)], G[ProofErr] = <<>>, NEW nodes \in Seq(N)
  PROVE  WithoutProofErr(nodes) \in Seq(N) /\ Each(G, WithoutProofErr(nodes)) = Each(G, nodes)
<1> DEFINE F == [n \in N |-> IF n = ProofErr THEN <<>> ELSE <<n>>]
           GF == Through(G, F, N)
<1>1. F \in [N -> Seq(N)]
  <2>1. \A n \in N : <<>> \in Seq(N) /\ <<n>> \in Seq(N)
    OBVIOUS
  <2> QED BY <2>1
<1>2. \A k \in DOMAIN nodes : nodes[k] \in N
  BY LenProperties
<1>3. WithoutProofErr(nodes) = Each(F, nodes)
  <2>1. [i \in DOMAIN nodes |-> IF nodes[i] = ProofErr THEN <<>> ELSE <<nodes[i]>>] = Mapped(F, nodes)
    BY <1>2 DEF Mapped
  <2> QED BY <2>1, Zenon DEF WithoutProofErr, Each
<1>4. ASSUME NEW n \in N PROVE Each(G, F[n]) = G[n]
  <2>1. CASE n = ProofErr
    BY <2>1, EachEmpty
  <2>2. CASE n # ProofErr
    <3>1. F[n] = <<n>>
      BY <2>2
    <3>2. Each(G, <<n>>) = G[n]
      BY EachSingle
    <3> QED BY <3>1, <3>2
  <2> QED BY <2>1, <2>2
<1>5. \A k \in DOMAIN nodes : GF[nodes[k]] = G[nodes[k]]
  BY <1>2, <1>4 DEF Through
<1> HIDE DEF F
<1>6. Composes(G, F, N, nodes)
  BY <1>1, EachOfEach
<1> HIDE DEF GF
<1>7. Each(GF, nodes) = Each(G, nodes)
  BY <1>5, EachSame
<1>8. Each(F, nodes) \in Seq(N)
  BY <1>1, EachTyped
<1>9. Each(G, Each(F, nodes)) = Each(GF, nodes)
  BY <1>6 DEF Composes, GF
<1> QED BY <1>3, <1>7, <1>8, <1>9

(* Nodes changed one by one, so that each reads as before.                 *)
LEMMA ChangedOneByOne ==
  ASSUME NEW N, NEW G, NEW s \in Seq(N), NEW t, DOMAIN t = DOMAIN s,
         \A k \in DOMAIN s : t[k] \in N /\ G[t[k]] = G[s[k]], t = [k \in DOMAIN t |-> t[k]]
  PROVE  t \in Seq(N) /\ Each(G, t) = Each(G, s)
<1>1. DOMAIN s = 1 .. Len(s) /\ Len(s) \in Nat
  BY LenProperties
<1>2. t \in [1 .. Len(s) -> N]
  BY <1>1
<1>3. t \in Seq(N)
  BY <1>1, <1>2, SeqDef
<1>4. Each(G, t) = Each(G, s)
  BY EachSame
<1> QED BY <1>3, <1>4

LEMMA MergeRunsInKeeps ==
  ASSUME NEW N, NEW W, NEW g, Additive(g, W), NEW ins \in Holder, NEW del \in Holder,
         NEW G, Reads(G, N, W, g, ins, del), NEW nodes \in Seq(N)
  PROVE  MergeRunsIn(nodes) \in Seq(N) /\ Each(G, MergeRunsIn(nodes)) = Each(G, nodes)
<1> DEFINE s == WithoutProofErr(nodes)
           m == Merged(CanMerge, MergeRunContent, s)
           t == OnInnerRuns(ConsolidateText, m)
<1>0. /\ G \in [N -> Seq(W)] /\ PlainNode \subseteq N
      /\ \A n \in N : n.kind = "run" => n \in RunNode
      /\ \A n \in RunNode : G[n] = Each(g, RunTexts(n, ins, del))
      /\ G[ProofErr] = <<>>
  BY Zenon DEF Reads
<1>1. s \in Seq(N) /\ Each(G, s) = Each(G, nodes)
  BY <1>0, WithoutProofErrKeeps, ZenonT(40)
<1>2. SplitsRuns(G, N, W)
  <2>1. ASSUME NEW a \in N, NEW b \in N, CanMerge(a, b)
        PROVE  MergeRunContent(a, b) \in N /\ G[MergeRunContent(a, b)] = G[a] \o G[b]
    <3>1. a \in RunNode /\ b \in RunNode
      BY <1>0, <2>1 DEF CanMerge
    <3>2. /\ MergeRunContent(a, b) \in RunNode
          /\ Each(g, RunTexts(MergeRunContent(a, b), ins, del))
               = Each(g, RunTexts(a, ins, del)) \o Each(g, RunTexts(b, ins, del))
      BY <2>1, <3>1, RunsMergeKeeps
    <3>3. RunNode \subseteq N
      BY <1>0, NodesNest
    <3> QED BY <1>0, <3>1, <3>2, <3>3
  <2> QED BY <1>0, <2>1 DEF SplitsRuns
<1> HIDE DEF s
<1>3. m \in Seq(N) /\ Each(G, m) = Each(G, s)
  BY <1>1, <1>2, MergeRunsKeeps
<1> HIDE DEF m
<1>4. t = [k \in DOMAIN m |-> IF m[k].kind = "run" THEN ConsolidateText(m[k]) ELSE m[k]]
  BY Zenon DEF OnInnerRuns
<1> HIDE DEF t
<1>5. DOMAIN t = DOMAIN m /\ t = [k \in DOMAIN t |-> t[k]]
  BY <1>4
<1>6. ASSUME NEW k \in DOMAIN m PROVE t[k] \in N /\ G[t[k]] = G[m[k]]
  <2>1. m[k] \in N
    BY <1>3, LenProperties
  <2>2. CASE m[k].kind = "run"
    <3>1. m[k] \in RunNode /\ t[k] = ConsolidateText(m[k])
      BY <1>0, <1>4, <2>1, <2>2
    <3>2. /\ ConsolidateText(m[k]) \in RunNode
          /\ Each(g, RunTexts(ConsolidateText(m[k]), ins, del)) = Each(g, RunTexts(m[k], ins, del))
      BY <3>1, ConsolidateKeeps
    <3>3. RunNode \subseteq N
      BY <1>0, NodesNest
    <3> QED BY <1>0, <3>1, <3>2, <3>3
  <2>3. CASE m[k].kind # "run"
    BY <1>4, <2>1, <2>3
  <2> QED BY <2>2, <2>3
<1>7. t \in Seq(N) /\ Each(G, t) = Each(G, m)
  BY <1>3, <1>5, <1>6, ChangedOneByOne
<1>8. MergeRunsIn(nodes) = t
  BY Zenon DEF MergeRunsIn, t, m, s
<1> QED BY <1>1, <1>3, <1>7, <1>8

(* What g reads of a node at each depth.                                   *)
PlainReads(g, ins, del) == Through(g, TextsOfPlain(ins, del), PlainNode)
MidReads(g, N, ins, del) == Through(g, TextsOfMid(N, ins, del), N)
NodeReads(g) == Through(g, TextsOfNode, Node)

(* A function of the texts of nodes that g goes through.                   *)
LEMMA ReadsThrough ==
  ASSUME NEW W, NEW g \in [Entry -> Seq(W)], NEW ins \in Holder, NEW del \in Holder,
         NEW N, PlainNode \subseteq N, \A n \in N : n.kind = "run" => n \in RunNode,
         NEW F \in [N -> Seq(Entry)], \A n \in RunNode : F[n] = RunTexts(n, ins, del), F[ProofErr] = <<>>
  PROVE  Reads(Through(g, F, N), N, W, g, ins, del)
<1>1. g \in [Entry -> Seq(W)]
  OBVIOUS
<1>2. \A n \in N : Each(g, F[n]) \in Seq(W)
  BY <1>1, EachTyped
<1>3. Through(g, F, N) \in [N -> Seq(W)] /\ \A n \in N : Through(g, F, N)[n] = Each(g, F[n])
  BY <1>2 DEF Through
<1>4. RunNode \subseteq N /\ ProofErr \in N
  BY NodesNest
<1>5. Each(g, <<>>) = <<>>
  BY EachEmpty
<1> QED BY <1>3, <1>4, <1>5 DEF Reads

LEMMA PlainReadsWell ==
  ASSUME NEW W, NEW g \in [Entry -> Seq(W)], NEW ins \in Holder, NEW del \in Holder
  PROVE  /\ Reads(PlainReads(g, ins, del), PlainNode, W, g, ins, del)
         /\ \A nodes \in Seq(PlainNode) : Each(g, InnerTexts(nodes, ins, del)) = Each(PlainReads(g, ins, del), nodes)
<1> DEFINE F == TextsOfPlain(ins, del)
<1>1. F \in [PlainNode -> Seq(Entry)]
  BY InnerTextsAre
<1>2. (\A n \in RunNode : F[n] = RunTexts(n, ins, del)) /\ F[ProofErr] = <<>>
  <2>1. \A n \in RunNode : n.kind = "run" /\ n \in PlainNode
    BY NodesNest DEF RunNode
  <2>2. ProofErr.kind # "run" /\ ProofErr \in PlainNode
    BY NodesNest DEF ProofErr
  <2> QED BY <2>1, <2>2 DEF TextsOfPlain
<1>3. \A n \in PlainNode : n.kind = "run" => n \in RunNode
  BY NodesNest
<1> HIDE DEF F
<1>4. Reads(Through(g, F, PlainNode), PlainNode, W, g, ins, del)
  BY <1>1, <1>2, <1>3, ReadsThrough
<1>5. ASSUME NEW nodes \in Seq(PlainNode)
      PROVE  Each(g, InnerTexts(nodes, ins, del)) = Each(Through(g, F, PlainNode), nodes)
  <2>1. InnerTexts(nodes, ins, del) = Each(F, nodes)
    BY InnerTextsAre DEF F
  <2>2. g \in [Entry -> Seq(W)]
    OBVIOUS
  <2>3. Composes(g, F, PlainNode, nodes)
    BY <1>1, <2>2, EachOfEach
  <2> QED BY <2>1, <2>3 DEF Composes
<1> QED BY <1>4, <1>5 DEF PlainReads, F

LEMMA MidReadsWell ==
  ASSUME NEW W, NEW g \in [Entry -> Seq(W)], NEW ins \in Holder, NEW del \in Holder,
         NEW N \in SUBSET MidNode, PlainNode \subseteq N
  PROVE  /\ Reads(MidReads(g, N, ins, del), N, W, g, ins, del)
         /\ \A nodes \in Seq(N) : Each(g, WrapTexts(nodes, ins, del)) = Each(MidReads(g, N, ins, del), nodes)
<1> DEFINE F == TextsOfMid(N, ins, del)
<1>1. F \in [N -> Seq(Entry)]
  BY WrapTextsAre
<1>2. (\A n \in RunNode : F[n] = RunTexts(n, ins, del)) /\ F[ProofErr] = <<>>
  <2>1. \A n \in RunNode : n.kind = "run" /\ n \in N
    BY NodesNest DEF RunNode
  <2>2. ProofErr.kind \notin {"run", "ins", "del"} /\ ProofErr \in N
    BY NodesNest DEF ProofErr
  <2> QED BY <2>1, <2>2 DEF TextsOfMid
<1>3. \A n \in N : n.kind = "run" => n \in RunNode
  BY NodesNest
<1> HIDE DEF F
<1>4. Reads(Through(g, F, N), N, W, g, ins, del)
  BY <1>1, <1>2, <1>3, ReadsThrough
<1>5. ASSUME NEW nodes \in Seq(N)
      PROVE  Each(g, WrapTexts(nodes, ins, del)) = Each(Through(g, F, N), nodes)
  <2>1. WrapTexts(nodes, ins, del) = Each(F, nodes)
    BY WrapTextsAre DEF F
  <2>2. g \in [Entry -> Seq(W)]
    OBVIOUS
  <2>3. Composes(g, F, N, nodes)
    BY <1>1, <2>2, EachOfEach
  <2> QED BY <2>1, <2>3 DEF Composes
<1> QED BY <1>4, <1>5 DEF MidReads, F

LEMMA NodeReadsWell ==
  ASSUME NEW W, NEW g \in [Entry -> Seq(W)]
  PROVE  /\ Reads(NodeReads(g), Node, W, g, NoAuthor, NoAuthor)
         /\ \A nodes \in Seq(Node) : Each(g, Texts(nodes)) = Each(NodeReads(g), nodes)
<1> DEFINE F == TextsOfNode
<1>1. F \in [Node -> Seq(Entry)]
  BY TextsAre
<1>2. (\A n \in RunNode : F[n] = RunTexts(n, NoAuthor, NoAuthor)) /\ F[ProofErr] = <<>>
  <2>1. \A n \in RunNode : n.kind = "run" /\ n \in Node
    BY NodesNest DEF RunNode
  <2>2. ProofErr.kind \notin {"run", "ins", "del"} /\ ProofErr \in Node
    BY NodesNest DEF ProofErr
  <2> QED BY <2>1, <2>2 DEF TextsOfNode
<1>3. (\A n \in Node : n.kind = "run" => n \in RunNode) /\ PlainNode \subseteq Node /\ NoAuthor \in Holder
  BY NodesNest, HoldersAre
<1> HIDE DEF F
<1>4. Reads(Through(g, F, Node), Node, W, g, NoAuthor, NoAuthor)
  BY <1>1, <1>2, <1>3, ReadsThrough
<1>5. ASSUME NEW nodes \in Seq(Node)
      PROVE  Each(g, Texts(nodes)) = Each(Through(g, F, Node), nodes)
  <2>1. Texts(nodes) = Each(F, nodes)
    BY TextsAre DEF F
  <2>2. g \in [Entry -> Seq(W)]
    OBVIOUS
  <2>3. Composes(g, F, Node, nodes)
    BY <1>1, <2>2, EachOfEach
  <2> QED BY <2>1, <2>3 DEF Composes
<1> QED BY <1>4, <1>5 DEF NodeReads, F

(* A wrapper with other nodes in it.                                       *)
WithKids(n, kids) == [n EXCEPT !.kids = kids]

LEMMA NodeWithKids ==
  ASSUME NEW n \in Node, IsWrap(n), NEW kids \in Seq(KidsOf(n.kind))
  PROVE  /\ WithKids(n, kids) \in Node /\ WithKids(n, kids).kids = kids
         /\ WithKids(n, kids).kind = n.kind /\ WithKids(n, kids).author = n.author
<1> DEFINE I == PlainNode \cup Wrap("del", PlainNode)
           D == PlainNode \cup Wrap("ins", PlainNode)
<1>1. \/ n \in [kind : {"ins"}, author : Person, kids : Seq(I)] /\ KidsOf(n.kind) = I
      \/ n \in [kind : {"del"}, author : Person, kids : Seq(D)] /\ KidsOf(n.kind) = D
  <2>1. n \notin PlainNode
    BY NodesNest
  <2>2. n \in Wrap("ins", I) \/ n \in Wrap("del", D)
    BY <2>1 DEF Node
  <2>3. (n \in Wrap("ins", I) => n.kind = "ins") /\ (n \in Wrap("del", D) => n.kind = "del")
    <3> HIDE DEF I, D
    <3> QED BY DEF Wrap
  <2>4. KidsOf("ins") = I /\ KidsOf("del") = D
    BY DEF KidsOf
  <2> HIDE DEF I, D
  <2> QED BY <2>2, <2>3, <2>4 DEF Wrap
<1>2. Wrap("ins", I) \cup Wrap("del", D) \subseteq Node
  BY DEF Node
<1> HIDE DEF I, D
<1> QED BY <1>1, <1>2 DEF WithKids, Wrap

LEMMA KidWithKids ==
  ASSUME NEW kind, NEW n \in KidsOf(kind), IsWrap(n), NEW kids \in Seq(PlainNode)
  PROVE  /\ WithKids(n, kids) \in KidsOf(kind) /\ WithKids(n, kids).kids = kids
         /\ WithKids(n, kids).kind = n.kind /\ WithKids(n, kids).author = n.author
<1>1. n \notin PlainNode
  BY NodesNest
<1>2. PICK k \in {"ins", "del"} : n \in Wrap(k, PlainNode) /\ Wrap(k, PlainNode) \subseteq KidsOf(kind)
  BY <1>1 DEF KidsOf
<1> QED BY <1>2 DEF WithKids, Wrap

(* What g reads of a wrapper is what it reads of the nodes in it, deeper.  *)
InsOf(n, ins) == IF n.kind = "ins" THEN n.author ELSE ins
DelOf(n, del) == IF n.kind = "del" THEN n.author ELSE del

NodeWrapped(g, n) ==
  /\ InsOf(n, NoAuthor) \in Holder /\ DelOf(n, NoAuthor) \in Holder
  /\ n.kids \in Seq(KidsOf(n.kind))
  /\ NodeReads(g)[n] = Each(MidReads(g, KidsOf(n.kind), InsOf(n, NoAuthor), DelOf(n, NoAuthor)), n.kids)
MidWrapped(g, N, ins, del, n) ==
  /\ InsOf(n, ins) \in Holder /\ DelOf(n, del) \in Holder
  /\ n.kids \in Seq(PlainNode)
  /\ MidReads(g, N, ins, del)[n] = Each(PlainReads(g, InsOf(n, ins), DelOf(n, del)), n.kids)

LEMMA NodeReadsWrap ==
  ASSUME NEW W, NEW g \in [Entry -> Seq(W)], NEW n \in Node, IsWrap(n)
  PROVE  NodeWrapped(g, n)
<1> DEFINE ins == InsOf(n, NoAuthor)
           del == DelOf(n, NoAuthor)
           N == KidsOf(n.kind)
<1>1. n.kids \in Seq(N) /\ n.author \in Holder /\ N \in SUBSET MidNode /\ PlainNode \subseteq N
  BY NodesNest, HoldersAre
<1>2. ins \in Holder /\ del \in Holder
  BY <1>1, HoldersAre DEF InsOf, DelOf
<1>3. NodeReads(g)[n] = Each(g, TextsOfNode[n])
  BY DEF NodeReads, Through
<1>4. TextsOfNode[n] = WrapTexts(n.kids, ins, del)
  BY DEF TextsOfNode, InsOf, DelOf, IsWrap
<1> HIDE DEF NodeWrapped, ins, del, N
<1>5. Each(g, WrapTexts(n.kids, ins, del)) = Each(MidReads(g, N, ins, del), n.kids)
  BY <1>1, <1>2, MidReadsWell, SMTT(20)
<1> QED BY <1>1, <1>2, <1>3, <1>4, <1>5 DEF NodeWrapped, ins, del, N

LEMMA MidReadsWrap ==
  ASSUME NEW W, NEW g \in [Entry -> Seq(W)], NEW ins \in Holder, NEW del \in Holder,
         NEW N \in SUBSET MidNode, NEW n \in N, IsWrap(n)
  PROVE  MidWrapped(g, N, ins, del, n)
<1> DEFINE i == InsOf(n, ins)
           d == DelOf(n, del)
<1>1. n.kids \in Seq(PlainNode) /\ n.author \in Holder
  BY NodesNest, HoldersAre
<1>2. i \in Holder /\ d \in Holder
  BY <1>1 DEF InsOf, DelOf
<1>3. MidReads(g, N, ins, del)[n] = Each(g, TextsOfMid(N, ins, del)[n])
  BY DEF MidReads, Through
<1>4. TextsOfMid(N, ins, del)[n] = InnerTexts(n.kids, i, d)
  BY DEF TextsOfMid, InsOf, DelOf, IsWrap
<1> HIDE DEF MidWrapped, i, d
<1>5. Each(g, InnerTexts(n.kids, i, d)) = Each(PlainReads(g, i, d), n.kids)
  BY <1>1, <1>2, PlainReadsWell
<1> QED BY <1>1, <1>2, <1>3, <1>4, <1>5 DEF MidWrapped, i, d

LEMMA TrackedMergeKeeps ==
  ASSUME NEW W, NEW g, Additive(g, W)
  PROVE  SplitsTracked(NodeReads(g), Node, W)
<1>0. g \in [Entry -> Seq(W)]
  BY DEF Additive
<1> DEFINE G == NodeReads(g)
<1>1. G \in [Node -> Seq(W)]
  BY <1>0, NodeReadsWell, Zenon DEF Reads
<1>2. ASSUME NEW a \in Node, NEW b \in Node, CanMergeTracked(a, b)
      PROVE  MergeTracked(a, b) \in Node /\ G[MergeTracked(a, b)] = G[a] \o G[b]
  <2> DEFINE N == KidsOf(a.kind)
             ins == InsOf(a, NoAuthor)
             del == DelOf(a, NoAuthor)
             R == MidReads(g, N, ins, del)
             c == WithKids(a, a.kids \o b.kids)
  <2>1. IsWrap(a) /\ IsWrap(b) /\ a.kind = b.kind /\ a.author = b.author
    BY <1>2 DEF CanMergeTracked, IsWrap
  <2>2. MergeTracked(a, b) = c
    BY DEF MergeTracked, WithKids
  <2>a. NodeWrapped(g, a) /\ NodeWrapped(g, b)
    BY <1>0, <2>1, NodeReadsWrap
  <2>3. /\ ins \in Holder /\ del \in Holder /\ ins = InsOf(b, NoAuthor) /\ del = DelOf(b, NoAuthor)
        /\ a.kids \in Seq(N) /\ b.kids \in Seq(N)
    BY <2>1, <2>a DEF NodeWrapped, InsOf, DelOf
  <2>4. G[a] = Each(R, a.kids) /\ G[b] = Each(R, b.kids)
    BY <2>1, <2>3, <2>a DEF NodeWrapped
  <2>5. R \in [N -> Seq(W)]
    <3>1. N \in SUBSET MidNode /\ PlainNode \subseteq N
      BY NodesNest
    <3> QED BY <1>0, <2>3, <3>1, MidReadsWell, Zenon DEF Reads
  <2> HIDE DEF R
  <2>6. a.kids \o b.kids \in Seq(N) /\ Each(R, a.kids \o b.kids) = Each(R, a.kids) \o Each(R, b.kids)
    <3> DEFINE x == a.kids
               y == b.kids
    <3>1. x \in Seq(N) /\ y \in Seq(N)
      BY <2>3
    <3> HIDE DEF N, x, y
    <3>2. x \o y \in Seq(N)
      BY <3>1, ConcatProperties
    <3>3. Each(R, x \o y) = Each(R, x) \o Each(R, y)
      BY <2>5, <3>1, EachConcat
    <3> QED BY <3>2, <3>3 DEF x, y
  <2>7. /\ c \in Node /\ c.kids = a.kids \o b.kids /\ c.kind = a.kind /\ c.author = a.author
    BY <2>1, <2>6, NodeWithKids
  <2> HIDE DEF c
  <2>8. IsWrap(c) /\ ins = InsOf(c, NoAuthor) /\ del = DelOf(c, NoAuthor) /\ N = KidsOf(c.kind)
    BY <2>1, <2>7 DEF IsWrap, InsOf, DelOf
  <2>9. G[c] = Each(R, c.kids)
    <3>1. NodeWrapped(g, c)
      BY <1>0, <2>7, <2>8, NodeReadsWrap
    <3> QED BY <2>8, <3>1 DEF NodeWrapped, R
  <2> QED BY <2>2, <2>4, <2>6, <2>7, <2>9
<1> QED BY <1>1, <1>2 DEF SplitsTracked

LEMMA EachTypedSeq ==
  ASSUME NEW S, NEW s \in Seq(S), NEW t, DOMAIN t = DOMAIN s, t = [p \in DOMAIN t |-> t[p]],
         NEW R, \A p \in DOMAIN s : t[p] \in R
  PROVE  t \in Seq(R)
<1>1. DOMAIN s = 1 .. Len(s) /\ Len(s) \in Nat
  BY LenProperties
<1>2. t \in [1 .. Len(s) -> R]
  BY <1>1
<1> QED BY <1>1, <1>2, SeqDef

(* simplify_redlines                                                       *)
LEMMA SimplifyKeeps ==
  ASSUME NEW W, NEW g, Additive(g, W), NEW b \in Body
  PROVE  /\ Simplify(b) \in Body /\ DOMAIN Simplify(b) = DOMAIN b
         /\ \A p \in DOMAIN b : Each(g, Texts(Simplify(b)[p])) = Each(g, Texts(b[p]))
<1>0. g \in [Entry -> Seq(W)]
  BY DEF Additive
<1> DEFINE G == NodeReads(g)
           M(s) == Merged(CanMergeTracked, MergeTracked, s)
<1>1. \A p \in DOMAIN b : b[p] \in Seq(Node)
  BY LenProperties DEF Body
<1>2. SplitsTracked(G, Node, W)
  BY TrackedMergeKeeps
<1>3. ASSUME NEW p \in DOMAIN b PROVE M(b[p]) \in Seq(Node) /\ Each(G, M(b[p])) = Each(G, b[p])
  <2> DEFINE s == b[p]
  <2>1. s \in Seq(Node)
    BY <1>1
  <2> HIDE DEF s, G
  <2>2. M(s) \in Seq(Node) /\ Each(G, M(s)) = Each(G, s)
    BY <1>2, <2>1, MergeTrackedKeeps
  <2> QED BY <2>2 DEF s, G
<1>4. Simplify(b) = [p \in DOMAIN b |-> M(b[p])]
  BY Zenon DEF Simplify
<1>5. DOMAIN Simplify(b) = DOMAIN b /\ \A p \in DOMAIN b : Simplify(b)[p] = M(b[p])
  BY <1>4
<1>6. DOMAIN b = 1 .. Len(b) /\ Len(b) \in Nat
  BY LenProperties DEF Body
<1>7. Simplify(b) \in Body
  <2> DEFINE sb == Simplify(b)
  <2>1. sb = [p \in DOMAIN sb |-> sb[p]] /\ DOMAIN sb = DOMAIN b
    BY <1>4
  <2>2. \A p \in DOMAIN b : sb[p] \in Seq(Node)
    BY <1>3, <1>5
  <2> HIDE DEF sb
  <2> QED BY <2>1, <2>2, EachTypedSeq DEF Body, sb
<1>8. \A p \in DOMAIN b : Each(g, Texts(Simplify(b)[p])) = Each(g, Texts(b[p]))
  <2>1. \A s \in Seq(Node) : Each(g, Texts(s)) = Each(G, s)
    BY <1>0, NodeReadsWell
  <2> HIDE DEF M, G
  <2> QED BY <1>1, <1>3, <1>5, <2>1
<1> QED BY <1>5, <1>7, <1>8

(* merge_runs, in a wrapper and in a paragraph.                            *)
MergeInWrap(nodes) ==
  [i \in DOMAIN nodes |-> IF IsWrap(nodes[i]) THEN WithKids(nodes[i], MergeRunsIn(nodes[i].kids)) ELSE nodes[i]]
MergeInParagraph(nodes) ==
  [i \in DOMAIN nodes |->
     IF IsWrap(nodes[i]) THEN WithKids(nodes[i], MergeInWrap(MergeRunsIn(nodes[i].kids))) ELSE nodes[i]]

LEMMA MergeInWrapKeeps ==
  ASSUME NEW W, NEW g, Additive(g, W), NEW ins \in Holder, NEW del \in Holder,
         NEW kind, NEW nodes \in Seq(KidsOf(kind))
  PROVE  /\ MergeInWrap(nodes) \in Seq(KidsOf(kind))
         /\ Each(MidReads(g, KidsOf(kind), ins, del), MergeInWrap(nodes)) = Each(MidReads(g, KidsOf(kind), ins, del), nodes)
<1>0. g \in [Entry -> Seq(W)]
  BY DEF Additive
<1> DEFINE N == KidsOf(kind)
           G == MidReads(g, N, ins, del)
           t == MergeInWrap(nodes)
<1>1. N \in SUBSET MidNode /\ PlainNode \subseteq N
  BY NodesNest
<1>2. DOMAIN t = DOMAIN nodes /\ t = [k \in DOMAIN t |-> t[k]]
  BY DEF MergeInWrap
<1>3. ASSUME NEW k \in DOMAIN nodes PROVE t[k] \in N /\ G[t[k]] = G[nodes[k]]
  <2> DEFINE n == nodes[k]
             kids == MergeRunsIn(n.kids)
             c == WithKids(n, kids)
  <2>1. n \in N
    BY LenProperties
  <2>2. CASE ~IsWrap(n)
    BY <2>1, <2>2 DEF MergeInWrap
  <2>3. CASE IsWrap(n)
    <3> DEFINE i == InsOf(n, ins)
               d == DelOf(n, del)
               P == PlainReads(g, i, d)
    <3>a. MidWrapped(g, N, ins, del, n)
      <4> HIDE DEF n, N
      <4> QED BY <1>0, <1>1, <2>1, <2>3, MidReadsWrap
    <3>1. i \in Holder /\ d \in Holder /\ n.kids \in Seq(PlainNode) /\ G[n] = Each(P, n.kids)
      BY <3>a DEF MidWrapped
    <3>2. Reads(P, PlainNode, W, g, i, d)
      BY <1>0, <3>1, PlainReadsWell
    <3> HIDE DEF P, i, d, n
    <3>3. kids \in Seq(PlainNode) /\ Each(P, kids) = Each(P, n.kids)
      BY <3>1, <3>2, MergeRunsInKeeps
    <3> HIDE DEF kids
    <3>4. c \in N /\ c.kids = kids /\ c.kind = n.kind /\ c.author = n.author
      BY <2>1, <2>3, <3>3, KidWithKids
    <3> HIDE DEF c
    <3>5. IsWrap(c) /\ InsOf(c, ins) = i /\ DelOf(c, del) = d
      BY <2>3, <3>4 DEF IsWrap, InsOf, DelOf, i, d
    <3>6. G[c] = Each(P, kids)
      <4>1. MidWrapped(g, N, ins, del, c)
        <5> HIDE DEF N
        <5> QED BY <1>0, <1>1, <3>4, <3>5, MidReadsWrap
      <4> QED BY <3>4, <3>5, <4>1 DEF MidWrapped, P
    <3>7. t[k] = c
      BY <2>3 DEF MergeInWrap, c, kids, n
    <3> QED BY <3>1, <3>3, <3>4, <3>6, <3>7 DEF n
  <2> QED BY <2>2, <2>3
<1> HIDE DEF t, G, N
<1>4. nodes \in Seq(N)
  BY DEF N
<1>5. t \in Seq(N) /\ Each(G, t) = Each(G, nodes)
  BY <1>2, <1>3, <1>4, ChangedOneByOne
<1> QED BY <1>5 DEF t, G, N

LEMMA MergeInParagraphKeeps ==
  ASSUME NEW W, NEW g, Additive(g, W), NEW nodes \in Seq(Node)
  PROVE  /\ MergeInParagraph(nodes) \in Seq(Node)
         /\ Each(NodeReads(g), MergeInParagraph(nodes)) = Each(NodeReads(g), nodes)
<1>0. g \in [Entry -> Seq(W)]
  BY DEF Additive
<1> DEFINE G == NodeReads(g)
           t == MergeInParagraph(nodes)
<1>1. DOMAIN t = DOMAIN nodes /\ t = [k \in DOMAIN t |-> t[k]]
  BY DEF MergeInParagraph
<1>2. ASSUME NEW k \in DOMAIN nodes PROVE t[k] \in Node /\ G[t[k]] = G[nodes[k]]
  <2> DEFINE n == nodes[k]
             N == KidsOf(n.kind)
             i == InsOf(n, NoAuthor)
             d == DelOf(n, NoAuthor)
             R == MidReads(g, N, i, d)
             merged == MergeRunsIn(n.kids)
             kids == MergeInWrap(merged)
             c == WithKids(n, kids)
  <2>1. n \in Node
    BY LenProperties
  <2>2. CASE ~IsWrap(n)
    BY <2>1, <2>2 DEF MergeInParagraph
  <2>3. CASE IsWrap(n)
    <3>1. NodeWrapped(g, n)
      <4> HIDE DEF n
      <4> QED BY <1>0, <2>1, <2>3, NodeReadsWrap
    <3>2. i \in Holder /\ d \in Holder /\ n.kids \in Seq(N) /\ G[n] = Each(R, n.kids)
      BY <3>1 DEF NodeWrapped
    <3>3. N \in SUBSET MidNode /\ PlainNode \subseteq N
      BY NodesNest
    <3> HIDE DEF n
    <3>4. Reads(R, N, W, g, i, d)
      <4> HIDE DEF N, i, d
      <4> QED BY <1>0, <3>2, <3>3, MidReadsWell DEF R
    <3>5. merged \in Seq(N) /\ Each(R, merged) = Each(R, n.kids)
      <4> HIDE DEF N, R, i, d
      <4> QED BY <3>2, <3>4, MergeRunsInKeeps
    <3>6. kids \in Seq(N) /\ Each(R, kids) = Each(R, merged)
      <4> HIDE DEF merged, i, d
      <4> QED BY <3>2, <3>5, MergeInWrapKeeps
    <3>7. t[k] = c
      BY <2>3 DEF MergeInParagraph, n
    <3> HIDE DEF kids
    <3>8. c \in Node /\ c.kids = kids /\ c.kind = n.kind /\ c.author = n.author
      BY <2>1, <2>3, <3>6, NodeWithKids
    <3> HIDE DEF c
    <3>9. IsWrap(c) /\ InsOf(c, NoAuthor) = i /\ DelOf(c, NoAuthor) = d /\ KidsOf(c.kind) = N
      BY <2>3, <3>8 DEF IsWrap, InsOf, DelOf, i, d
    <3>10. NodeWrapped(g, c)
      BY <1>0, <3>8, <3>9, NodeReadsWrap
    <3>11. G[c] = Each(R, kids)
      BY <3>8, <3>9, <3>10 DEF NodeWrapped, R
    <3> QED BY <3>2, <3>5, <3>6, <3>7, <3>8, <3>11 DEF n
  <2> QED BY <2>2, <2>3
<1> HIDE DEF t, G
<1>3. t \in Seq(Node) /\ Each(G, t) = Each(G, nodes)
  BY <1>1, <1>2, ChangedOneByOne
<1> QED BY <1>3 DEF t, G

(* merge_runs                                                              *)
LEMMA MergeRunsKeepsTexts ==
  ASSUME NEW W, NEW g, Additive(g, W), NEW b \in Body
  PROVE  /\ MergeRuns(b) \in Body /\ DOMAIN MergeRuns(b) = DOMAIN b
         /\ \A p \in DOMAIN b : Each(g, Texts(MergeRuns(b)[p])) = Each(g, Texts(b[p]))
<1>0. g \in [Entry -> Seq(W)]
  BY DEF Additive
<1> DEFINE G == NodeReads(g)
           M(s) == MergeInParagraph(MergeRunsIn(s))
           m == MergeRuns(b)
<1>1. m = [p \in DOMAIN b |-> M(b[p])]
  BY Zenon DEF MergeRuns, MergeInParagraph, MergeInWrap, WithKids
<1>2. \A p \in DOMAIN b : b[p] \in Seq(Node)
  BY LenProperties DEF Body
<1>3. /\ Reads(G, Node, W, g, NoAuthor, NoAuthor)
      /\ \A s \in Seq(Node) : Each(g, Texts(s)) = Each(G, s)
  BY <1>0, NodeReadsWell
<1>4. ASSUME NEW s \in Seq(Node) PROVE M(s) \in Seq(Node) /\ Each(G, M(s)) = Each(G, s)
  <2>1. MergeRunsIn(s) \in Seq(Node) /\ Each(G, MergeRunsIn(s)) = Each(G, s)
    <3> HIDE DEF G
    <3> QED BY <1>3, MergeRunsInKeeps, HoldersAre
  <2> QED BY <2>1, MergeInParagraphKeeps
<1>5. DOMAIN m = DOMAIN b /\ m = [p \in DOMAIN m |-> m[p]] /\ \A p \in DOMAIN b : m[p] = M(b[p])
  BY <1>1
<1> HIDE DEF M, G, m
<1>6. m \in Body
  BY <1>2, <1>4, <1>5, EachTypedSeq DEF Body
<1>7. \A p \in DOMAIN b : Each(g, Texts(m[p])) = Each(g, Texts(b[p]))
  BY <1>2, <1>3, <1>4, <1>5
<1> QED BY <1>5, <1>6, <1>7 DEF m

(* unpack                                                                  *)
LEMMA UnpackKeeps ==
  ASSUME NEW W, NEW g, Additive(g, W), NEW b \in Body, NEW simplify \in BOOLEAN, NEW merge \in BOOLEAN
  PROVE  /\ Unpack(b, simplify, merge) \in Body /\ DOMAIN Unpack(b, simplify, merge) = DOMAIN b
         /\ \A p \in DOMAIN b : Each(g, Texts(Unpack(b, simplify, merge)[p])) = Each(g, Texts(b[p]))
<1> DEFINE s == IF simplify THEN Simplify(b) ELSE b
           u == IF merge THEN MergeRuns(s) ELSE s
<1>1. s \in Body /\ DOMAIN s = DOMAIN b /\ \A p \in DOMAIN b : Each(g, Texts(s[p])) = Each(g, Texts(b[p]))
  BY SimplifyKeeps
<1> HIDE DEF s
<1>2. u \in Body /\ DOMAIN u = DOMAIN s /\ \A p \in DOMAIN s : Each(g, Texts(u[p])) = Each(g, Texts(s[p]))
  BY <1>1, MergeRunsKeepsTexts
<1>3. Unpack(b, simplify, merge) = u
  BY Zenon DEF Unpack, u, s
<1> HIDE DEF u
<1> QED BY <1>1, <1>2, <1>3
-----------------------------------------------------------------------------
(* A change of every text: what g reads then, After(f, g) reads before.    *)
RunWith(f, run) == [run EXCEPT !.ts = [k \in DOMAIN @ |-> f[@[k]]]]
InInner(f, nodes) == [i \in DOMAIN nodes |-> IF nodes[i].kind = "run" THEN RunWith(f, nodes[i]) ELSE nodes[i]]
InWrap(f, nodes) ==
  [i \in DOMAIN nodes |-> IF nodes[i].kind = "run" THEN RunWith(f, nodes[i])
                          ELSE IF IsWrap(nodes[i]) THEN WithKids(nodes[i], InInner(f, nodes[i].kids))
                          ELSE nodes[i]]
InParagraph(f, nodes) ==
  [i \in DOMAIN nodes |-> IF nodes[i].kind = "run" THEN RunWith(f, nodes[i])
                          ELSE IF IsWrap(nodes[i]) THEN WithKids(nodes[i], InWrap(f, nodes[i].kids))
                          ELSE nodes[i]]

After(f, g) == [e \in Entry |-> g[EntryOf(f[e.t], e.fmt, e.ins, e.del)]]

LEMMA AfterTyped ==
  ASSUME NEW W, NEW g \in [Entry -> Seq(W)], NEW f \in [Text -> Text]
  PROVE  After(f, g) \in [Entry -> Seq(W)]
BY DEF After, EntryOf, Entry

LEMMA RunWithReads ==
  ASSUME NEW W, NEW g \in [Entry -> Seq(W)], NEW f \in [Text -> Text],
         NEW run \in RunNode, NEW ins \in Holder, NEW del \in Holder
  PROVE  /\ RunWith(f, run) \in RunNode
         /\ Each(g, RunTexts(RunWith(f, run), ins, del)) = Each(After(f, g), RunTexts(run, ins, del))
<1> DEFINE ts == [k \in DOMAIN run.ts |-> f[run.ts[k]]]
           c == RunWith(f, run)
           rt == RunTexts(run, ins, del)
           ct == RunTexts(c, ins, del)
           h == After(f, g)
<1>1. run.ts \in Seq(Text) /\ run.fmt \in Format
  BY DEF RunNode
<1>2. \A k \in DOMAIN run.ts : run.ts[k] \in Text
  BY <1>1, LenProperties
<1>3. ts \in Seq(Text)
  BY <1>1, MapTyped DEF Mapped
<1>4. DOMAIN ts = DOMAIN run.ts /\ \A k \in DOMAIN run.ts : ts[k] = f[run.ts[k]]
  OBVIOUS
<1>5. c \in RunNode /\ c.ts = ts /\ c.fmt = run.fmt
  <2> HIDE DEF ts
  <2>1. c = [run EXCEPT !.ts = ts]
    BY DEF RunWith, ts
  <2> QED BY <1>3, <2>1 DEF RunNode
<1> HIDE DEF ts, c
<1>6. DOMAIN rt = DOMAIN run.ts /\ DOMAIN ct = DOMAIN run.ts
  BY <1>4, <1>5 DEF RunTexts
<1>7. ASSUME NEW k \in DOMAIN run.ts PROVE g[ct[k]] = h[rt[k]]
  <2>1. rt[k] = EntryOf(run.ts[k], run.fmt, ins, del) /\ ct[k] = EntryOf(ts[k], run.fmt, ins, del)
    BY <1>4, <1>5 DEF RunTexts, EntryOf
  <2>2. rt[k] \in Entry
    BY <1>1, <1>2, <2>1 DEF EntryOf, Entry
  <2>3. rt[k].t = run.ts[k] /\ rt[k].fmt = run.fmt /\ rt[k].ins = ins /\ rt[k].del = del
    BY <2>1 DEF EntryOf
  <2> HIDE DEF rt, ct
  <2>4. h[rt[k]] = g[EntryOf(f[rt[k].t], rt[k].fmt, rt[k].ins, rt[k].del)]
    BY <2>2 DEF After
  <2> QED BY <1>4, <2>1, <2>3, <2>4
<1> HIDE DEF rt, ct, h
<1>8. Each(g, ct) = Each(h, rt)
  BY <1>6, <1>7, EachSame
<1> QED BY <1>5, <1>8 DEF rt, ct, h, c

(* Nodes changed one by one, so that another function reads as before.     *)
Matches(G, t, H, s, N) ==
  /\ DOMAIN t = DOMAIN s /\ t = [k \in DOMAIN t |-> t[k]]
  /\ \A k \in DOMAIN s : t[k] \in N /\ G[t[k]] = H[s[k]]

LEMMA ChangedForAnother ==
  ASSUME NEW N, NEW G, NEW H, NEW s \in Seq(N), NEW t, Matches(G, t, H, s, N)
  PROVE  t \in Seq(N) /\ Each(G, t) = Each(H, s)
<1>1. \A k \in DOMAIN s : t[k] \in N
  BY DEF Matches
<1>2. t \in Seq(N)
  BY <1>1, EachTypedSeq DEF Matches
<1>3. Each(G, t) = Each(H, s)
  BY EachSame DEF Matches
<1> QED BY <1>2, <1>3

(* Nodes without text read as nothing.                                     *)
LEMMA NoTextReads ==
  ASSUME NEW g, NEW ins, NEW del
  PROVE  /\ \A n \in PlainNode : n.kind # "run" => PlainReads(g, ins, del)[n] = <<>>
         /\ \A n \in Node : n.kind # "run" /\ ~IsWrap(n) => NodeReads(g)[n] = <<>>
<1>1. Each(g, <<>>) = <<>>
  BY EachEmpty
<1>2. ASSUME NEW n \in PlainNode, n.kind # "run" PROVE PlainReads(g, ins, del)[n] = <<>>
  <2>1. TextsOfPlain(ins, del)[n] = <<>>
    BY <1>2 DEF TextsOfPlain
  <2> QED BY <1>1, <2>1 DEF PlainReads, Through
<1>3. ASSUME NEW n \in Node, n.kind # "run", ~IsWrap(n) PROVE NodeReads(g)[n] = <<>>
  <2>1. TextsOfNode[n] = <<>>
    BY <1>3 DEF TextsOfNode, IsWrap
  <2> QED BY <1>1, <2>1 DEF NodeReads, Through
<1> QED BY <1>2, <1>3

LEMMA NoTextInWrap ==
  ASSUME NEW g, NEW ins, NEW del, NEW N, NEW n \in N, n.kind # "run", ~IsWrap(n)
  PROVE  MidReads(g, N, ins, del)[n] = <<>>
<1>1. Each(g, <<>>) = <<>>
  BY EachEmpty
<1>2. TextsOfMid(N, ins, del)[n] = <<>>
  BY DEF TextsOfMid, IsWrap
<1> QED BY <1>1, <1>2 DEF MidReads, Through

InnerRead(f, g, ins, del, nodes) ==
  Each(PlainReads(g, ins, del), InInner(f, nodes)) = Each(PlainReads(After(f, g), ins, del), nodes)

LEMMA InInnerReads ==
  ASSUME NEW W, NEW g \in [Entry -> Seq(W)], NEW f \in [Text -> Text],
         NEW ins \in Holder, NEW del \in Holder, NEW nodes \in Seq(PlainNode)
  PROVE  InInner(f, nodes) \in Seq(PlainNode) /\ InnerRead(f, g, ins, del, nodes)
<1> DEFINE G == PlainReads(g, ins, del)
           h == After(f, g)
           H == PlainReads(h, ins, del)
           t == InInner(f, nodes)
<1>1. h \in [Entry -> Seq(W)]
  BY AfterTyped
<1> HIDE DEF h
<1>2. /\ \A n \in RunNode : G[n] = Each(g, RunTexts(n, ins, del))
      /\ \A n \in RunNode : H[n] = Each(h, RunTexts(n, ins, del))
  <2>1. Reads(G, PlainNode, W, g, ins, del) /\ Reads(H, PlainNode, W, h, ins, del)
    BY <1>1, PlainReadsWell
  <2> HIDE DEF G, H
  <2> QED BY <2>1 DEF Reads
<1>3. DOMAIN t = DOMAIN nodes /\ t = [k \in DOMAIN t |-> t[k]]
  BY DEF InInner
<1>4. ASSUME NEW k \in DOMAIN nodes PROVE t[k] \in PlainNode /\ G[t[k]] = H[nodes[k]]
  <2> DEFINE n == nodes[k]
  <2>1. n \in PlainNode
    BY LenProperties
  <2>2. CASE n.kind = "run"
    <3>1. n \in RunNode /\ t[k] = RunWith(f, n)
      BY <2>1, <2>2, NodesNest DEF InInner
    <3>2. RunWith(f, n) \in RunNode /\ Each(g, RunTexts(RunWith(f, n), ins, del)) = Each(h, RunTexts(n, ins, del))
      BY <3>1, RunWithReads DEF h
    <3> QED BY <1>2, <3>1, <3>2, NodesNest
  <2>3. CASE n.kind # "run"
    <3>1. t[k] = n
      BY <2>3 DEF InInner
    <3>2. G[n] = <<>> /\ H[n] = <<>>
      BY <2>1, <2>3, NoTextReads
    <3> QED BY <2>1, <3>1, <3>2
  <2> QED BY <2>2, <2>3
<1> HIDE DEF t, G, H
<1>5. t \in Seq(PlainNode) /\ Each(G, t) = Each(H, nodes)
  <2>1. Matches(G, t, H, nodes, PlainNode)
    BY <1>3, <1>4 DEF Matches
  <2> QED BY <2>1, ChangedForAnother
<1> QED BY <1>5, Zenon DEF InnerRead, t, G, H, h

WrapRead(f, g, ins, del, kind, nodes) ==
  /\ InWrap(f, nodes) \in Seq(KidsOf(kind))
  /\ Each(MidReads(g, KidsOf(kind), ins, del), InWrap(f, nodes))
       = Each(MidReads(After(f, g), KidsOf(kind), ins, del), nodes)

LEMMA InWrapReads ==
  ASSUME NEW W, NEW g \in [Entry -> Seq(W)], NEW f \in [Text -> Text],
         NEW ins \in Holder, NEW del \in Holder, NEW kind, NEW nodes \in Seq(KidsOf(kind))
  PROVE  WrapRead(f, g, ins, del, kind, nodes)
<1> DEFINE N == KidsOf(kind)
           G == MidReads(g, N, ins, del)
           h == After(f, g)
           H == MidReads(h, N, ins, del)
           t == InWrap(f, nodes)
<1>0. N \in SUBSET MidNode /\ PlainNode \subseteq N
  BY NodesNest
<1>1. h \in [Entry -> Seq(W)]
  BY AfterTyped
<1> HIDE DEF h
<1>2. /\ \A n \in RunNode : G[n] = Each(g, RunTexts(n, ins, del))
      /\ \A n \in RunNode : H[n] = Each(h, RunTexts(n, ins, del))
  <2>1. Reads(G, N, W, g, ins, del) /\ Reads(H, N, W, h, ins, del)
    <3> HIDE DEF N
    <3> QED BY <1>0, <1>1, MidReadsWell
  <2> HIDE DEF G, H
  <2> QED BY <2>1 DEF Reads
<1>3. DOMAIN t = DOMAIN nodes /\ t = [k \in DOMAIN t |-> t[k]]
  BY DEF InWrap
<1>4. ASSUME NEW k \in DOMAIN nodes PROVE t[k] \in N /\ G[t[k]] = H[nodes[k]]
  <2> DEFINE n == nodes[k]
  <2>1. n \in N
    BY LenProperties
  <2>2. CASE n.kind = "run"
    <3>1. n \in RunNode /\ t[k] = RunWith(f, n)
      BY <1>0, <2>1, <2>2, NodesNest DEF InWrap
    <3>2. RunWith(f, n) \in RunNode /\ Each(g, RunTexts(RunWith(f, n), ins, del)) = Each(h, RunTexts(n, ins, del))
      BY <3>1, RunWithReads DEF h
    <3> QED BY <1>0, <1>2, <3>1, <3>2, NodesNest
  <2>3. CASE n.kind # "run" /\ ~IsWrap(n)
    <3>1. t[k] = n
      BY <2>3 DEF InWrap
    <3>2. G[n] = <<>> /\ H[n] = <<>>
      <4> HIDE DEF n, N, h
      <4> QED BY <2>1, <2>3, NoTextInWrap
    <3> QED BY <2>1, <3>1, <3>2
  <2>4. CASE IsWrap(n)
    <3> DEFINE i == InsOf(n, ins)
               d == DelOf(n, del)
               P == PlainReads(g, i, d)
               Q == PlainReads(h, i, d)
               kids == InInner(f, n.kids)
               c == WithKids(n, kids)
    <3>1. MidWrapped(g, N, ins, del, n) /\ MidWrapped(h, N, ins, del, n)
      <4> HIDE DEF n, N
      <4> QED BY <1>0, <1>1, <2>1, <2>4, MidReadsWrap
    <3>2. i \in Holder /\ d \in Holder /\ n.kids \in Seq(PlainNode) /\ H[n] = Each(Q, n.kids)
      BY <3>1 DEF MidWrapped
    <3> HIDE DEF i, d, n
    <3>3. kids \in Seq(PlainNode) /\ Each(P, kids) = Each(Q, n.kids)
      <4>1. kids \in Seq(PlainNode) /\ InnerRead(f, g, i, d, n.kids)
        BY <3>2, InInnerReads
      <4> QED BY <4>1, Zenon DEF InnerRead, h
    <3>4. t[k] = c
      BY <2>4 DEF InWrap, n, IsWrap
    <3> HIDE DEF kids
    <3>5. c \in N /\ c.kids = kids /\ c.kind = n.kind /\ c.author = n.author
      BY <2>1, <2>4, <3>3, KidWithKids
    <3> HIDE DEF c
    <3>6. IsWrap(c) /\ InsOf(c, ins) = i /\ DelOf(c, del) = d
      BY <2>4, <3>5 DEF IsWrap, InsOf, DelOf, i, d
    <3>7. MidWrapped(g, N, ins, del, c)
      <4> HIDE DEF N
      <4> QED BY <1>0, <3>5, <3>6, MidReadsWrap
    <3>8. G[c] = Each(P, kids)
      BY <3>5, <3>6, <3>7 DEF MidWrapped, P
    <3> QED BY <3>2, <3>3, <3>4, <3>5, <3>8 DEF n
  <2> QED BY <2>2, <2>3, <2>4
<1> HIDE DEF t, G, H, N
<1>5. nodes \in Seq(N)
  BY DEF N
<1>6. t \in Seq(N) /\ Each(G, t) = Each(H, nodes)
  <2>1. Matches(G, t, H, nodes, N)
    BY <1>3, <1>4 DEF Matches
  <2> QED BY <1>5, <2>1, ChangedForAnother
<1> QED BY <1>6 DEF WrapRead, t, G, H, N, h

LEMMA InParagraphReads ==
  ASSUME NEW W, NEW g \in [Entry -> Seq(W)], NEW f \in [Text -> Text], NEW nodes \in Seq(Node)
  PROVE  /\ InParagraph(f, nodes) \in Seq(Node)
         /\ Each(NodeReads(g), InParagraph(f, nodes)) = Each(NodeReads(After(f, g)), nodes)
<1> DEFINE G == NodeReads(g)
           h == After(f, g)
           H == NodeReads(h)
           t == InParagraph(f, nodes)
<1>1. h \in [Entry -> Seq(W)]
  BY AfterTyped
<1> HIDE DEF h
<1>2. /\ \A n \in RunNode : G[n] = Each(g, RunTexts(n, NoAuthor, NoAuthor))
      /\ \A n \in RunNode : H[n] = Each(h, RunTexts(n, NoAuthor, NoAuthor))
  <2>1. Reads(G, Node, W, g, NoAuthor, NoAuthor) /\ Reads(H, Node, W, h, NoAuthor, NoAuthor)
    BY <1>1, NodeReadsWell
  <2> HIDE DEF G, H
  <2> QED BY <2>1 DEF Reads
<1>3. DOMAIN t = DOMAIN nodes /\ t = [k \in DOMAIN t |-> t[k]]
  BY DEF InParagraph
<1>4. ASSUME NEW k \in DOMAIN nodes PROVE t[k] \in Node /\ G[t[k]] = H[nodes[k]]
  <2> DEFINE n == nodes[k]
  <2>1. n \in Node
    BY LenProperties
  <2>2. CASE n.kind = "run"
    <3>1. n \in RunNode /\ t[k] = RunWith(f, n)
      BY <2>1, <2>2, NodesNest DEF InParagraph
    <3>2. /\ RunWith(f, n) \in RunNode
          /\ Each(g, RunTexts(RunWith(f, n), NoAuthor, NoAuthor)) = Each(h, RunTexts(n, NoAuthor, NoAuthor))
      BY <3>1, RunWithReads, HoldersAre DEF h
    <3> QED BY <1>2, <3>1, <3>2, NodesNest
  <2>3. CASE n.kind # "run" /\ ~IsWrap(n)
    <3>1. t[k] = n
      BY <2>3 DEF InParagraph
    <3>2. G[n] = <<>> /\ H[n] = <<>>
      BY <2>1, <2>3, NoTextReads
    <3> QED BY <2>1, <3>1, <3>2
  <2>4. CASE IsWrap(n)
    <3> DEFINE i == InsOf(n, NoAuthor)
               d == DelOf(n, NoAuthor)
               kind == n.kind
               N == KidsOf(kind)
               P == MidReads(g, N, i, d)
               Q == MidReads(h, N, i, d)
               kids == InWrap(f, n.kids)
               c == WithKids(n, kids)
    <3>1. NodeWrapped(g, n) /\ NodeWrapped(h, n)
      <4> HIDE DEF n
      <4> QED BY <1>1, <2>1, <2>4, NodeReadsWrap
    <3>2. i \in Holder /\ d \in Holder /\ n.kids \in Seq(N) /\ H[n] = Each(Q, n.kids)
      BY <3>1 DEF NodeWrapped
    <3> HIDE DEF i, d, n
    <3>3. kids \in Seq(N) /\ Each(P, kids) = Each(Q, n.kids)
      <4> DEFINE s == n.kids
      <4>1. WrapRead(f, g, i, d, kind, s)
        <5> HIDE DEF kind, s
        <5> QED BY <3>2, InWrapReads DEF s
      <4> QED BY <4>1 DEF WrapRead, h
    <3>4. t[k] = c
      BY <2>4 DEF InParagraph, n, IsWrap
    <3> HIDE DEF kids
    <3>5. c \in Node /\ c.kids = kids /\ c.kind = n.kind /\ c.author = n.author
      BY <2>1, <2>4, <3>3, NodeWithKids
    <3> HIDE DEF c
    <3>6. IsWrap(c) /\ InsOf(c, NoAuthor) = i /\ DelOf(c, NoAuthor) = d /\ KidsOf(c.kind) = N
      BY <2>4, <3>5 DEF IsWrap, InsOf, DelOf, i, d
    <3>7. NodeWrapped(g, c)
      BY <3>5, <3>6, NodeReadsWrap
    <3>8. G[c] = Each(P, kids)
      BY <3>5, <3>6, <3>7 DEF NodeWrapped, P
    <3> QED BY <3>2, <3>3, <3>4, <3>5, <3>8 DEF n
  <2> QED BY <2>2, <2>3, <2>4
<1> HIDE DEF t, G, H
<1>5. t \in Seq(Node) /\ Each(G, t) = Each(H, nodes)
  <2>1. Matches(G, t, H, nodes, Node)
    BY <1>3, <1>4 DEF Matches
  <2> QED BY <2>1, ChangedForAnother
<1> QED BY <1>5 DEF t, G, H, h

(* OnTs, and with it the repairs, the condensing and the reading.          *)
LEMMA OnTsReads ==
  ASSUME NEW W, NEW g \in [Entry -> Seq(W)], NEW f \in [Text -> Text], NEW b \in Body
  PROVE  /\ OnTs(f, b) \in Body /\ DOMAIN OnTs(f, b) = DOMAIN b
         /\ \A p \in DOMAIN b : Each(g, Texts(OnTs(f, b)[p])) = Each(After(f, g), Texts(b[p]))
<1> DEFINE h == After(f, g)
           u == OnTs(f, b)
<1>1. u = [p \in DOMAIN b |-> InParagraph(f, b[p])]
  BY Zenon DEF OnTs, OnRuns, OnWrapRuns, OnInnerRuns, InParagraph, InWrap, InInner, WithKids, RunWith
<1>2. \A p \in DOMAIN b : b[p] \in Seq(Node)
  BY LenProperties DEF Body
<1>3. h \in [Entry -> Seq(W)]
  BY AfterTyped
<1> HIDE DEF h, u
<1>4. \A s \in Seq(Node) : Each(g, Texts(s)) = Each(NodeReads(g), s) /\ Each(h, Texts(s)) = Each(NodeReads(h), s)
  BY <1>3, NodeReadsWell
<1>5. \A s \in Seq(Node) : /\ InParagraph(f, s) \in Seq(Node)
                           /\ Each(NodeReads(g), InParagraph(f, s)) = Each(NodeReads(h), s)
  BY InParagraphReads DEF h
<1>6. DOMAIN u = DOMAIN b /\ u = [p \in DOMAIN u |-> u[p]] /\ \A p \in DOMAIN b : u[p] = InParagraph(f, b[p])
  BY <1>1
<1>7. u \in Body
  BY <1>2, <1>5, <1>6, EachTypedSeq DEF Body
<1>8. \A p \in DOMAIN b : Each(g, Texts(u[p])) = Each(h, Texts(b[p]))
  BY <1>2, <1>4, <1>5, <1>6
<1> QED BY <1>6, <1>7, <1>8 DEF u, h
-----------------------------------------------------------------------------
(* An edit puts nodes for one: what is read of the body then.             *)

(* Nothing is read of a sequence if nothing is of any element.             *)
LEMMA NothingOfEach ==
  ASSUME NEW S, NEW W, NEW g \in [S -> Seq(W)], NEW s \in Seq(S)
  PROVE  Each(g, s) = <<>> <=> \A k \in DOMAIN s : g[s[k]] = <<>>
<1> DEFINE m == Mapped(g, s)
<1>1. m \in Seq(Seq(W)) /\ DOMAIN m = DOMAIN s /\ \A k \in DOMAIN s : m[k] = g[s[k]]
  <2>1. m \in Seq(Seq(W))
    BY MapTyped
  <2> QED BY <2>1 DEF Mapped
<1> HIDE DEF m
<1>2. Range(FlattenSeq(m)) = UNION {Range(m[i]) : i \in DOMAIN m}
  BY <1>1, FlattenRange
<1>3. \A t \in Seq(W) : t = <<>> <=> Range(t) = {}
  <2>1. \A t \in Seq(W) : t = <<>> <=> DOMAIN t = {}
    BY EmptySeq, LenProperties
  <2> QED BY <2>1 DEF Range
<1>4. FlattenSeq(m) \in Seq(W)
  <2>1. Each(g, s) \in Seq(W)
    BY EachTyped
  <2> QED BY <2>1 DEF Each, m
<1>5. \A k \in DOMAIN m : m[k] \in Seq(W)
  BY <1>1, LenProperties
<1>6. FlattenSeq(m) = <<>> <=> \A k \in DOMAIN m : Range(m[k]) = {}
  <2>0. ASSUME NEW R, NEW D, NEW r(_), R = UNION {r(k) : k \in D}
        PROVE  R = {} <=> \A k \in D : r(k) = {}
    BY <2>0
  <2>1. Range(FlattenSeq(m)) = {} <=> \A k \in DOMAIN m : Range(m[k]) = {}
    BY <1>2, <2>0
  <2>2. FlattenSeq(m) = <<>> <=> Range(FlattenSeq(m)) = {}
    BY <1>3, <1>4, Zenon
  <2> QED BY <2>1, <2>2
<1>7. FlattenSeq(m) = <<>> <=> \A k \in DOMAIN m : m[k] = <<>>
  BY <1>3, <1>5, <1>6
<1> QED BY <1>1, <1>7 DEF Each, m
-----------------------------------------------------------------------------
(* A node replaced by others.                                              *)
Spliced(s, i, nodes) == SubSeq(s, 1, i - 1) \o nodes \o SubSeq(s, i + 1, Len(s))

LEMMA SplitAt ==
  ASSUME NEW S, NEW s \in Seq(S), NEW i \in DOMAIN s
  PROVE  /\ SubSeq(s, 1, i - 1) \in Seq(S) /\ SubSeq(s, i + 1, Len(s)) \in Seq(S)
         /\ s[i] \in S /\ Spliced(s, i, <<s[i]>>) = s
<1> DEFINE n == Len(s)
<1>1. n \in Nat /\ i \in 1 .. n /\ \A k \in 1 .. n : s[k] \in S
  BY LenProperties
<1>2. SubSeq(s, 1, i - 1) \in Seq(S) /\ SubSeq(s, i + 1, n) \in Seq(S)
  <2> HIDE DEF n
  <2>1. \A k \in 1 .. i - 1 : s[k] \in S
    BY <1>1
  <2>2. \A k \in i + 1 .. n : s[k] \in S
    BY <1>1
  <2>3. 1 \in Int /\ i - 1 \in Int /\ i + 1 \in Int /\ n \in Int
    BY <1>1
  <2> QED BY <2>1, <2>2, <2>3, SubSeqProperties
<1>3. SubSeq(s, 1, i) = SubSeq(s, 1, i - 1) \o <<s[i]>>
  <2>1. 1 \in 1 .. n /\ i \in 1 .. n
    BY <1>1
  <2> QED BY <2>1, SubSeqRecursiveSecond
<1>4. SubSeq(s, 1, i) \o SubSeq(s, i + 1, n) = SubSeq(s, 1, n)
  <2>1. 1 \in 1 .. n + 1 /\ i \in 1 - 1 .. n /\ n \in i .. n
    BY <1>1
  <2> QED BY <2>1, ConcatAdjacentSubSeq
<1>5. SubSeq(s, 1, n) = s
  BY SubSeqFull
<1> QED BY <1>1, <1>2, <1>3, <1>4, <1>5 DEF Spliced

LEMMA ConcatNothing ==
  ASSUME NEW W, NEW x \in Seq(W), NEW y \in Seq(W)
  PROVE  x \o y = <<>> <=> x = <<>> /\ y = <<>>
<1>1. Len(x \o y) = Len(x) + Len(y) /\ x \o y \in Seq(W)
  BY ConcatProperties
<1>2. Len(x) \in Nat /\ Len(y) \in Nat
  BY LenProperties
<1>3. \A t \in Seq(W) : t = <<>> <=> Len(t) = 0
  BY EmptySeq
<1> QED BY <1>1, <1>2, <1>3

EachOfBoth(G, x, y) == Each(G, x \o y) = Each(G, x) \o Each(G, y)

LEMMA EachTwo ==
  ASSUME NEW S, NEW W, NEW G \in [S -> Seq(W)]
  PROVE  \A x, y \in Seq(S) : x \o y \in Seq(S) /\ EachOfBoth(G, x, y)
<1>1. \A x, y \in Seq(S) : Each(G, x \o y) = Each(G, x) \o Each(G, y)
  BY EachConcat
<1>2. \A x, y \in Seq(S) : x \o y \in Seq(S)
  BY ConcatProperties
<1> QED BY <1>1, <1>2 DEF EachOfBoth

ReadsSpliced(G, S, s, i, nodes) ==
  /\ Spliced(s, i, nodes) \in Seq(S)
  /\ Each(G, nodes) = G[s[i]] => Each(G, Spliced(s, i, nodes)) = Each(G, s)
  /\ Each(G, s) = <<>> => /\ G[s[i]] = <<>>
                          /\ Each(G, nodes) = <<>> => Each(G, Spliced(s, i, nodes)) = <<>>

LEMMA SplicedReads ==
  ASSUME NEW S, NEW W, NEW G \in [S -> Seq(W)], NEW s \in Seq(S), NEW i \in DOMAIN s, NEW nodes \in Seq(S)
  PROVE  ReadsSpliced(G, S, s, i, nodes)
<1>0. \A x, y \in Seq(S) : x \o y \in Seq(S) /\ EachOfBoth(G, x, y)
  BY EachTwo
<1> DEFINE a == SubSeq(s, 1, i - 1)
           c == SubSeq(s, i + 1, Len(s))
<1>1. a \in Seq(S) /\ c \in Seq(S) /\ s[i] \in S /\ Spliced(s, i, <<s[i]>>) = s
  BY SplitAt
<1>2. \A t : Spliced(s, i, t) = a \o t \o c
  BY DEF Spliced
<1> HIDE DEF a, c
<1>3. ASSUME NEW t \in Seq(S)
      PROVE  a \o t \o c \in Seq(S) /\ Each(G, a \o t \o c) = Each(G, a) \o Each(G, t) \o Each(G, c)
  <2>1. a \o t \in Seq(S) /\ EachOfBoth(G, a, t)
    BY <1>0, <1>1
  <2> DEFINE u == a \o t
  <2>2. u \in Seq(S) /\ Each(G, u) = Each(G, a) \o Each(G, t)
    BY <2>1 DEF EachOfBoth
  <2>3. u = a \o t
    OBVIOUS
  <2> HIDE DEF u
  <2>4. u \o c \in Seq(S) /\ Each(G, u \o c) = Each(G, u) \o Each(G, c)
    BY <1>0, <1>1, <2>2 DEF EachOfBoth
  <2> QED BY <2>2, <2>3, <2>4
<1>4. <<s[i]>> \in Seq(S) /\ Each(G, <<s[i]>>) = G[s[i]] /\ G[s[i]] \in Seq(W)
  <2>1. \A e \in S : Each(G, <<e>>) = G[e]
    BY EachSingle
  <2>2. \A e \in S : <<e>> \in Seq(S) /\ G[e] \in Seq(W)
    OBVIOUS
  <2> QED BY <1>1, <2>1, <2>2
<1>5. Each(G, s) = Each(G, a) \o G[s[i]] \o Each(G, c)
  <2> DEFINE t == <<s[i]>>
  <2>1. t \in Seq(S) /\ a \o t \o c = s /\ Each(G, t) = G[s[i]]
    BY <1>1, <1>2, <1>4
  <2> HIDE DEF t
  <2> QED BY <1>3, <2>1
<1>6. Spliced(s, i, nodes) \in Seq(S) /\ Each(G, Spliced(s, i, nodes)) = Each(G, a) \o Each(G, nodes) \o Each(G, c)
  BY <1>2, <1>3
<1>7. Each(G, a) \in Seq(W) /\ Each(G, c) \in Seq(W) /\ Each(G, nodes) \in Seq(W)
  BY <1>1, EachTyped
<1>8. ASSUME NEW x \in Seq(W)
      PROVE  Each(G, a) \o x \o Each(G, c) = <<>> <=> Each(G, a) = <<>> /\ x = <<>> /\ Each(G, c) = <<>>
  <2>1. Each(G, a) \o x \in Seq(W)
    BY <1>7, ConcatProperties
  <2> QED BY <1>7, <2>1, ConcatNothing
<1> QED BY <1>4, <1>5, <1>6, <1>7, <1>8 DEF ReadsSpliced

ReadsAlike(g, c, b) == \A p \in DOMAIN b : Each(g, Texts(c[p])) = Each(g, Texts(b[p]))
ReadsNothing(g, b) == \A p \in DOMAIN b : Each(g, Texts(b[p])) = <<>>
Replaced(b, p, i, nodes) == [b EXCEPT ![p] = Spliced(b[p], i, nodes)]

(* What is read of a body, by what is read of the nodes that are replaced. *)
LEMMA ReplacedReads ==
  ASSUME NEW W, NEW g \in [Entry -> Seq(W)],
         NEW b \in Body, NEW p \in DOMAIN b, NEW i \in DOMAIN b[p], NEW nodes \in Seq(Node)
  PROVE  /\ Each(NodeReads(g), nodes) = NodeReads(g)[b[p][i]] => ReadsAlike(g, Replaced(b, p, i, nodes), b)
         /\ ReadsNothing(g, b) =>
              /\ NodeReads(g)[b[p][i]] = <<>>
              /\ Each(NodeReads(g), nodes) = <<>> => ReadsNothing(g, Replaced(b, p, i, nodes))
<1> DEFINE G == NodeReads(g)
           s == b[p]
           t == Spliced(s, i, nodes)
           c == Replaced(b, p, i, nodes)
<1>1. \A q \in DOMAIN b : b[q] \in Seq(Node)
  BY LenProperties DEF Body
<1>2. G \in [Node -> Seq(W)] /\ \A x \in Seq(Node) : Each(g, Texts(x)) = Each(G, x)
  BY NodeReadsWell, Zenon DEF Reads
<1>3. DOMAIN c = DOMAIN b /\ c[p] = t /\ \A q \in DOMAIN b : q # p => c[q] = b[q]
  BY DEF Replaced
<1> HIDE DEF G, c
<1>4. s \in Seq(Node) /\ i \in DOMAIN s
  BY <1>1
<1> HIDE DEF s
<1>5. /\ t \in Seq(Node)
      /\ Each(G, nodes) = G[s[i]] => Each(G, t) = Each(G, s)
      /\ Each(G, s) = <<>> => /\ G[s[i]] = <<>>
                              /\ Each(G, nodes) = <<>> => Each(G, t) = <<>>
  <2>1. ReadsSpliced(G, Node, s, i, nodes)
    BY <1>2, <1>4, SplicedReads
  <2> QED BY <2>1, Zenon DEF ReadsSpliced
<1> HIDE DEF t
<1>6. Each(g, Texts(c[p])) = Each(G, t) /\ Each(g, Texts(b[p])) = Each(G, s)
  BY <1>2, <1>3, <1>4, <1>5 DEF s
<1>7. \A q \in DOMAIN b : q # p => Each(g, Texts(c[q])) = Each(g, Texts(b[q]))
  BY <1>3
<1>8. ASSUME Each(G, nodes) = G[s[i]] PROVE ReadsAlike(g, c, b)
  BY <1>5, <1>6, <1>7, <1>8 DEF ReadsAlike
<1>9. ASSUME ReadsNothing(g, b)
      PROVE  G[s[i]] = <<>> /\ (Each(G, nodes) = <<>> => ReadsNothing(g, c))
  BY <1>3, <1>5, <1>6, <1>7, <1>9 DEF ReadsNothing
<1> QED BY <1>8, <1>9 DEF G, s, c
-----------------------------------------------------------------------------
(* What is read of a wrapper that holds runs, one or inside another.      *)

(* The kids of a wrapper that holds plain nodes only.                      *)
LEMMA MidOfPlain ==
  ASSUME NEW W, NEW g \in [Entry -> Seq(W)], NEW ins \in Holder, NEW del \in Holder,
         NEW N \in SUBSET MidNode, PlainNode \subseteq N, NEW kids \in Seq(PlainNode)
  PROVE  Each(MidReads(g, N, ins, del), kids) = Each(PlainReads(g, ins, del), kids)
<1> DEFINE M == MidReads(g, N, ins, del)
           P == PlainReads(g, ins, del)
<1>1. \A n \in PlainNode : M[n] = P[n]
  <2> SUFFICES ASSUME NEW n \in PlainNode PROVE M[n] = P[n]
    OBVIOUS
  <2>1. n \in N /\ n.kind # "ins" /\ n.kind # "del"
    BY NodesNest DEF IsWrap
  <2>2. TextsOfMid(N, ins, del)[n] = TextsOfPlain(ins, del)[n]
    BY <2>1 DEF TextsOfMid, TextsOfPlain
  <2> QED BY <2>1, <2>2 DEF MidReads, PlainReads, Through
<1>2. \A k \in DOMAIN kids : kids[k] \in PlainNode
  BY LenProperties
<1> HIDE DEF M, P
<1>3. Each(M, kids) = Each(P, kids)
  BY <1>1, <1>2, EachSame
<1> QED BY <1>3 DEF M, P

WrapsPlain(g, n) == NodeReads(g)[n] = Each(PlainReads(g, InsOf(n, NoAuthor), DelOf(n, NoAuthor)), n.kids)

LEMMA WrapOfPlain ==
  ASSUME NEW W, NEW g \in [Entry -> Seq(W)], NEW n \in Node, IsWrap(n), n.kids \in Seq(PlainNode)
  PROVE  WrapsPlain(g, n)
<1> DEFINE ins == InsOf(n, NoAuthor)
           del == DelOf(n, NoAuthor)
           N == KidsOf(n.kind)
           kids == n.kids
<1>1. ins \in Holder /\ del \in Holder /\ NodeReads(g)[n] = Each(MidReads(g, N, ins, del), kids)
  <2>1. NodeWrapped(g, n)
    BY NodeReadsWrap
  <2> QED BY <2>1 DEF NodeWrapped
<1>2. N \in SUBSET MidNode /\ PlainNode \subseteq N
  BY NodesNest
<1>3. kids \in Seq(PlainNode)
  OBVIOUS
<1> HIDE DEF ins, del, N, kids
<1>4. Each(MidReads(g, N, ins, del), kids) = Each(PlainReads(g, ins, del), kids)
  BY <1>1, <1>2, <1>3, MidOfPlain
<1> QED BY <1>1, <1>4 DEF WrapsPlain, ins, del, kids

(* A deletion inside an insertion.                                         *)
LEMMA WrapInWrap ==
  ASSUME NEW W, NEW g \in [Entry -> Seq(W)], NEW a \in Person, NEW b \in Person, NEW kids \in Seq(PlainNode),
         Del(b, kids) \in KidsOf("ins"), Ins(a, <<Del(b, kids)>>) \in Node
  PROVE  NodeReads(g)[Ins(a, <<Del(b, kids)>>)] = Each(PlainReads(g, a, b), kids)
<1> DEFINE d == Del(b, kids)
           n == Ins(a, <<d>>)
           N == KidsOf("ins")
           M == MidReads(g, N, a, NoAuthor)
<1>1. a \in Holder /\ b \in Holder /\ NoAuthor \in Holder /\ N \in SUBSET MidNode /\ PlainNode \subseteq N
  BY HoldersAre, NodesNest
<1>2. d.kind = "del" /\ d.author = b /\ d.kids = kids /\ IsWrap(d)
  BY DEF Del, IsWrap
<1>3. n.kind = "ins" /\ n.author = a /\ n.kids = <<d>> /\ IsWrap(n)
  BY DEF Ins, IsWrap
<1>4. n \in Node /\ d \in N
  OBVIOUS
<1> HIDE DEF d, n, N
<1>5. NodeReads(g)[n] = Each(M, <<d>>)
  <2>1. NodeWrapped(g, n)
    BY <1>3, <1>4, NodeReadsWrap
  <2> QED BY <1>3, <2>1 DEF NodeWrapped, N, InsOf, DelOf
<1>6. Each(M, <<d>>) = M[d]
  <2>1. M \in [N -> Seq(W)]
    <3>1. Reads(M, N, W, g, a, NoAuthor)
      BY <1>1, MidReadsWell
    <3> QED BY <3>1 DEF Reads
  <2> HIDE DEF M
  <2> QED BY <1>4, <2>1, EachSingle
<1>7. M[d] = Each(PlainReads(g, a, b), kids)
  <2>1. MidWrapped(g, N, a, NoAuthor, d)
    BY <1>1, <1>2, <1>4, MidReadsWrap
  <2> QED BY <1>2, <2>1 DEF MidWrapped, InsOf, DelOf
<1> QED BY <1>5, <1>6, <1>7 DEF n, d
-----------------------------------------------------------------------------
(* Nodes whose texts are read alike, or as nothing.                        *)
TextsAlike(g, gi, gd, h, hi, hd, run) ==
  \A j \in DOMAIN run.ts : g[EntryOf(run.ts[j], run.fmt, gi, gd)] = h[EntryOf(run.ts[j], run.fmt, hi, hd)]
KidsAlike(g, gi, gd, h, hi, hd, kids) ==
  \A k \in DOMAIN kids : kids[k].kind = "run" => TextsAlike(g, gi, gd, h, hi, hd, kids[k])
TextsNothing(g, ins, del, run) == \A j \in DOMAIN run.ts : g[EntryOf(run.ts[j], run.fmt, ins, del)] = <<>>
KidsNothing(g, ins, del, kids) ==
  \A k \in DOMAIN kids : kids[k].kind = "run" => TextsNothing(g, ins, del, kids[k])

LEMMA RunTextsAre ==
  ASSUME NEW run, NEW ins, NEW del
  PROVE  /\ DOMAIN RunTexts(run, ins, del) = DOMAIN run.ts
         /\ \A j \in DOMAIN run.ts : RunTexts(run, ins, del)[j] = EntryOf(run.ts[j], run.fmt, ins, del)
BY DEF RunTexts, EntryOf

ReadAlike(g, gi, gd, h, hi, hd, kids) == Each(PlainReads(g, gi, gd), kids) = Each(PlainReads(h, hi, hd), kids)

LEMMA KidsReadAlike ==
  ASSUME NEW V, NEW W, NEW g \in [Entry -> Seq(V)], NEW h \in [Entry -> Seq(W)],
         NEW gi \in Holder, NEW gd \in Holder, NEW hi \in Holder, NEW hd \in Holder,
         NEW kids \in Seq(PlainNode), KidsAlike(g, gi, gd, h, hi, hd, kids)
  PROVE  ReadAlike(g, gi, gd, h, hi, hd, kids)
<1> DEFINE G == PlainReads(g, gi, gd)
           H == PlainReads(h, hi, hd)
<1>1. /\ \A n \in RunNode : G[n] = Each(g, RunTexts(n, gi, gd))
      /\ \A n \in RunNode : H[n] = Each(h, RunTexts(n, hi, hd))
  <2>1. Reads(G, PlainNode, V, g, gi, gd) /\ Reads(H, PlainNode, W, h, hi, hd)
    BY PlainReadsWell
  <2> HIDE DEF G, H
  <2> QED BY <2>1 DEF Reads
<1>2. \A n \in PlainNode : n.kind # "run" => G[n] = <<>> /\ H[n] = <<>>
  BY NoTextReads
<1> HIDE DEF G, H
<1>3. ASSUME NEW k \in DOMAIN kids PROVE G[kids[k]] = H[kids[k]]
  <2> DEFINE n == kids[k]
  <2>1. n \in PlainNode
    BY LenProperties
  <2>2. CASE n.kind = "run"
    <3>1. n \in RunNode
      BY <2>1, <2>2, NodesNest
    <3> DEFINE x == RunTexts(n, gi, gd)
               y == RunTexts(n, hi, hd)
    <3>2. DOMAIN x = DOMAIN n.ts /\ DOMAIN y = DOMAIN n.ts
      BY RunTextsAre
    <3>3. \A j \in DOMAIN x : g[x[j]] = h[y[j]]
      <4>1. TextsAlike(g, gi, gd, h, hi, hd, n)
        BY <2>2 DEF KidsAlike
      <4> HIDE DEF n
      <4> QED BY <3>2, <4>1, RunTextsAre DEF TextsAlike
    <3> HIDE DEF x, y
    <3>4. Each(g, x) = Each(h, y)
      BY <3>2, <3>3, EachSame
    <3> QED BY <1>1, <3>1, <3>4 DEF x, y
  <2>3. CASE n.kind # "run"
    BY <1>2, <2>1, <2>3
  <2> QED BY <2>2, <2>3
<1>4. Each(G, kids) = Each(H, kids)
  BY <1>3, EachSame
<1> QED BY <1>4, Zenon DEF ReadAlike, G, H

LEMMA KidsReadNothing ==
  ASSUME NEW W, NEW g \in [Entry -> Seq(W)], NEW ins \in Holder, NEW del \in Holder, NEW kids \in Seq(PlainNode)
  PROVE  Each(PlainReads(g, ins, del), kids) = <<>> <=> KidsNothing(g, ins, del, kids)
<1> DEFINE G == PlainReads(g, ins, del)
<1>1. G \in [PlainNode -> Seq(W)] /\ \A n \in RunNode : G[n] = Each(g, RunTexts(n, ins, del))
  <2>1. Reads(G, PlainNode, W, g, ins, del)
    BY PlainReadsWell
  <2> HIDE DEF G
  <2> QED BY <2>1 DEF Reads
<1>2. \A n \in PlainNode : n.kind # "run" => G[n] = <<>>
  BY NoTextReads
<1> HIDE DEF G
<1>3. ASSUME NEW n \in RunNode PROVE G[n] = <<>> <=> TextsNothing(g, ins, del, n)
  <2> DEFINE x == RunTexts(n, ins, del)
  <2>1. x \in Seq(Entry) /\ DOMAIN x = DOMAIN n.ts
    BY RunTextsTyped
  <2>2. \A j \in DOMAIN n.ts : x[j] = EntryOf(n.ts[j], n.fmt, ins, del)
    BY RunTextsAre
  <2> HIDE DEF x
  <2>3. Each(g, x) = <<>> <=> \A j \in DOMAIN x : g[x[j]] = <<>>
    <3>1. x \in Seq(Entry) /\ g \in [Entry -> Seq(W)]
      BY <2>1
    <3> HIDE DEF Entry
    <3> QED BY <3>1, NothingOfEach
  <2>4. G[n] = Each(g, x)
    BY <1>1, Zenon DEF x
  <2> QED BY <2>1, <2>2, <2>3, <2>4 DEF TextsNothing
<1>4. \A k \in DOMAIN kids : kids[k] \in PlainNode /\ (kids[k].kind = "run" => kids[k] \in RunNode)
  BY LenProperties, NodesNest
<1>5. Each(G, kids) = <<>> <=> \A k \in DOMAIN kids : G[kids[k]] = <<>>
  BY <1>1, NothingOfEach
<1>6. Each(G, kids) = <<>> <=> KidsNothing(g, ins, del, kids)
  BY <1>2, <1>3, <1>4, <1>5 DEF KidsNothing
<1> QED BY <1>6 DEF G

(* Plain nodes that stand in a paragraph.                                  *)
LEMMA PlainInParagraph ==
  ASSUME NEW W, NEW g \in [Entry -> Seq(W)], NEW nodes \in Seq(PlainNode)
  PROVE  Each(NodeReads(g), nodes) = Each(PlainReads(g, NoAuthor, NoAuthor), nodes)
<1> DEFINE G == NodeReads(g)
           P == PlainReads(g, NoAuthor, NoAuthor)
<1>1. \A n \in PlainNode : G[n] = P[n]
  <2> SUFFICES ASSUME NEW n \in PlainNode PROVE G[n] = P[n]
    OBVIOUS
  <2>1. n \in Node /\ n.kind # "ins" /\ n.kind # "del"
    BY NodesNest DEF IsWrap
  <2>2. TextsOfNode[n] = TextsOfPlain(NoAuthor, NoAuthor)[n]
    BY <2>1 DEF TextsOfNode, TextsOfPlain
  <2> QED BY <2>1, <2>2 DEF NodeReads, PlainReads, Through
<1>2. \A k \in DOMAIN nodes : nodes[k] \in PlainNode
  BY LenProperties
<1> HIDE DEF G, P
<1>3. Each(G, nodes) = Each(P, nodes)
  BY <1>1, <1>2, EachSame
<1> QED BY <1>3 DEF G, P

(* A node with one text.                                                   *)
OneText(g, fmt, t) ==
  /\ NodeReads(g)[Run(fmt, <<t>>)] = g[EntryOf(t, fmt, NoAuthor, NoAuthor)]
  /\ \A a \in Person : /\ NodeReads(g)[Ins(a, <<Run(fmt, <<t>>)>>)] = g[EntryOf(t, fmt, a, NoAuthor)]
                       /\ NodeReads(g)[Del(a, <<Run(fmt, <<t>>)>>)] = g[EntryOf(t, fmt, NoAuthor, a)]

LEMMA OneTextReads ==
  ASSUME NEW W, NEW g \in [Entry -> Seq(W)], NEW fmt \in Format, NEW t \in Text,
         Run(fmt, <<t>>) \in RunNode,
         \A a \in Person : Ins(a, <<Run(fmt, <<t>>)>>) \in Node /\ Del(a, <<Run(fmt, <<t>>)>>) \in Node
  PROVE  OneText(g, fmt, t)
<1> DEFINE run == Run(fmt, <<t>>)
           kids == <<run>>
<1>1. run \in RunNode /\ run \in PlainNode /\ run \in Node /\ run.kind = "run" /\ run.ts = <<t>> /\ run.fmt = fmt
  BY NodesNest DEF Run
<1>2. \A a \in Person : Ins(a, kids) \in Node /\ Del(a, kids) \in Node
  OBVIOUS
<1> HIDE DEF run
<1>3. kids \in Seq(PlainNode)
  BY <1>1
<1>4. ASSUME NEW ins \in Holder, NEW del \in Holder
      PROVE  Each(g, RunTexts(run, ins, del)) = g[EntryOf(t, fmt, ins, del)]
  <2> DEFINE e == EntryOf(t, fmt, ins, del)
  <2>1. e \in Entry
    BY DEF EntryOf, Entry
  <2>2. RunTexts(run, ins, del) = <<e>>
    BY <1>1 DEF RunTexts, EntryOf
  <2> HIDE DEF e
  <2>3. g \in [Entry -> Seq(W)]
    OBVIOUS
  <2>4. Each(g, <<e>>) = g[e]
    <3> HIDE DEF Entry
    <3> QED BY <2>1, <2>3, EachSingle
  <2> QED BY <2>2, <2>4 DEF e
<1>5. NodeReads(g)[run] = g[EntryOf(t, fmt, NoAuthor, NoAuthor)]
  <2>1. Reads(NodeReads(g), Node, W, g, NoAuthor, NoAuthor)
    BY NodeReadsWell
  <2> QED BY <1>1, <1>4, <2>1, HoldersAre DEF Reads
<1>6. ASSUME NEW ins \in Holder, NEW del \in Holder
      PROVE  Each(PlainReads(g, ins, del), kids) = g[EntryOf(t, fmt, ins, del)]
  <2> DEFINE P == PlainReads(g, ins, del)
  <2>1. P \in [PlainNode -> Seq(W)] /\ P[run] = Each(g, RunTexts(run, ins, del))
    <3>1. Reads(P, PlainNode, W, g, ins, del)
      BY PlainReadsWell
    <3> HIDE DEF P
    <3> QED BY <1>1, <3>1 DEF Reads
  <2> HIDE DEF P
  <2>2. Each(P, <<run>>) = P[run]
    BY <1>1, <2>1, EachSingle
  <2> QED BY <1>4, <2>1, <2>2 DEF P
<1>7. ASSUME NEW a \in Person
      PROVE  /\ NodeReads(g)[Ins(a, kids)] = g[EntryOf(t, fmt, a, NoAuthor)]
             /\ NodeReads(g)[Del(a, kids)] = g[EntryOf(t, fmt, NoAuthor, a)]
  <2> HIDE DEF kids
  <2> DEFINE n == Ins(a, kids)
             m == Del(a, kids)
  <2>1. /\ n \in Node /\ n.kind = "ins" /\ n.author = a /\ n.kids = kids /\ IsWrap(n)
        /\ m \in Node /\ m.kind = "del" /\ m.author = a /\ m.kids = kids /\ IsWrap(m)
    BY <1>2 DEF Ins, Del, IsWrap
  <2>2. a \in Holder /\ NoAuthor \in Holder
    BY HoldersAre
  <2> HIDE DEF n, m
  <2>3. WrapsPlain(g, n) /\ WrapsPlain(g, m)
    BY <1>3, <2>1, WrapOfPlain
  <2>4. /\ NodeReads(g)[n] = Each(PlainReads(g, a, NoAuthor), kids)
        /\ NodeReads(g)[m] = Each(PlainReads(g, NoAuthor, a), kids)
    BY <2>1, <2>3 DEF WrapsPlain, InsOf, DelOf
  <2> QED BY <1>6, <2>2, <2>4 DEF n, m
<1> QED BY <1>5, <1>7 DEF OneText, run

LEMMA PairJoined ==
  ASSUME NEW S, NEW x \in S, NEW y \in S
  PROVE  <<x>> \in Seq(S) /\ <<y>> \in Seq(S) /\ <<x, y>> \in Seq(S) /\ <<x>> \o <<y>> = <<x, y>>
<1>1. <<x>> \in Seq(S) /\ <<y>> \in Seq(S) /\ <<x, y>> \in Seq(S)
  OBVIOUS
<1>2. Append(<<x>>, y) = <<x>> \o <<y>>
  BY <1>1, AppendIsConcat
<1>3. Append(<<x>>, y) = <<x, y>>
  <2> DEFINE u == <<x>>
             v == <<x, y>>
             w == Append(u, y)
  <2>1. Len(u) = 1 /\ u[1] = x /\ Len(v) = 2 /\ v[1] = x /\ v[2] = y /\ u \in Seq(S) /\ v \in Seq(S)
    OBVIOUS
  <2> HIDE DEF u, v
  <2>2. w \in Seq(S) /\ Len(w) = Len(u) + 1 /\ (\A i \in 1 .. Len(u) : w[i] = u[i]) /\ w[Len(u) + 1] = y
    <3>1. u \in Seq(S)
      BY <2>1
    <3> QED BY <3>1
  <2> HIDE DEF w
  <2>3. Len(w) = 2 /\ Len(v) = 2 /\ w[1] = v[1] /\ w[2] = v[2]
    BY <2>1, <2>2
  <2>4. \A i \in 1 .. Len(w) : w[i] = v[i]
    <3>1. \A i \in 1 .. Len(w) : i = 1 \/ i = 2
      BY <2>3
    <3> QED BY <2>3, <3>1
  <2>5. w = v
    BY <2>1, <2>2, <2>3, <2>4, SeqEqual
  <2> QED BY <2>5 DEF u, v, w
<1> QED BY <1>1, <1>2, <1>3, Zenon

EachOfPair(G, x, y) == Each(G, <<x, y>>) = G[x] \o G[y]

LEMMA EachPair ==
  ASSUME NEW S, NEW W, NEW G \in [S -> Seq(W)], NEW x \in S, NEW y \in S
  PROVE  EachOfPair(G, x, y)
<1>1. <<x>> \in Seq(S) /\ <<y>> \in Seq(S) /\ <<x>> \o <<y>> = <<x, y>> /\ <<x, y>> \in Seq(S)
  BY PairJoined
<1>2. \A e \in S : Each(G, <<e>>) = G[e]
  BY EachSingle
<1>3. EachOfBoth(G, <<x>>, <<y>>)
  BY <1>1, EachTwo
<1>4. Each(G, <<x>> \o <<y>>) = Each(G, <<x>>) \o Each(G, <<y>>)
  BY <1>3, Zenon DEF EachOfBoth
<1>5. Each(G, <<x>>) = G[x] /\ Each(G, <<y>>) = G[y]
  BY <1>2
<1> QED BY <1>1, <1>4, <1>5, Zenon DEF EachOfPair
=============================================================================
