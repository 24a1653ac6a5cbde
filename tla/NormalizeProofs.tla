----------------------------- MODULE NormalizeProofs -----------------------------
(***************************************************************************)
(* What holds of the templates of every line, for every vocabulary.          *)
(***************************************************************************)
EXTENDS NormalizeProperties, PicksFacts, FiniteSetTheorems

(* FlattenSeq, by its recursion. *)
Flattens(f, s, n) == f = [i \in 1..n |-> IF i = 1 THEN s[i] ELSE f[i - 1] \o s[i]]

LEMMA FlattensExists ==
  ASSUME NEW s, NEW n \in Nat PROVE \E f : Flattens(f, s, n)
<1> DEFINE Good == {m \in Nat : \E f : Flattens(f, s, m)}
<1>1. 0 \in Good
  <2> DEFINE f == [i \in 1..0 |-> <<>>]
  <2>1. Flattens(f, s, 0) BY DEF Flattens
  <2> QED BY <2>1
<1>2. ASSUME NEW m \in Nat, m \in Good PROVE m + 1 \in Good
  <2>1. PICK f : Flattens(f, s, m) BY <1>2
  <2> DEFINE last == IF m = 0 THEN s[m + 1] ELSE f[m] \o s[m + 1]
             g == [i \in 1..(m + 1) |-> IF i = m + 1 THEN last ELSE f[i]]
  <2>2. \A i \in 1..m : f[i] = IF i = 1 THEN s[i] ELSE f[i - 1] \o s[i]
    BY <2>1 DEF Flattens
  <2>3. ASSUME NEW i \in 1..(m + 1) PROVE g[i] = IF i = 1 THEN s[i] ELSE g[i - 1] \o s[i]
    <3>1. CASE i = m + 1 /\ m # 0
      <4>1. i - 1 = m /\ m \in 1..(m + 1) /\ m # m + 1 /\ i # 1 BY <3>1
      <4>2. g[m] = f[m] BY <4>1
      <4>3. g[i] = last BY <3>1
      <4>4. last = f[m] \o s[i] BY <3>1
      <4> HIDE DEF g, last
      <4> QED BY <4>1, <4>2, <4>3, <4>4
    <3>2. CASE i = m + 1 /\ m = 0 BY <3>2
    <3>3. CASE i # m + 1 /\ i # 1
      <4>1. i \in 1..m /\ i - 1 \in 1..m BY <3>3
      <4>2. g[i] = f[i] /\ g[i - 1] = f[i - 1] BY <4>1
      <4> QED BY <2>2, <3>3, <4>1, <4>2
    <3>4. CASE i # m + 1 /\ i = 1
      <4>1. i \in 1..m BY <3>4
      <4>2. g[i] = f[i] BY <4>1
      <4> QED BY <2>2, <3>4, <4>1, <4>2
    <3> QED BY <3>1, <3>2, <3>3, <3>4
  <2>4. g = [i \in 1..(m + 1) |-> g[i]] OBVIOUS
  <2> HIDE DEF g
  <2>5. Flattens(g, s, m + 1) BY <2>3, <2>4 DEF Flattens
  <2> QED BY <2>5
<1> HIDE DEF Good
<1>3. Nat \subseteq Good BY <1>1, <1>2, NatInduct
<1>4. n \in Good BY <1>3
<1> QED BY <1>4 DEF Good

LEMMA FlattensAgrees ==
  ASSUME NEW s, NEW n \in Nat \ {0}, NEW f, Flattens(f, s, n),
         NEW t, NEW m \in Nat, NEW g, Flattens(g, t, m), n <= m, \A i \in 1..n : s[i] = t[i]
  PROVE  f[n] = g[n]
<1> DEFINE Good == {k \in Nat : k \in 1..n => f[k] = g[k]}
<1>1. /\ \A i \in 1..n : f[i] = IF i = 1 THEN s[i] ELSE f[i - 1] \o s[i]
      /\ \A i \in 1..m : g[i] = IF i = 1 THEN t[i] ELSE g[i - 1] \o t[i]
  BY DEF Flattens
<1>2. 0 \in Good
  OBVIOUS
<1>3. ASSUME NEW k \in Nat, k \in Good PROVE k + 1 \in Good
  <2> SUFFICES ASSUME k + 1 <= n PROVE f[k + 1] = g[k + 1]
    OBVIOUS
  <2>1. s[k + 1] = t[k + 1] /\ k + 1 \in 1..n /\ k + 1 \in 1..m /\ (k + 1) - 1 = k
    OBVIOUS
  <2>2. CASE k = 0 BY <1>1, <2>1, <2>2
  <2>3. CASE k # 0
    <3>1. f[k] = g[k] /\ k + 1 # 1 BY <1>3, <2>3
    <3> QED BY <1>1, <2>1, <3>1
  <2> QED BY <2>2, <2>3
<1> HIDE DEF Good
<1>4. Nat \subseteq Good BY <1>2, <1>3, NatInduct
<1>5. n \in Good BY <1>4
<1> QED BY <1>5 DEF Good

LEMMA FlattenIs ==
  ASSUME NEW s, Len(s) \in Nat \ {0} PROVE \E f : Flattens(f, s, Len(s)) /\ FlattenSeq(s) = f[Len(s)]
<1> DEFINE f == CHOOSE h : Flattens(h, s, Len(s))
<1>1. Flattens(f, s, Len(s)) BY FlattensExists
<1>2. FlattenSeq(s) = f[Len(s)] BY DEF FlattenSeq, Flattens
<1> QED BY <1>1, <1>2

LEMMA FlattenEmpty == FlattenSeq(<<>>) = <<>>
<1>1. Len(<<>>) = 0 OBVIOUS
<1> QED BY <1>1 DEF FlattenSeq

(* Part by part. *)
LEMMA FlattenAppend ==
  ASSUME NEW S, NEW s \in Seq(Seq(S)), NEW e \in Seq(S)
  PROVE  FlattenSeq(Append(s, e)) = FlattenSeq(s) \o e
<1> DEFINE n == Len(s)  t == Append(s, e)
<1>1. n \in Nat /\ Len(t) = n + 1 /\ t[n + 1] = e /\ \A i \in 1..n : s[i] = t[i]
  OBVIOUS
<1>2. n = 0 => s = <<>> OBVIOUS
<1> HIDE DEF n, t
<1>3. PICK g : Flattens(g, t, n + 1) /\ FlattenSeq(t) = g[n + 1] BY <1>1, FlattenIs
<1>4. g[n + 1] = IF n + 1 = 1 THEN e ELSE g[n] \o e
  <2>1. n + 1 \in 1..(n + 1) /\ (n + 1) - 1 = n BY <1>1
  <2>2. g[n + 1] = IF n + 1 = 1 THEN t[n + 1] ELSE g[(n + 1) - 1] \o t[n + 1]
    BY <1>3, <2>1 DEF Flattens
  <2> QED BY <1>1, <2>1, <2>2
<1>5. CASE n = 0
  <2>1. FlattenSeq(s) = <<>> BY <1>2, <1>5, FlattenEmpty
  <2>2. <<>> \o e = e BY ConcatEmptySeq
  <2> QED BY <1>3, <1>4, <1>5, <2>1, <2>2 DEF t
<1>6. CASE n # 0
  <2>1. PICK f : Flattens(f, s, n) /\ FlattenSeq(s) = f[n] BY <1>1, <1>6, FlattenIs DEF n
  <2>2. f[n] = g[n]
    <3>1. n + 1 \in Nat /\ n <= n + 1 BY <1>1
    <3>2. Flattens(f, s, n) /\ Flattens(g, t, n + 1) BY <1>3, <2>1
    <3>3. n \in Nat /\ \A i \in 1..n : s[i] = t[i] BY <1>1
    <3> DEFINE m == n + 1
    <3>4. m \in Nat /\ n <= m /\ Flattens(g, t, m) BY <3>1, <3>2
    <3> HIDE DEF m
    <3> QED BY <1>6, <3>2, <3>3, <3>4, FlattensAgrees
  <2>3. n \in 1..n /\ n + 1 # 1 BY <1>1, <1>6
  <2> QED BY <1>3, <1>4, <2>1, <2>2, <2>3 DEF t
<1> QED BY <1>5, <1>6

LEMMA FlattenType ==
  ASSUME NEW S, NEW s \in Seq(Seq(S)) PROVE FlattenSeq(s) \in Seq(S)
<1> DEFINE T == {t \in Seq(Seq(S)) : FlattenSeq(t) \in Seq(S)}
<1>1. <<>> \in T BY FlattenEmpty, EmptySeq
<1>2. ASSUME NEW t \in Seq(Seq(S)), NEW e \in Seq(S), t \in T PROVE Append(t, e) \in T
  <2>1. FlattenSeq(Append(t, e)) = FlattenSeq(t) \o e BY FlattenAppend
  <2>2. FlattenSeq(t) \o e \in Seq(S) BY <1>2, ConcatProperties
  <2>3. Append(t, e) \in Seq(Seq(S)) OBVIOUS
  <2> QED BY <2>1, <2>2, <2>3
<1> HIDE DEF T
<1>3. Seq(Seq(S)) \subseteq T BY <1>1, <1>2, SeqInduct
<1>4. s \in T BY <1>3
<1> QED BY <1>4 DEF T

LEMMA FlattenConcat ==
  ASSUME NEW S, NEW s \in Seq(Seq(S)), NEW t \in Seq(Seq(S))
  PROVE  FlattenSeq(s \o t) = FlattenSeq(s) \o FlattenSeq(t)
<1> DEFINE T == {u \in Seq(Seq(S)) : FlattenSeq(s \o u) = FlattenSeq(s) \o FlattenSeq(u)}
<1>0. FlattenSeq(s) \in Seq(S) BY FlattenType
<1>1. <<>> \in T
  <2>1. s \o <<>> = s /\ FlattenSeq(s) \o <<>> = FlattenSeq(s) BY <1>0, ConcatEmptySeq
  <2>2. <<>> \in Seq(Seq(S)) /\ FlattenSeq(<<>>) = <<>> BY FlattenEmpty, EmptySeq
  <2> QED BY <2>1, <2>2
<1>2. ASSUME NEW u \in Seq(Seq(S)), NEW e \in Seq(S), u \in T PROVE Append(u, e) \in T
  <2>1. s \o Append(u, e) = Append(s \o u, e) /\ s \o u \in Seq(Seq(S)) OBVIOUS
  <2>2. FlattenSeq(u) \in Seq(S) BY FlattenType
  <2>3. FlattenSeq(Append(s \o u, e)) = FlattenSeq(s \o u) \o e BY <2>1, FlattenAppend
  <2>4. FlattenSeq(Append(u, e)) = FlattenSeq(u) \o e BY FlattenAppend
  <2>5. (FlattenSeq(s) \o FlattenSeq(u)) \o e = FlattenSeq(s) \o (FlattenSeq(u) \o e)
    <3> DEFINE a == FlattenSeq(s)  b == FlattenSeq(u)
    <3>1. a \in Seq(S) /\ b \in Seq(S) /\ e \in Seq(S) BY <1>0, <2>2
    <3> HIDE DEF a, b
    <3>2. (a \o b) \o e = a \o (b \o e) BY <3>1, ConcatAssociative, SMTT(30)
    <3> QED BY <3>2 DEF a, b
  <2>6. FlattenSeq(s \o u) = FlattenSeq(s) \o FlattenSeq(u) BY <1>2
  <2>7. FlattenSeq(s \o Append(u, e)) = FlattenSeq(s) \o FlattenSeq(Append(u, e))
    BY <2>1, <2>3, <2>4, <2>5, <2>6
  <2>8. Append(u, e) \in Seq(Seq(S)) OBVIOUS
  <2> QED BY <2>7, <2>8
<1> HIDE DEF T
<1>3. Seq(Seq(S)) \subseteq T BY <1>1, <1>2, SeqInduct
<1>4. t \in T BY <1>3
<1> QED BY <1>4 DEF T

(* What a sequence consists of. *)
Vals(s) == {s[i] : i \in 1..Len(s)}

LEMMA ValsConcat ==
  ASSUME NEW S, NEW s \in Seq(S), NEW t \in Seq(S) PROVE Vals(s \o t) = Vals(s) \cup Vals(t)
<1>1. /\ Len(s) \in Nat /\ Len(t) \in Nat /\ Len(s \o t) = Len(s) + Len(t)
      /\ \A i \in 1..Len(s) : (s \o t)[i] = s[i]
      /\ \A i \in 1..Len(t) : (s \o t)[Len(s) + i] = t[i]
  OBVIOUS
<1> DEFINE u == s \o t  m == Len(s)  n == Len(t)
<1> HIDE DEF u, m, n
<1>2. m \in Nat /\ n \in Nat /\ Len(u) = m + n
      /\ (\A i \in 1..m : u[i] = s[i]) /\ \A i \in 1..n : u[m + i] = t[i]
  BY <1>1 DEF u, m, n
<1>3. ASSUME NEW x \in Vals(u) PROVE x \in Vals(s) \cup Vals(t)
  <2>1. PICK i \in 1..(m + n) : x = u[i] BY <1>2, <1>3 DEF Vals
  <2>2. CASE i <= m BY <1>2, <2>1, <2>2 DEF Vals, m
  <2>3. CASE i > m
    <3>1. i - m \in 1..n /\ m + (i - m) = i BY <1>2, <2>1, <2>3
    <3>2. u[i] = t[i - m] BY <1>2, <3>1
    <3> QED BY <2>1, <3>1, <3>2 DEF Vals, n
  <2> QED BY <1>2, <2>1, <2>2, <2>3
<1>4. Vals(s) \subseteq Vals(u)
  <2>1. \A i \in 1..m : i \in 1..(m + n) BY <1>2
  <2> QED BY <1>2, <2>1 DEF Vals, m
<1>5. Vals(t) \subseteq Vals(u)
  <2>1. \A i \in 1..n : m + i \in 1..(m + n) BY <1>2
  <2> QED BY <1>2, <2>1 DEF Vals, n
<1> QED BY <1>3, <1>4, <1>5 DEF u

LEMMA ValsAppend ==
  ASSUME NEW S, NEW s \in Seq(S), NEW e \in S PROVE Vals(Append(s, e)) = Vals(s) \cup {e}
<1>1. Append(s, e) = s \o <<e>> /\ <<e>> \in Seq(S) OBVIOUS
<1>2. Vals(<<e>>) = {e}
  <2>1. Len(<<e>>) = 1 /\ <<e>>[1] = e /\ 1..1 = {1} OBVIOUS
  <2> QED BY <2>1 DEF Vals
<1>3. Vals(s \o <<e>>) = Vals(s) \cup Vals(<<e>>)
  <2> DEFINE one == <<e>>
  <2>1. one \in Seq(S) BY <1>1
  <2> HIDE DEF one
  <2>2. Vals(s \o one) = Vals(s) \cup Vals(one) BY <2>1, ValsConcat
  <2> QED BY <2>2 DEF one
<1> QED BY <1>1, <1>2, <1>3

LEMMA ValsEmpty == Vals(<<>>) = {}
<1>1. Len(<<>>) = 0 /\ 1..0 = {} OBVIOUS
<1> QED BY <1>1 DEF Vals

LEMMA FlattenVals ==
  ASSUME NEW S, NEW s \in Seq(Seq(S))
  PROVE  Vals(FlattenSeq(s)) = UNION {Vals(e) : e \in Vals(s)}
<1> DEFINE T == {t \in Seq(Seq(S)) : Vals(FlattenSeq(t)) = UNION {Vals(e) : e \in Vals(t)}}
<1>1. <<>> \in T
  <2>1. <<>> \in Seq(Seq(S)) BY EmptySeq
  <2> QED BY <2>1, FlattenEmpty, ValsEmpty
<1>2. ASSUME NEW t \in Seq(Seq(S)), NEW e \in Seq(S), t \in T PROVE Append(t, e) \in T
  <2>1. FlattenSeq(Append(t, e)) = FlattenSeq(t) \o e BY FlattenAppend
  <2>2. FlattenSeq(t) \in Seq(S) BY FlattenType
  <2>3. Vals(FlattenSeq(t) \o e) = Vals(FlattenSeq(t)) \cup Vals(e) BY <2>2, ValsConcat
  <2>4. Vals(Append(t, e)) = Vals(t) \cup {e} BY ValsAppend
  <2>5. Vals(FlattenSeq(t)) = UNION {Vals(d) : d \in Vals(t)} BY <1>2
  <2>6. UNION {Vals(d) : d \in Vals(t) \cup {e}} = (UNION {Vals(d) : d \in Vals(t)}) \cup Vals(e)
    OBVIOUS
  <2>7. Append(t, e) \in Seq(Seq(S)) OBVIOUS
  <2> QED BY <2>1, <2>3, <2>4, <2>5, <2>6, <2>7
<1> HIDE DEF T
<1>3. Seq(Seq(S)) \subseteq T BY <1>1, <1>2, SeqInduct
<1>4. s \in T BY <1>3
<1> QED BY <1>4 DEF T

LEMMA FlattenShort ==
  ASSUME NEW S, NEW s \in Seq(Seq(S)), \A i \in 1..Len(s) : Len(s[i]) <= 1
  PROVE  Len(FlattenSeq(s)) <= Len(s)
<1> DEFINE T == {t \in Seq(Seq(S)) : (\A i \in 1..Len(t) : Len(t[i]) <= 1) => Len(FlattenSeq(t)) <= Len(t)}
<1>1. <<>> \in T
  <2>1. Len(<<>>) = 0 /\ <<>> \in Seq(Seq(S)) BY EmptySeq
  <2> QED BY <2>1, FlattenEmpty
<1>2. ASSUME NEW t \in Seq(Seq(S)), NEW e \in Seq(S), t \in T PROVE Append(t, e) \in T
  <2> DEFINE u == Append(t, e)
  <2> SUFFICES ASSUME \A i \in 1..Len(u) : Len(u[i]) <= 1 PROVE Len(FlattenSeq(u)) <= Len(u)
    <3>1. Append(t, e) \in Seq(Seq(S)) OBVIOUS
    <3> QED BY <3>1
  <2>1. /\ Len(t) \in Nat /\ Len(u) = Len(t) + 1 /\ u[Len(t) + 1] = e
        /\ \A i \in 1..Len(t) : u[i] = t[i]
    OBVIOUS
  <2>2. FlattenSeq(u) = FlattenSeq(t) \o e BY FlattenAppend
  <2> HIDE DEF u
  <2>3. Len(e) <= 1 /\ \A i \in 1..Len(t) : Len(t[i]) <= 1 BY <2>1
  <2>4. Len(FlattenSeq(t)) <= Len(t) BY <1>2, <2>3
  <2>5. FlattenSeq(t) \in Seq(S) BY FlattenType
  <2>6. Len(FlattenSeq(t) \o e) = Len(FlattenSeq(t)) + Len(e) BY <2>5
  <2>7. Len(FlattenSeq(t)) \in Nat /\ Len(e) \in Nat BY <2>5
  <2> QED BY <2>1, <2>2, <2>3, <2>4, <2>6, <2>7
<1> HIDE DEF T
<1>3. Seq(Seq(S)) \subseteq T BY <1>1, <1>2, SeqInduct
<1>4. s \in T BY <1>3
<1> QED BY <1>4 DEF T

LEMMA FlattenSingles ==
  ASSUME NEW S, NEW s \in Seq(S) PROVE FlattenSeq([i \in 1..Len(s) |-> <<s[i]>>]) = s
<1> DEFINE One(t) == [i \in 1..Len(t) |-> <<t[i]>>]
           T == {t \in Seq(S) : FlattenSeq(One(t)) = t}
<1>1. <<>> \in T
  <2>1. One(<<>>) = <<>> /\ <<>> \in Seq(S) OBVIOUS
  <2> HIDE DEF One
  <2> QED BY <2>1, FlattenEmpty
<1>2. ASSUME NEW t \in Seq(S), NEW e \in S, t \in T PROVE Append(t, e) \in T
  <2> DEFINE u == Append(t, e)  n == Len(t)
  <2>1. n \in Nat /\ Len(u) = n + 1 /\ u[n + 1] = e /\ \A i \in 1..n : u[i] = t[i] OBVIOUS
  <2>2. One(t) \in Seq(Seq(S)) /\ Len(One(t)) = n
    <3>1. \A i \in 1..n : <<t[i]>> \in Seq(S) OBVIOUS
    <3> QED BY <3>1
  <2>3. <<e>> \in Seq(S) OBVIOUS
  <2>4. One(u) = Append(One(t), <<e>>)
    <3> DEFINE a == Append(One(t), <<e>>)
    <3>1. /\ a \in Seq(Seq(S)) /\ Len(a) = n + 1 /\ a[n + 1] = <<e>>
          /\ \A i \in 1..n : a[i] = One(t)[i]
      <4> HIDE DEF One
      <4> QED BY <2>1, <2>2, <2>3
    <3>2. \A i \in 1..n : One(t)[i] = <<t[i]>> OBVIOUS
    <3>3. One(u) = [i \in 1..(n + 1) |-> <<u[i]>>] BY <2>1
    <3>4. \A i \in 1..(n + 1) : One(u)[i] = <<u[i]>> BY <3>3
    <3>5. One(u) \in Seq(Seq(S)) /\ Len(One(u)) = n + 1
      <4>1. \A i \in 1..(n + 1) : <<u[i]>> \in Seq(S) OBVIOUS
      <4> QED BY <2>1, <3>3, <4>1
    <3> HIDE DEF One, a, u, n
    <3>6. ASSUME NEW i \in 1..(n + 1) PROVE One(u)[i] = a[i]
      <4>1. CASE i = n + 1 BY <2>1, <3>1, <3>4, <4>1
      <4>2. CASE i # n + 1
        <5>1. i \in 1..n BY <2>1, <4>2
        <5>2. a[i] = <<t[i]>> BY <3>1, <3>2, <5>1
        <5>3. u[i] = t[i] BY <2>1, <5>1
        <5> QED BY <3>4, <5>2, <5>3
      <4> QED BY <4>1, <4>2
    <3>7. One(u) = a BY <3>1, <3>5, <3>6, SeqEqual
    <3> QED BY <3>7 DEF a
  <2> HIDE DEF One, n
  <2>5. FlattenSeq(One(u)) = FlattenSeq(One(t)) \o <<e>> BY <2>2, <2>3, <2>4, FlattenAppend
  <2>6. FlattenSeq(One(t)) = t BY <1>2
  <2>7. t \o <<e>> = u /\ u \in Seq(S) OBVIOUS
  <2> QED BY <2>5, <2>6, <2>7
<1> HIDE DEF T
<1>3. Seq(S) \subseteq T BY <1>1, <1>2, SeqInduct
<1>4. s \in T BY <1>3
<1> QED BY <1>4 DEF T

LEMMA FlattenSplit ==
  ASSUME NEW S, NEW s \in Seq(Seq(S)), NEW m \in 0..Len(s)
  PROVE  FlattenSeq(s) = FlattenSeq(SubSeq(s, 1, m)) \o FlattenSeq(SubSeq(s, m + 1, Len(s)))
<1> DEFINE a == SubSeq(s, 1, m)  b == SubSeq(s, m + 1, Len(s))
<1>1. a \in Seq(Seq(S)) /\ b \in Seq(Seq(S)) OBVIOUS
<1>2. s = a \o b
  <2>1. Len(s) \in Nat /\ 1 \in 1..(Len(s) + 1) /\ m \in (1 - 1)..Len(s) /\ Len(s) \in m..Len(s) OBVIOUS
  <2>2. a \o b = SubSeq(s, 1, Len(s)) BY <2>1, ConcatAdjacentSubSeq
  <2> QED BY <2>2, SubSeqFull
<1> HIDE DEF a, b
<1>3. FlattenSeq(a \o b) = FlattenSeq(a) \o FlattenSeq(b) BY <1>1, FlattenConcat
<1> QED BY <1>2, <1>3 DEF a, b

-----------------------------------------------------------------------------
(* Suffixes, least elements, induction downwards. *)
LEMMA DownInduct ==
  ASSUME NEW n \in Nat, NEW T, \A i \in 1..n : (\A j \in 1..n : j > i => j \in T) => i \in T
  PROVE  1..n \subseteq T
<1> SUFFICES ASSUME NEW x \in 1..n, x \notin T PROVE FALSE
  OBVIOUS
<1> DEFINE D == {n - i : i \in (1..n) \ T}
<1>1. D \subseteq Nat /\ n - x \in D OBVIOUS
<1>2. PICK d \in D : \A e \in D : d <= e
  <2> HIDE DEF D
  <2> QED BY <1>1, Least
<1>3. PICK i \in (1..n) \ T : d = n - i BY <1>2
<1>4. ASSUME NEW j \in 1..n, j > i PROVE j \in T
  <2> SUFFICES ASSUME j \notin T PROVE FALSE
    OBVIOUS
  <2>1. n - j \in D OBVIOUS
  <2>2. d <= n - j BY <1>2, <2>1
  <2> QED BY <1>3, <1>4, <2>2
<1> QED BY <1>3, <1>4

LEMMA MinIs ==
  ASSUME NEW D, D \subseteq Nat, D # {} PROVE Min(D) \in D /\ \A y \in D : Min(D) <= y
<1>1. \E n \in D : \A m \in D : n <= m BY Least
<1> QED BY <1>1 DEF Min

LEMMA FromIs ==
  ASSUME NEW S, NEW s \in Seq(S), NEW i \in 1..(Len(s) + 1)
  PROVE  /\ From(s, i) \in Seq(S) /\ Len(From(s, i)) = Len(s) - i + 1
         /\ \A j \in 1..(Len(s) - i + 1) : From(s, i)[j] = s[i + j - 1]
<1>1. Len(s) \in Nat /\ i \in Int /\ Len(s) \in Int OBVIOUS
<1>2. \A j \in i..Len(s) : s[j] \in S OBVIOUS
<1>3. /\ SubSeq(s, i, Len(s)) \in Seq(S)
      /\ Len(SubSeq(s, i, Len(s))) = IF i <= Len(s) THEN Len(s) - i + 1 ELSE 0
      /\ \A j \in 1 .. Len(s) - i + 1 : SubSeq(s, i, Len(s))[j] = s[i + j - 1]
  BY <1>1, <1>2, SubSeqProperties
<1>4. Len(From(s, i)) = Len(s) - i + 1
  BY <1>1, <1>3 DEF From
<1> QED BY <1>3, <1>4 DEF From

LEMMA FromFrom ==
  ASSUME NEW S, NEW s \in Seq(S), NEW i \in 1..Len(s), NEW j \in 1..(Len(s) - i + 1)
  PROVE  From(From(s, i), j) = From(s, i + j - 1)
<1> DEFINE u == From(s, i)  v == From(u, j)  w == From(s, i + j - 1)
<1>0. Len(s) \in Nat /\ i \in 1..(Len(s) + 1) /\ i + j - 1 \in 1..(Len(s) + 1) OBVIOUS
<1>1. /\ u \in Seq(S) /\ Len(u) = Len(s) - i + 1
      /\ \A k \in 1..(Len(s) - i + 1) : u[k] = s[i + k - 1]
  BY <1>0, FromIs
<1>2. /\ w \in Seq(S) /\ Len(w) = Len(s) - (i + j - 1) + 1
      /\ \A k \in 1..(Len(s) - (i + j - 1) + 1) : w[k] = s[(i + j - 1) + k - 1]
  BY <1>0, FromIs
<1> HIDE DEF u, w
<1>3. j \in 1..(Len(u) + 1) BY <1>0, <1>1
<1>4. /\ v \in Seq(S) /\ Len(v) = Len(u) - j + 1
      /\ \A k \in 1..(Len(u) - j + 1) : v[k] = u[j + k - 1]
  <2>1. \A r \in Seq(S) : \A k \in 1..(Len(r) + 1) :
          /\ From(r, k) \in Seq(S) /\ Len(From(r, k)) = Len(r) - k + 1
          /\ \A m \in 1..(Len(r) - k + 1) : From(r, k)[m] = r[k + m - 1]
    BY FromIs, Zenon
  <2>2. u \in Seq(S) BY <1>1
  <2> QED BY <1>3, <2>1, <2>2, Zenon
<1> HIDE DEF v
<1>5. Len(v) = Len(w) /\ Len(v) = Len(s) - i - j + 2 BY <1>0, <1>1, <1>2, <1>4
<1>6. ASSUME NEW k \in 1..Len(v) PROVE v[k] = w[k]
  <2>1. k \in 1..(Len(u) - j + 1) /\ k \in 1..(Len(s) - (i + j - 1) + 1) BY <1>0, <1>1, <1>5
  <2>2. j + k - 1 \in 1..(Len(s) - i + 1) BY <1>0, <1>1, <2>1
  <2>3. v[k] = s[i + (j + k - 1) - 1] BY <1>1, <1>4, <2>1, <2>2
  <2>4. w[k] = s[(i + j - 1) + k - 1] BY <1>2, <2>1
  <2>5. i + (j + k - 1) - 1 = (i + j - 1) + k - 1 BY <1>0, <2>1
  <2> QED BY <2>3, <2>4, <2>5
<1>7. v = w BY <1>2, <1>4, <1>5, <1>6, SeqEqual
<1> QED BY <1>7 DEF u, v, w

LEMMA FromOne == ASSUME NEW S, NEW s \in Seq(S) PROVE From(s, 1) = s
  BY SubSeqFull DEF From

LEMMA FrontIs ==
  ASSUME NEW S, NEW s \in Seq(S), NEW i \in 0..Len(s)
  PROVE  /\ SubSeq(s, 1, i) \in Seq(S) /\ Len(SubSeq(s, 1, i)) = i
         /\ \A j \in 1..i : SubSeq(s, 1, i)[j] = s[j]
<1>1. 1 \in Int /\ i \in Int /\ \A j \in 1..i : s[j] \in S OBVIOUS
<1>2. /\ SubSeq(s, 1, i) \in Seq(S)
      /\ Len(SubSeq(s, 1, i)) = IF 1 <= i THEN i - 1 + 1 ELSE 0
      /\ \A j \in 1 .. i - 1 + 1 : SubSeq(s, 1, i)[j] = s[1 + j - 1]
  BY <1>1, SubSeqProperties
<1>3. \A j \in 1..i : j \in 1..(i - 1 + 1) /\ 1 + j - 1 = j OBVIOUS
<1>4. Len(SubSeq(s, 1, i)) = i BY <1>2
<1>5. ASSUME NEW j \in 1..i PROVE SubSeq(s, 1, i)[j] = s[j] BY <1>2, <1>3
<1> QED BY <1>2, <1>4, <1>5

-----------------------------------------------------------------------------
(* The scan of a wrapper's arguments has a solution. *)
Visit(f, s, c, i, k) ==
  IF i > Len(s) THEN 0
  ELSE IF c.dashes /\ s[i] = DoubleDash THEN (IF i < Len(s) THEN i + 1 ELSE 0)
  ELSE IF c.flags /\ s[i] \in Flags
       THEN f[i + (IF s[i] \in c.valued \/ (c.short /\ s[i] \in ShortFlags) THEN 2 ELSE 1)][k]
  ELSE IF c.env /\ s[i] \in Assignments THEN f[i + 1][k]
  ELSE IF k < c.positional THEN f[i + 1][k + 1]
  ELSE i

Scans(f, s, c) == f = [i \in Nat |-> [k \in Nat |-> Visit(f, s, c, i, k)]]

LEMMA VisitAgrees ==
  ASSUME NEW s, NEW c, NEW i \in Nat, NEW k \in Nat, NEW f, NEW g,
         \A j \in Nat : \A l \in Nat : j > i => f[j][l] = g[j][l]
  PROVE  Visit(f, s, c, i, k) = Visit(g, s, c, i, k)
<1>1. /\ i + 1 \in Nat /\ i + 2 \in Nat /\ i + 1 > i /\ i + 2 > i /\ k + 1 \in Nat
  OBVIOUS
<1>2. f[i + 1][k] = g[i + 1][k] /\ f[i + 2][k] = g[i + 2][k] /\ f[i + 1][k + 1] = g[i + 1][k + 1]
  BY <1>1
<1> QED BY <1>2 DEF Visit

LEMMA ScansExists ==
  ASSUME NEW s, Len(s) \in Nat, NEW c PROVE \E f : Scans(f, s, c)
<1> DEFINE n == Len(s)
           Solves(f, m) == /\ f = [i \in Nat |-> [k \in Nat |-> f[i][k]]]
                           /\ \A i \in Nat : \A k \in Nat : i + m > n => f[i][k] = Visit(f, s, c, i, k)
           Good == {m \in Nat : \E f : Solves(f, m)}
<1>1. 0 \in Good
  <2> DEFINE f == [i \in Nat |-> [k \in Nat |-> 0]]
  <2>1. \A i \in Nat : \A k \in Nat : f[i][k] = 0 OBVIOUS
  <2>2. \A i \in Nat : \A k \in Nat : i + 0 > n => Visit(f, s, c, i, k) = 0 BY DEF Visit
  <2>3. f = [i \in Nat |-> [k \in Nat |-> f[i][k]]] OBVIOUS
  <2> HIDE DEF f
  <2>4. Solves(f, 0) BY <2>1, <2>2, <2>3
  <2> HIDE DEF Solves
  <2> QED BY <2>4
<1>2. ASSUME NEW m \in Nat, m \in Good PROVE m + 1 \in Good
  <2>1. PICK f : Solves(f, m) BY <1>2
  <2> DEFINE g == [i \in Nat |-> [k \in Nat |-> IF i + m > n THEN f[i][k] ELSE Visit(f, s, c, i, k)]]
  <2>2. \A i \in Nat : \A k \in Nat : g[i][k] = IF i + m > n THEN f[i][k] ELSE Visit(f, s, c, i, k)
    OBVIOUS
  <2>3. g = [i \in Nat |-> [k \in Nat |-> g[i][k]]] OBVIOUS
  <2> HIDE DEF g
  <2>4. ASSUME NEW i \in Nat, NEW k \in Nat, i + (m + 1) > n PROVE g[i][k] = Visit(g, s, c, i, k)
    <3>1. \A j \in Nat : \A l \in Nat : j > i => f[j][l] = g[j][l]
      <4> SUFFICES ASSUME NEW j \in Nat, NEW l \in Nat, j > i PROVE f[j][l] = g[j][l]
        OBVIOUS
      <4>1. j + m > n BY <2>4
      <4> QED BY <2>2, <4>1
    <3>2. Visit(f, s, c, i, k) = Visit(g, s, c, i, k) BY <3>1, VisitAgrees
    <3>3. i + m > n => f[i][k] = Visit(f, s, c, i, k) BY <2>1
    <3> QED BY <2>2, <3>2, <3>3
  <2>5. Solves(g, m + 1) BY <2>3, <2>4
  <2> HIDE DEF Solves
  <2> QED BY <2>5
<1> HIDE DEF Good
<1>3. Nat \subseteq Good BY <1>1, <1>2, NatInduct
<1>4. n + 1 \in Good BY <1>3
<1>5. PICK f : Solves(f, n + 1) BY <1>4 DEF Good
<1>6. \A i \in Nat : \A k \in Nat : f[i][k] = Visit(f, s, c, i, k)
  <2>1. \A i \in Nat : i + (n + 1) > n OBVIOUS
  <2> QED BY <1>5, <2>1
<1>7. f = [i \in Nat |-> [k \in Nat |-> f[i][k]]] BY <1>5
<1> QED BY <1>6, <1>7 DEF Scans

LEMMA FindInnerIs ==
  ASSUME NEW s, Len(s) \in Nat, NEW c
  PROVE  \E f : /\ FindInner(s, c) = f[2][0]
                /\ \A i \in Nat : \A k \in Nat : f[i][k] = Visit(f, s, c, i, k)
<1> DEFINE f == CHOOSE h : Scans(h, s, c)
<1>1. Scans(f, s, c) BY ScansExists
<1>2. FindInner(s, c) = f[2][0] BY DEF FindInner, Scans, Visit
<1>3. \A i \in Nat : \A k \in Nat : f[i][k] = Visit(f, s, c, i, k)
  <2> HIDE DEF f
  <2> SUFFICES ASSUME NEW i \in Nat, NEW k \in Nat PROVE f[i][k] = Visit(f, s, c, i, k)
    OBVIOUS
  <2> DEFINE row == [l \in Nat |-> Visit(f, s, c, i, l)]
  <2>1. f[i] = row BY <1>1 DEF Scans
  <2>2. row[k] = Visit(f, s, c, i, k) OBVIOUS
  <2> HIDE DEF row
  <2> QED BY <2>1, <2>2
<1> HIDE DEF f
<1> QED BY <1>2, <1>3

(* It finds a later word of the line, or none. *)
LEMMA FindInnerRange ==
  ASSUME NEW s \in Seq(Words), NEW c PROVE FindInner(s, c) \in {0} \cup 2..Len(s)
<1> DEFINE n == Len(s)
<1>0. n \in Nat OBVIOUS
<1> HIDE DEF n
<1>1. PICK f : /\ FindInner(s, c) = f[2][0]
               /\ \A i \in Nat : \A k \in Nat : f[i][k] = Visit(f, s, c, i, k)
  BY <1>0, FindInnerIs DEF n
<1> DEFINE T == {i \in 1..n : \A k \in Nat : f[i][k] \in {0} \cup i..n}
<1>2. \A i \in Nat : \A k \in Nat : i > n => f[i][k] = 0
  BY <1>1 DEF Visit, n
<1>3. ASSUME NEW i \in 1..n, \A j \in 1..n : j > i => j \in T PROVE i \in T
  <2> SUFFICES ASSUME NEW k \in Nat PROVE f[i][k] \in {0} \cup i..n
    OBVIOUS
  <2>1. ASSUME NEW j \in Nat, j > i, NEW l \in Nat PROVE f[j][l] \in {0} \cup i..n
    <3>1. CASE j > n BY <1>2, <2>1, <3>1
    <3>2. CASE j <= n
      <4>1. j \in T BY <1>3, <2>1, <3>2
      <4>2. f[j][l] \in {0} \cup j..n BY <4>1
      <4> QED BY <2>1, <4>2
    <3> QED BY <1>0, <3>1, <3>2
  <2>2. i \in Nat /\ i + 1 \in Nat /\ i + 2 \in Nat /\ k + 1 \in Nat /\ i + 1 > i /\ i + 2 > i
    BY <1>0
  <2>3. f[i + 1][k] \in {0} \cup i..n /\ f[i + 2][k] \in {0} \cup i..n /\ f[i + 1][k + 1] \in {0} \cup i..n
    BY <2>1, <2>2
  <2>4. f[i][k] = Visit(f, s, c, i, k) BY <1>1, <2>2
  <2>5. i < n => i + 1 \in i..n BY <1>0
  <2> QED BY <1>0, <2>3, <2>4, <2>5 DEF Visit, n
<1> HIDE DEF T
<1>4. 1..n \subseteq T BY <1>0, <1>3, DownInduct
<1>5. CASE n >= 2
  <2>1. 2 \in T BY <1>0, <1>4, <1>5
  <2>2. f[2][0] \in {0} \cup 2..n BY <2>1 DEF T
  <2> QED BY <1>1, <2>2 DEF n
<1>6. CASE n < 2 BY <1>0, <1>1, <1>2, <1>6
<1> QED BY <1>0, <1>5, <1>6

(* What stops flock's own arguments, and where the command is then. *)
Files(s) == {i \in 2..Len(s) : s[i] \notin Flags \/ s[i] = Dash}
Stops(s) == {i \in 2..Len(s) : s[i] \in CommandFlags \/ (i \in Files(s) /\ \E j \in Files(s) : j < i)}

LEMMA FlockIndexIs ==
  ASSUME NEW s \in Seq(Words)
  PROVE  \/ Stops(s) = {} /\ FlockIndex(s) = 0
         \/ \E i \in Stops(s) :
              /\ \A j \in Stops(s) : i <= j
              /\ FlockIndex(s) = IF s[i] \notin CommandFlags THEN i ELSE IF i < Len(s) THEN i + 1 ELSE 0
<1> DEFINE stop == IF Stops(s) = {} THEN 0 ELSE Min(Stops(s))
<1>1. FlockIndex(s) = IF stop = 0 THEN 0 ELSE IF s[stop] \notin CommandFlags THEN stop
                      ELSE IF stop < Len(s) THEN stop + 1 ELSE 0
  BY DEF FlockIndex, Stops, Files, Earliest
<1>2. Stops(s) \subseteq Nat \ {0} BY DEF Stops
<1>3. CASE Stops(s) = {} BY <1>1, <1>3
<1>4. CASE Stops(s) # {}
  <2>1. stop \in Stops(s) /\ \A j \in Stops(s) : stop <= j BY <1>2, <1>4, MinIs
  <2>2. stop # 0 BY <1>2, <2>1
  <2> HIDE DEF stop
  <2>3. FlockIndex(s) = IF s[stop] \notin CommandFlags THEN stop ELSE IF stop < Len(s) THEN stop + 1 ELSE 0
    BY <1>1, <2>2
  <2> QED BY <2>1, <2>3
<1> QED BY <1>3, <1>4

LEMMA WrapperIndexRange ==
  ASSUME NEW s \in Seq(Words) PROVE WrapperIndex(s) \in {0} \cup 2..Len(s)
<1>1. Len(s) \in Nat OBVIOUS
<1>2. CASE s[1] = Flock
  <2>1. CASE Stops(s) = {} BY <1>2, <2>1, FlockIndexIs DEF WrapperIndex
  <2>2. CASE Stops(s) # {}
    <3>1. PICK i \in Stops(s) :
            FlockIndex(s) = IF s[i] \notin CommandFlags THEN i ELSE IF i < Len(s) THEN i + 1 ELSE 0
      BY <2>2, FlockIndexIs
    <3>2. i \in 2..Len(s) BY <3>1 DEF Stops
    <3>3. FlockIndex(s) \in {0} \cup 2..Len(s) BY <1>1, <3>1, <3>2
    <3> QED BY <1>2, <3>3 DEF WrapperIndex
  <2> QED BY <2>1, <2>2
<1>3. CASE s[1] # Flock
  <2>1. FindInner(s, Wrappers[s[1]]) \in {0} \cup 2..Len(s) BY FindInnerRange
  <2> QED BY <1>3, <2>1 DEF WrapperIndex
<1> QED BY <1>2, <1>3

(* Where bare assignments end. *)
LEMMA StripIs ==
  ASSUME NEW s \in Seq(Words), s # <<>>
  PROVE  \E k \in 1..Len(s) : /\ StripAssignments(s) = From(s, k)
                              /\ s[k] \notin Assignments \ Flags \/ k = Len(s)
                              /\ \A i \in 1..(k - 1) : s[i] \in Assignments \ Flags
<1> DEFINE D == {i \in DOMAIN s : s[i] \notin Assignments \ Flags \/ i = Len(s)}
<1>1. Len(s) \in Nat \ {0} /\ DOMAIN s = 1..Len(s) BY EmptySeq
<1>2. D \subseteq Nat /\ D # {} BY <1>1
<1>3. StripAssignments(s) = From(s, Min(D)) BY DEF StripAssignments
<1>4. D \subseteq 1..Len(s) BY <1>1
<1>5. \A i \in D : s[i] \notin Assignments \ Flags \/ i = Len(s) OBVIOUS
<1>6. \A i \in 1..Len(s) : i \notin D => s[i] \in Assignments \ Flags BY <1>1
<1> HIDE DEF D
<1>7. Min(D) \in D /\ \A y \in D : Min(D) <= y BY <1>2, MinIs
<1> DEFINE k == Min(D)
<1> HIDE DEF k
<1>8. k \in D /\ k \in 1..Len(s) /\ \A y \in D : k <= y BY <1>4, <1>7 DEF k
<1>9. ASSUME NEW i \in 1..(k - 1) PROVE s[i] \in Assignments \ Flags
  <2>1. i \in 1..Len(s) /\ ~(k <= i) BY <1>1, <1>8
  <2> QED BY <1>6, <1>8, <2>1
<1> QED BY <1>3, <1>5, <1>8, <1>9 DEF k

-----------------------------------------------------------------------------
(* From wrapper to wrapped command: a chain of jumps. *)
Inner(t, i) == IF i < Len(t) THEN WrapperIndex(From(t, i)) ELSE 0
Jumps(f, t) ==
  \A i \in 1..Len(t) : f[i] = IF Inner(t, i) = 0 THEN i ELSE f[i + Inner(t, i) - 1]

LEMMA InnerRange ==
  ASSUME NEW t \in Seq(Words), NEW i \in 1..Len(t)
  PROVE  Inner(t, i) = 0 \/ (Inner(t, i) \in Nat /\ Inner(t, i) >= 2 /\ i + Inner(t, i) - 1 \in (i + 1)..Len(t))
<1>1. Len(t) \in Nat /\ i \in 1..(Len(t) + 1) OBVIOUS
<1>2. From(t, i) \in Seq(Words) /\ Len(From(t, i)) = Len(t) - i + 1 BY <1>1, FromIs
<1>3. WrapperIndex(From(t, i)) \in {0} \cup 2..(Len(t) - i + 1) BY <1>2, WrapperIndexRange
<1> QED BY <1>1, <1>3 DEF Inner

JumpsBy(f, t) == f = [i \in 1..Len(t) |-> IF Inner(t, i) = 0 THEN i ELSE f[i + Inner(t, i) - 1]]

LEMMA JumpsExists ==
  ASSUME NEW t \in Seq(Words) PROVE \E f : JumpsBy(f, t)
<1> DEFINE n == Len(t)
           Value(f, i) == IF Inner(t, i) = 0 THEN i ELSE f[i + Inner(t, i) - 1]
           Solves(f, m) == /\ f = [i \in 1..n |-> f[i]]
                           /\ \A i \in 1..n : i + m > n => f[i] = Value(f, i)
           Good == {m \in Nat : \E f : Solves(f, m)}
<1>0. n \in Nat OBVIOUS
<1>1. 0 \in Good
  <2> DEFINE f == [i \in 1..n |-> 0]
  <2>1. f = [i \in 1..n |-> f[i]] OBVIOUS
  <2>2. \A i \in 1..n : ~(i + 0 > n) OBVIOUS
  <2> HIDE DEF f
  <2>3. Solves(f, 0) BY <2>1, <2>2
  <2> HIDE DEF Solves
  <2> QED BY <2>3
<1>2. ASSUME NEW m \in Nat, m \in Good PROVE m + 1 \in Good
  <2>1. PICK f : Solves(f, m) BY <1>2
  <2> DEFINE g == [i \in 1..n |-> IF i + m > n THEN f[i] ELSE Value(f, i)]
  <2>2. \A i \in 1..n : g[i] = IF i + m > n THEN f[i] ELSE Value(f, i)
    <3> HIDE DEF Value
    <3> QED OBVIOUS
  <2>3. g = [i \in 1..n |-> g[i]]
    <3> HIDE DEF Value
    <3> QED OBVIOUS
  <2> HIDE DEF g
  <2>4. ASSUME NEW i \in 1..n, i + (m + 1) > n PROVE g[i] = Value(g, i)
    <3>1. Value(f, i) = Value(g, i)
      <4>1. CASE Inner(t, i) = 0 BY <4>1
      <4>2. CASE Inner(t, i) # 0
        <5> DEFINE j == i + Inner(t, i) - 1
        <5>1. j \in (i + 1)..n BY <4>2, InnerRange
        <5> HIDE DEF j
        <5>2. j \in 1..n /\ j + m > n BY <1>0, <2>4, <5>1
        <5>3. f[j] = g[j] BY <2>2, <5>2
        <5> QED BY <4>2, <5>3 DEF j
      <4> QED BY <4>1, <4>2
    <3>2. i + m > n => f[i] = Value(f, i) BY <2>1
    <3> HIDE DEF Value
    <3> QED BY <2>2, <3>1, <3>2
  <2> HIDE DEF Value
  <2>5. Solves(g, m + 1) BY <2>3, <2>4
  <2> HIDE DEF Solves
  <2> QED BY <2>5
<1> HIDE DEF Good
<1>3. Nat \subseteq Good BY <1>1, <1>2, NatInduct
<1>4. n + 1 \in Good BY <1>0, <1>3
<1>5. PICK f : Solves(f, n + 1) BY <1>4 DEF Good
<1>6. \A i \in 1..n : f[i] = Value(f, i)
  <2>1. \A i \in 1..n : i + (n + 1) > n BY <1>0
  <2> HIDE DEF Value
  <2> QED BY <1>5, <2>1
<1>7. f = [i \in 1..n |-> f[i]] BY <1>5
<1>8. f = [i \in 1..n |-> Value(f, i)]
  <2> HIDE DEF Value
  <2> QED BY <1>6, <1>7
<1> QED BY <1>8 DEF JumpsBy

(* Unwrap goes to the end of the chain. *)
LEMMA UnwrapIs ==
  ASSUME NEW s \in Seq(Words), StripAssignments(s) \in Seq(Words), StripAssignments(s) # <<>>
  PROVE  \E f : Jumps(f, StripAssignments(s)) /\ Unwrap(s) = From(StripAssignments(s), f[1])
<1> DEFINE t == StripAssignments(s)  f == CHOOSE h : JumpsBy(h, t)
<1>1. JumpsBy(f, t) BY JumpsExists
<1>2. Unwrap(s) = From(t, f[1]) BY DEF Unwrap, JumpsBy, Inner
<1> HIDE DEF f, t
<1>3. Jumps(f, t) BY <1>1 DEF JumpsBy, Jumps
<1> QED BY <1>2, <1>3 DEF t

(* It goes forward and ends where there is no wrapped command. *)
LEMMA JumpsRange ==
  ASSUME NEW t \in Seq(Words), NEW f, Jumps(f, t)
  PROVE  \A i \in 1..Len(t) : f[i] \in i..Len(t) /\ Inner(t, f[i]) = 0
<1> DEFINE n == Len(t)
           T == {i \in 1..n : f[i] \in i..n /\ Inner(t, f[i]) = 0}
<1>0. n \in Nat OBVIOUS
<1>1. ASSUME NEW i \in 1..n, \A j \in 1..n : j > i => j \in T PROVE i \in T
  <2>1. CASE Inner(t, i) = 0
    <3>1. f[i] = i BY <2>1 DEF Jumps
    <3> QED BY <1>0, <2>1, <3>1
  <2>2. CASE Inner(t, i) # 0
    <3> DEFINE j == i + Inner(t, i) - 1
    <3>1. f[i] = f[j] BY <2>2 DEF Jumps
    <3>2. j \in (i + 1)..n BY <2>2, InnerRange
    <3> HIDE DEF j
    <3>3. j \in T BY <1>0, <1>1, <3>2
    <3> QED BY <1>0, <3>1, <3>2, <3>3
  <2> QED BY <2>1, <2>2
<1> HIDE DEF T
<1>2. 1..n \subseteq T BY <1>0, <1>1, DownInduct
<1> QED BY <1>2 DEF T

LEMMA JumpsShift ==
  ASSUME NEW t \in Seq(Words), NEW m \in 1..Len(t), NEW f, NEW g, Jumps(f, t), Jumps(g, From(t, m))
  PROVE  \A i \in 1..Len(From(t, m)) : f[m + i - 1] = m + g[i] - 1
<1> DEFINE u == From(t, m)  n == Len(u)
           T == {i \in 1..n : f[m + i - 1] = m + g[i] - 1}
<1>0. Len(t) \in Nat /\ m \in 1..(Len(t) + 1) OBVIOUS
<1>1. u \in Seq(Words) /\ n = Len(t) - m + 1 BY <1>0, FromIs
<1>2. ASSUME NEW i \in 1..n PROVE m + i - 1 \in 1..Len(t) /\ Inner(u, i) = Inner(t, m + i - 1)
  <2>1. m + i - 1 \in 1..Len(t) /\ (i < n <=> m + i - 1 < Len(t)) BY <1>0, <1>1
  <2>2. i \in 1..(Len(t) - m + 1) BY <1>1
  <2>3. From(u, i) = From(t, m + i - 1) BY <2>2, FromFrom
  <2> QED BY <2>1, <2>3 DEF Inner
<1> HIDE DEF u, n
<1>3. ASSUME NEW i \in 1..n, \A j \in 1..n : j > i => j \in T PROVE i \in T
  <2>1. CASE Inner(u, i) = 0
    <3>1. g[i] = i BY <1>3, <2>1 DEF Jumps, u, n
    <3>2. f[m + i - 1] = m + i - 1 BY <1>2, <2>1 DEF Jumps
    <3> QED BY <3>1, <3>2
  <2>2. CASE Inner(u, i) # 0
    <3> DEFINE j == i + Inner(u, i) - 1
    <3>1. g[i] = g[j] BY <1>3, <2>2 DEF Jumps, u, n
    <3>2. f[m + i - 1] = f[(m + i - 1) + Inner(u, i) - 1] BY <1>2, <2>2 DEF Jumps
    <3>3. j \in (i + 1)..n /\ Inner(u, i) \in Nat BY <1>1, <2>2, InnerRange DEF n
    <3>4. (m + i - 1) + Inner(u, i) - 1 = m + j - 1 BY <1>0, <3>3
    <3> HIDE DEF j
    <3>5. j \in 1..n /\ j > i BY <1>0, <1>1, <3>3
    <3>6. f[m + j - 1] = m + g[j] - 1 BY <1>3, <3>5
    <3> QED BY <3>1, <3>2, <3>4, <3>6
  <2> QED BY <2>1, <2>2
<1> HIDE DEF T
<1>4. n \in Nat BY <1>0, <1>1
<1>5. 1..n \subseteq T BY <1>3, <1>4, DownInduct
<1> QED BY <1>5 DEF T, u, n

(* Unwrap leaves an end of the line. *)
LEMMA UnwrapRange ==
  ASSUME NEW s \in Seq(Words), s # <<>>
  PROVE  /\ Unwrap(s) \in Seq(Words) /\ Unwrap(s) # <<>>
         /\ \E p \in 1..Len(s) : Unwrap(s) = From(s, p)
<1> DEFINE t == StripAssignments(s)
<1>1. PICK k \in 1..Len(s) : t = From(s, k) BY StripIs
<1>2. Len(s) \in Nat /\ k \in 1..(Len(s) + 1) OBVIOUS
<1>3. t \in Seq(Words) /\ Len(t) = Len(s) - k + 1 BY <1>1, <1>2, FromIs
<1>4. t # <<>> BY <1>2, <1>3
<1>5. PICK f : Jumps(f, t) /\ Unwrap(s) = From(t, f[1]) BY <1>3, <1>4, UnwrapIs
<1> HIDE DEF t
<1>6. 1 \in 1..Len(t) BY <1>2, <1>3
<1>7. f[1] \in 1..Len(t) BY <1>3, <1>5, <1>6, JumpsRange
<1>8. From(t, f[1]) = From(s, k + f[1] - 1) BY <1>1, <1>3, <1>7, FromFrom
<1> DEFINE p == k + f[1] - 1
<1>9. p \in 1..Len(s) /\ p \in 1..(Len(s) + 1) BY <1>2, <1>3, <1>7
<1> HIDE DEF p
<1>10. Unwrap(s) = From(s, p) BY <1>5, <1>8 DEF p
<1>11. From(s, p) \in Seq(Words) /\ Len(From(s, p)) = Len(s) - p + 1 BY <1>9, FromIs
<1>12. From(s, p) # <<>> BY <1>2, <1>9, <1>11
<1> QED BY <1>9, <1>10, <1>11, <1>12

LEMMA StripNone ==
  ASSUME NEW s \in Seq(Words), s # <<>>, s[1] \notin Assignments \ Flags \/ Len(s) = 1
  PROVE  StripAssignments(s) = s
<1>1. Len(s) \in Nat \ {0} BY EmptySeq
<1>2. PICK k \in 1..Len(s) : StripAssignments(s) = From(s, k) /\ \A i \in 1..(k - 1) : s[i] \in Assignments \ Flags
  BY StripIs
<1>3. k = 1
  <2>1. CASE Len(s) = 1 BY <2>1
  <2>2. CASE s[1] \notin Assignments \ Flags
    <3>1. 1 \notin 1..(k - 1) BY <1>2, <2>2
    <3> QED BY <1>1, <3>1
  <2> QED BY <2>1, <2>2
<1> QED BY <1>2, <1>3, FromOne

Bare == Words \ (Assignments \cup DOMAIN Wrappers \cup {Flock})

LEMMA InnerNone ==
  ASSUME NEW t \in Seq(Words), NEW i \in 1..Len(t), t[i] \notin DOMAIN Wrappers \cup {Flock}
  PROVE  Inner(t, i) = 0
<1>1. i \in 1..(Len(t) + 1) /\ Len(t) \in Nat OBVIOUS
<1>2. \A j \in 1..(Len(t) - i + 1) : From(t, i)[j] = t[i + j - 1] BY <1>1, FromIs
<1>3. 1 \in 1..(Len(t) - i + 1) /\ i + 1 - 1 = i BY <1>1
<1>4. From(t, i)[1] = t[i] BY <1>2, <1>3
<1> QED BY <1>4 DEF Inner, WrapperIndex

LEMMA UnwrapPlain ==
  ASSUME NEW s \in Seq(Words), s # <<>>, s[1] \in Bare PROVE Unwrap(s) = s
<1>1. StripAssignments(s) = s BY StripNone DEF Bare
<1>2. PICK f : Jumps(f, s) /\ Unwrap(s) = From(s, f[1]) BY <1>1, UnwrapIs
<1>3. 1 \in 1..Len(s) BY EmptySeq
<1>4. Inner(s, 1) = 0 BY <1>3, InnerNone DEF Bare
<1>5. f[1] = 1 BY <1>2, <1>3, <1>4 DEF Jumps
<1> QED BY <1>2, <1>5, FromOne

(* What a wrapper wraps is unwrapped in its turn. *)
LEMMA UnwrapInner ==
  ASSUME NEW s \in Seq(Words), s # <<>>, s[1] \notin Assignments \ Flags,
         NEW m \in 2..Len(s), WrapperIndex(s) = m, s[m] \notin Assignments \ Flags
  PROVE  Unwrap(s) = Unwrap(From(s, m))
<1> DEFINE u == From(s, m)
<1>0. Len(s) \in Nat /\ m \in 1..(Len(s) + 1) /\ m \in 1..Len(s) OBVIOUS
<1>1. /\ u \in Seq(Words) /\ Len(u) = Len(s) - m + 1
      /\ \A j \in 1..(Len(s) - m + 1) : u[j] = s[m + j - 1]
  BY <1>0, FromIs
<1>2. u # <<>> /\ u[1] = s[m] /\ 1 \in 1..Len(u)
  <2>1. 1 \in 1..(Len(s) - m + 1) /\ m + 1 - 1 = m BY <1>0
  <2>2. u[1] = s[m] BY <1>1, <2>1
  <2> HIDE DEF u
  <2> QED BY <1>1, <2>1, <2>2
<1>3. StripAssignments(s) = s BY StripNone
<1>4. StripAssignments(u) = u
  <2> HIDE DEF u
  <2> QED BY <1>1, <1>2, StripNone
<1>5. PICK f : Jumps(f, s) /\ Unwrap(s) = From(s, f[1]) BY <1>3, UnwrapIs
<1>6. PICK g : Jumps(g, u) /\ Unwrap(u) = From(u, g[1])
  <2> HIDE DEF u
  <2> QED BY <1>1, <1>2, <1>4, UnwrapIs
<1>7. Inner(s, 1) = m
  <2>1. 1 < Len(s) BY <1>0
  <2>2. From(s, 1) = s BY FromOne
  <2> QED BY <2>1, <2>2 DEF Inner
<1>8. f[1] = f[m]
  <2>1. 1 \in 1..Len(s) /\ m # 0 /\ 1 + m - 1 = m BY <1>0
  <2> QED BY <1>5, <1>7, <2>1 DEF Jumps
<1>9. f[m + 1 - 1] = m + g[1] - 1 BY <1>0, <1>2, <1>5, <1>6, JumpsShift
<1>10. g[1] \in 1..Len(u)
  <2> HIDE DEF u
  <2> QED BY <1>1, <1>2, <1>6, JumpsRange
<1>11. From(u, g[1]) = From(s, m + g[1] - 1) BY <1>0, <1>1, <1>10, FromFrom
<1>12. m + 1 - 1 = m BY <1>0
<1> QED BY <1>5, <1>6, <1>8, <1>9, <1>11, <1>12

LEMMA UnwrapAssignment ==
  ASSUME NEW s \in Seq(Words), Len(s) > 1, s[1] \in Assignments \ Flags
  PROVE  Unwrap(s) = Unwrap(From(s, 2))
<1> DEFINE u == From(s, 2)
<1>0. Len(s) \in Nat /\ 2 \in 1..(Len(s) + 1) /\ 2 \in 1..Len(s) OBVIOUS
<1>1. /\ u \in Seq(Words) /\ Len(u) = Len(s) - 1
      /\ \A j \in 1..(Len(s) - 1) : u[j] = s[j + 1]
  <2>1. /\ u \in Seq(Words) /\ Len(u) = Len(s) - 2 + 1
        /\ \A j \in 1..(Len(s) - 2 + 1) : u[j] = s[2 + j - 1]
    BY <1>0, FromIs
  <2>2. Len(s) - 2 + 1 = Len(s) - 1 /\ \A j \in Nat : 2 + j - 1 = j + 1 BY <1>0
  <2> HIDE DEF u
  <2>3. \A j \in 1..(Len(s) - 1) : j \in Nat OBVIOUS
  <2> QED BY <1>0, <2>1, <2>2, <2>3
<1> HIDE DEF u
<1>2. u # <<>> /\ s # <<>> BY <1>0, <1>1
<1>3. PICK k \in 1..Len(s) : /\ StripAssignments(s) = From(s, k)
                             /\ s[k] \notin Assignments \ Flags \/ k = Len(s)
                             /\ \A i \in 1..(k - 1) : s[i] \in Assignments \ Flags
  BY <1>2, StripIs
<1>4. PICK l \in 1..Len(u) : /\ StripAssignments(u) = From(u, l)
                             /\ u[l] \notin Assignments \ Flags \/ l = Len(u)
                             /\ \A i \in 1..(l - 1) : u[i] \in Assignments \ Flags
  BY <1>1, <1>2, StripIs
<1>5. k # 1 BY <1>0, <1>3
<1>6. l + 1 <= k
  <2> SUFFICES ASSUME k < l + 1 PROVE FALSE BY <1>0, <1>1
  <2>1. k - 1 \in 1..(l - 1) /\ k - 1 \in 1..(Len(s) - 1) /\ (k - 1) + 1 = k BY <1>0, <1>1, <1>5
  <2>2. u[k - 1] \in Assignments \ Flags BY <1>4, <2>1
  <2>3. u[k - 1] = s[k] BY <1>1, <2>1
  <2>4. k # Len(s) BY <1>0, <1>1
  <2> QED BY <1>3, <2>2, <2>3, <2>4
<1>7. k <= l + 1
  <2> SUFFICES ASSUME l + 1 < k PROVE FALSE BY <1>0, <1>1
  <2>1. l + 1 \in 1..(k - 1) /\ l \in 1..(Len(s) - 1) BY <1>0, <1>1
  <2>2. s[l + 1] \in Assignments \ Flags BY <1>3, <2>1
  <2>3. u[l] = s[l + 1] BY <1>1, <2>1
  <2>4. l # Len(u) BY <1>0, <1>1
  <2> QED BY <1>4, <2>2, <2>3, <2>4
<1>8. k = l + 1 BY <1>0, <1>1, <1>6, <1>7
<1>9. From(u, l) = From(s, k)
  <2>1. l \in 1..(Len(s) - 2 + 1) /\ 2 + l - 1 = k BY <1>0, <1>1, <1>8
  <2> QED BY <1>0, <2>1, FromFrom DEF u
<1>10. StripAssignments(u) = StripAssignments(s) BY <1>3, <1>4, <1>9
<1> DEFINE t == StripAssignments(s)
<1>11. t \in Seq(Words) /\ t # <<>>
  <2>1. k \in 1..(Len(s) + 1) BY <1>0
  <2>2. t \in Seq(Words) /\ Len(t) = Len(s) - k + 1 BY <1>3, <2>1, FromIs
  <2>3. Len(t) # 0 BY <1>0, <2>2
  <2> HIDE DEF t
  <2> QED BY <2>2, <2>3
<1>12. PICK f : Jumps(f, t) /\ Unwrap(s) = From(t, f[1]) BY <1>11, UnwrapIs
<1>13. PICK g : Jumps(g, t) /\ Unwrap(u) = From(t, g[1])
  <2>1. StripAssignments(u) \in Seq(Words) /\ StripAssignments(u) # <<>> BY <1>10, <1>11
  <2> QED BY <1>1, <1>10, <2>1, UnwrapIs
<1> HIDE DEF t
<1>14. From(t, 1) = t /\ 1 \in 1..Len(t) /\ Len(t) \in Nat BY <1>11, FromOne
<1>15. f[1 + 1 - 1] = 1 + g[1] - 1 BY <1>11, <1>12, <1>13, <1>14, JumpsShift
<1>16. g[1] \in 1..Len(t) BY <1>11, <1>13, <1>14, JumpsRange
<1> QED BY <1>12, <1>13, <1>15, <1>16 DEF u

-----------------------------------------------------------------------------
(* One command's template, piece by piece. *)
Names == Words \cup Placeholders
Shows(s) == IF Dashes(s) = 0 THEN Len(s) ELSE Dashes(s) - 1
Piece(s, i) == IF i > 1 /\ ~Plain(s, i) /\ Class(s, i) = Class(s, i - 1) THEN <<>> ELSE <<Class(s, i)>>
Pieces(s) == [i \in 1..Shows(s) |-> Piece(s, i)]

LEMMA DashesIs ==
  ASSUME NEW s \in Seq(Words)
  PROVE  \/ Dashes(s) = 0 /\ \A i \in 2..Len(s) : s[i] # DoubleDash
         \/ /\ Dashes(s) \in 2..Len(s) /\ s[Dashes(s)] = DoubleDash
            /\ \A i \in 2..(Dashes(s) - 1) : s[i] # DoubleDash
<1> DEFINE D == {i \in 2..Len(s) : s[i] = DoubleDash}
<1>0. Len(s) \in Nat OBVIOUS
<1>1. Dashes(s) = IF D = {} THEN 0 ELSE Min(D) BY DEF Dashes, Earliest
<1>2. CASE D = {} BY <1>1, <1>2
<1>3. CASE D # {}
  <2>1. D \subseteq Nat OBVIOUS
  <2>2. Dashes(s) = Min(D) BY <1>1, <1>3
  <2>3. Dashes(s) \in D /\ \A y \in D : Dashes(s) <= y
    <3> HIDE DEF D
    <3> QED BY <1>3, <2>1, <2>2, MinIs
  <2>4. ASSUME NEW i \in 2..(Dashes(s) - 1) PROVE s[i] # DoubleDash
    <3>1. i \in 2..Len(s) /\ ~(Dashes(s) <= i) BY <1>0, <2>3
    <3>2. i \notin D BY <2>3, <3>1
    <3> QED BY <3>1, <3>2
  <2>5. Dashes(s) \in 2..Len(s) /\ s[Dashes(s)] = DoubleDash BY <2>3
  <2> QED BY <2>4, <2>5
<1> QED BY <1>2, <1>3

LEMMA ShowsRange ==
  ASSUME NEW s \in Seq(Words), s # <<>>
  PROVE  Shows(s) \in 1..Len(s) /\ (Dashes(s) # 0 => Shows(s) < Len(s))
<1>1. Len(s) \in Nat \ {0} BY EmptySeq
<1>2. Dashes(s) \in {0} \cup 2..Len(s) BY DashesIs
<1> QED BY <1>1, <1>2 DEF Shows

LEMMA ClassIs ==
  ASSUME NEW s \in Seq(Words), NEW i \in 1..Len(s)
  PROVE  /\ Class(s, i) \in Placeholders \cup {s[i]}
         /\ Class(s, i) \in Names
         /\ Plain(s, i) => Class(s, i) = s[i]
         /\ ~Plain(s, i) => Class(s, i) \in Placeholders
<1>1. s[i] \in Words /\ i \in Nat OBVIOUS
<1>2. Shape[s[i]] \in Shapes BY <1>1, NormalizeAssumption
<1>3. Plain(s, i) => Class(s, i) = s[i] BY DEF Class
<1>4. ~Plain(s, i) => Class(s, i) \in Placeholders BY <1>2 DEF Class, Placeholders
<1> QED BY <1>1, <1>3, <1>4 DEF Names

LEMMA PiecesType ==
  ASSUME NEW s \in Seq(Words), s # <<>>
  PROVE  /\ Pieces(s) \in Seq(Seq(Names)) /\ Len(Pieces(s)) = Shows(s)
         /\ \A i \in 1..Shows(s) : Pieces(s)[i] = Piece(s, i) /\ Len(Piece(s, i)) <= 1
<1>1. Shows(s) \in 1..Len(s) /\ Len(s) \in Nat BY ShowsRange
<1>2. ASSUME NEW i \in 1..Shows(s) PROVE Piece(s, i) \in Seq(Names) /\ Len(Piece(s, i)) <= 1
  <2>1. i \in 1..Len(s) BY <1>1
  <2>2. Class(s, i) \in Names BY <2>1, ClassIs
  <2>3. <<Class(s, i)>> \in Seq(Names) /\ Len(<<Class(s, i)>>) = 1 BY <2>2
  <2>4. <<>> \in Seq(Names) /\ Len(<<>>) = 0 OBVIOUS
  <2> QED BY <2>3, <2>4 DEF Piece
<1> DEFINE n == Shows(s)  P == Pieces(s)
<1>3. P = [i \in 1..n |-> Piece(s, i)] BY DEF Pieces
<1>4. n \in Nat BY <1>1
<1> HIDE DEF n, P
<1>5. \A i \in 1..n : Piece(s, i) \in Seq(Names) BY <1>2 DEF n
<1>6. P \in [1..n -> Seq(Names)] BY <1>3, <1>5
<1>7. P \in Seq(Seq(Names)) /\ Len(P) = n BY <1>4, <1>6
<1>8. \A i \in 1..n : P[i] = Piece(s, i) BY <1>3
<1> QED BY <1>2, <1>7, <1>8 DEF n, P

LEMMA TemplateIs ==
  ASSUME NEW s PROVE Template(s) = FlattenSeq(Pieces(s)) \o Rest(s)
BY DEF Template, Pieces, Piece, Shown, Shows

LEMMA RestType ==
  ASSUME NEW s
  PROVE  /\ Rest(s) \in Seq(Names) /\ Vals(Rest(s)) \subseteq Placeholders
         /\ Len(Rest(s)) = IF Dashes(s) = 0 THEN 0 ELSE 1
<1>1. "KWARGS" \in Placeholders BY DEF Placeholders
<1>2. <<>> \in Seq(Names) /\ <<"KWARGS">> \in Seq(Names) BY <1>1 DEF Names
<1>3. Len(<<"KWARGS">>) = 1 /\ <<"KWARGS">>[1] = "KWARGS" /\ Len(<<>>) = 0 /\ 1..1 = {1} OBVIOUS
<1>4. Vals(<<"KWARGS">>) = {"KWARGS"} BY <1>3 DEF Vals
<1> QED BY <1>1, <1>2, <1>3, <1>4, ValsEmpty DEF Rest

LEMMA TemplateType ==
  ASSUME NEW s \in Seq(Words), s # <<>>
  PROVE  /\ Template(s) \in Seq(Names) /\ Len(Template(s)) <= Len(s)
         /\ Vals(Template(s)) \subseteq Placeholders \cup Vals(s)
<1> DEFINE P == Pieces(s)
<1>1. /\ P \in Seq(Seq(Names)) /\ Len(P) = Shows(s)
      /\ \A i \in 1..Shows(s) : P[i] = Piece(s, i) /\ Len(Piece(s, i)) <= 1
  BY PiecesType
<1>2. Shows(s) \in 1..Len(s) /\ (Dashes(s) # 0 => Shows(s) < Len(s)) /\ Len(s) \in Nat BY ShowsRange
<1>3. /\ Rest(s) \in Seq(Names) /\ Vals(Rest(s)) \subseteq Placeholders
      /\ Len(Rest(s)) = IF Dashes(s) = 0 THEN 0 ELSE 1
  BY RestType
<1> HIDE DEF P
<1>4. FlattenSeq(P) \in Seq(Names) BY <1>1, FlattenType
<1>5. Len(FlattenSeq(P)) <= Shows(s)
  <2>1. \A i \in 1..Len(P) : Len(P[i]) <= 1 BY <1>1
  <2> QED BY <1>1, <2>1, FlattenShort
<1>6. Template(s) = FlattenSeq(P) \o Rest(s) BY TemplateIs DEF P
<1>7. Template(s) \in Seq(Names) /\ Len(Template(s)) = Len(FlattenSeq(P)) + Len(Rest(s))
  BY <1>3, <1>4, <1>6
<1>8. Len(Template(s)) <= Len(s)
  <2>1. Len(FlattenSeq(P)) \in Nat BY <1>4
  <2> QED BY <1>2, <1>3, <1>5, <1>7, <2>1
<1>9. Vals(FlattenSeq(P)) \subseteq Placeholders \cup Vals(s)
  <2>1. Vals(FlattenSeq(P)) = UNION {Vals(e) : e \in Vals(P)} BY <1>1, FlattenVals
  <2>0. Vals(P) = {Piece(s, i) : i \in 1..Shows(s)}
    <3>1. Len(P) = Shows(s) BY <1>1
    <3> QED BY <1>1, <3>1 DEF Vals
  <2> SUFFICES ASSUME NEW i \in 1..Shows(s) PROVE Vals(Piece(s, i)) \subseteq Placeholders \cup Vals(s)
    BY <2>0, <2>1, Zenon
  <2>2. i \in 1..Len(s) BY <1>2
  <2>3. Class(s, i) \in Placeholders \cup {s[i]} BY <2>2, ClassIs
  <2>4. Vals(<<Class(s, i)>>) = {Class(s, i)}
    <3>1. Len(<<Class(s, i)>>) = 1 /\ <<Class(s, i)>>[1] = Class(s, i) /\ 1..1 = {1} OBVIOUS
    <3> QED BY <3>1 DEF Vals
  <2>5. s[i] \in Vals(s) BY <2>2 DEF Vals
  <2>6. Vals(Piece(s, i)) \subseteq {Class(s, i)} BY <2>4, ValsEmpty DEF Piece
  <2> QED BY <2>3, <2>5, <2>6
<1>10. Vals(Template(s)) = Vals(FlattenSeq(P)) \cup Vals(Rest(s))
  BY <1>3, <1>4, <1>6, ValsConcat
<1> QED BY <1>3, <1>7, <1>8, <1>9, <1>10

(* It begins with what the first pieces say. *)
StartsWith(a, b) == Len(a) <= Len(b) /\ \A i \in 1..Len(a) : a[i] = b[i]

LEMMA StartsWithConcat ==
  ASSUME NEW S, NEW a \in Seq(S), NEW b \in Seq(S) PROVE StartsWith(a, a \o b)
<1>1. /\ Len(a) \in Nat /\ Len(b) \in Nat /\ Len(a \o b) = Len(a) + Len(b)
      /\ \A i \in 1..Len(a) : (a \o b)[i] = a[i]
  OBVIOUS
<1> QED BY <1>1 DEF StartsWith

LEMMA StartsWithTrans ==
  ASSUME NEW S, NEW a \in Seq(S), NEW b \in Seq(S), NEW c \in Seq(S), StartsWith(a, b), StartsWith(b, c)
  PROVE  StartsWith(a, c)
<1>1. Len(a) \in Nat /\ Len(b) \in Nat /\ Len(c) \in Nat OBVIOUS
<1> QED BY <1>1 DEF StartsWith

LEMMA TemplateFront ==
  ASSUME NEW s \in Seq(Words), s # <<>>, NEW m \in 0..Shows(s)
  PROVE  /\ SubSeq(Pieces(s), 1, m) \in Seq(Seq(Names))
         /\ FlattenSeq(SubSeq(Pieces(s), 1, m)) \in Seq(Names)
         /\ StartsWith(FlattenSeq(SubSeq(Pieces(s), 1, m)), Template(s))
<1> DEFINE P == Pieces(s)  a == SubSeq(P, 1, m)  b == SubSeq(P, m + 1, Len(P))
<1>1. P \in Seq(Seq(Names)) /\ Len(P) = Shows(s) BY PiecesType
<1>2. Shows(s) \in Nat /\ m \in 0..Len(P) BY <1>1, ShowsRange
<1> HIDE DEF P
<1>3. a \in Seq(Seq(Names)) BY <1>1, <1>2, FrontIs
<1>4. b \in Seq(Seq(Names))
  <2>1. m + 1 \in 1..(Len(P) + 1) BY <1>1, <1>2
  <2>2. From(P, m + 1) \in Seq(Seq(Names)) BY <1>1, <2>1, FromIs
  <2> QED BY <2>2 DEF From
<1>5. FlattenSeq(P) = FlattenSeq(a) \o FlattenSeq(b) BY <1>1, <1>2, FlattenSplit
<1> HIDE DEF a, b
<1>6. FlattenSeq(a) \in Seq(Names) /\ FlattenSeq(b) \in Seq(Names) /\ FlattenSeq(P) \in Seq(Names)
  BY <1>1, <1>3, <1>4, FlattenType
<1>7. StartsWith(FlattenSeq(a), FlattenSeq(P)) BY <1>5, <1>6, StartsWithConcat
<1>8. Rest(s) \in Seq(Names) BY RestType
<1>9. StartsWith(FlattenSeq(P), FlattenSeq(P) \o Rest(s)) BY <1>6, <1>8, StartsWithConcat
<1>10. Template(s) = FlattenSeq(P) \o Rest(s) /\ Template(s) \in Seq(Names)
  BY TemplateIs, TemplateType DEF P
<1>11. StartsWith(FlattenSeq(a), Template(s)) BY <1>6, <1>7, <1>9, <1>10, StartsWithTrans
<1> QED BY <1>3, <1>6, <1>11 DEF a, P

LEMMA FlattenOne ==
  ASSUME NEW S, NEW e \in Seq(S) PROVE FlattenSeq(<<e>>) = e
<1>1. <<>> \in Seq(Seq(S)) /\ Append(<<>>, e) = <<e>> BY EmptySeq
<1>2. FlattenSeq(Append(<<>>, e)) = FlattenSeq(<<>>) \o e BY <1>1, FlattenAppend
<1>3. <<>> \o e = e BY ConcatEmptySeq
<1> QED BY <1>1, <1>2, <1>3, FlattenEmpty

LEMMA TemplateFirst ==
  ASSUME NEW s \in Seq(Words), s # <<>>
  PROVE  Template(s) # <<>> /\ Template(s)[1] = s[1]
<1> DEFINE P == Pieces(s)  a == SubSeq(P, 1, 1)
<1>1. P \in Seq(Seq(Names)) /\ Len(P) = Shows(s) /\ \A i \in 1..Shows(s) : P[i] = Piece(s, i)
  BY PiecesType
<1>2. Shows(s) \in 1..Len(s) /\ Len(s) \in Nat BY ShowsRange
<1>3. FlattenSeq(a) \in Seq(Names) /\ StartsWith(FlattenSeq(a), Template(s))
  BY <1>2, TemplateFront
<1>4. P[1] = <<s[1]>>
  <2>1. Piece(s, 1) = <<s[1]>> BY DEF Piece, Class, Plain
  <2> QED BY <1>1, <1>2, <2>1
<1> HIDE DEF P
<1>5. a = <<P[1]>>
  <2>1. 1 \in 0..Len(P) BY <1>1, <1>2
  <2>2. a \in Seq(Seq(Names)) /\ Len(a) = 1 /\ \A j \in 1..1 : a[j] = P[j] BY <1>1, <2>1, FrontIs
  <2> HIDE DEF a
  <2> QED BY <2>2
<1>6. <<s[1]>> \in Seq(Names)
  <2>1. s[1] \in Words BY <1>2
  <2> QED BY <2>1 DEF Names
<1>7. FlattenSeq(a) = <<s[1]>> BY <1>4, <1>5, <1>6, FlattenOne
<1>8. Len(Template(s)) >= 1 /\ Template(s)[1] = s[1]
  <2> DEFINE q == FlattenSeq(a)
  <2>1. Len(q) = 1 /\ q[1] = s[1] BY <1>7
  <2>2. Template(s) \in Seq(Names) BY TemplateType
  <2>3. StartsWith(q, Template(s)) BY <1>3
  <2> HIDE DEF q
  <2> QED BY <2>1, <2>2, <2>3 DEF StartsWith
<1> QED BY <1>8

LEMMA TemplateSecond ==
  ASSUME NEW s \in Seq(Words), Len(s) > 1, s[1] \in Parents, s[2] \notin Flags
  PROVE  Len(Template(s)) >= 2 /\ Template(s)[2] = s[2]
<1> DEFINE P == Pieces(s)  a == SubSeq(P, 1, 2)
<1>0. s # <<>> /\ Len(s) \in Nat OBVIOUS
<1>1. P \in Seq(Seq(Names)) /\ Len(P) = Shows(s) /\ \A i \in 1..Shows(s) : P[i] = Piece(s, i)
  BY <1>0, PiecesType
<1>2. Shows(s) \in 2..Len(s)
  <2>1. Dashes(s) \in {0} \cup 2..Len(s) /\ (Dashes(s) # 0 => s[Dashes(s)] = DoubleDash) BY DashesIs
  <2>2. s[2] # DoubleDash
    <3>1. s[2] \in Words BY <1>0
    <3> QED BY <3>1, NormalizeAssumption
  <2> QED BY <1>0, <2>1, <2>2 DEF Shows
<1>3. FlattenSeq(a) \in Seq(Names) /\ StartsWith(FlattenSeq(a), Template(s))
  BY <1>0, <1>2, TemplateFront
<1>4. P[1] = <<s[1]>> /\ P[2] = <<s[2]>>
  <2>1. Piece(s, 1) = <<s[1]>> /\ Piece(s, 2) = <<s[2]>> BY DEF Piece, Class, Plain
  <2> QED BY <1>1, <1>2, <2>1
<1> HIDE DEF P
<1>5. a = Append(<<P[1]>>, P[2])
  <2>1. 2 \in 0..Len(P) BY <1>1, <1>2
  <2>2. a \in Seq(Seq(Names)) /\ Len(a) = 2 /\ \A j \in 1..2 : a[j] = P[j] BY <1>1, <2>1, FrontIs
  <2> HIDE DEF a
  <2>3. a[1] = P[1] /\ a[2] = P[2] BY <2>2
  <2>4. a = <<P[1], P[2]>> BY <2>2, <2>3
  <2> QED BY <2>4
<1>6. <<s[1]>> \in Seq(Names) /\ <<s[2]>> \in Seq(Names)
  <2>1. s[1] \in Words /\ s[2] \in Words BY <1>0
  <2> QED BY <2>1 DEF Names
<1>7. FlattenSeq(a) = <<s[1]>> \o <<s[2]>>
  <2>1. <<P[1]>> \in Seq(Seq(Names)) /\ P[2] \in Seq(Names) BY <1>4, <1>6
  <2>2. FlattenSeq(a) = FlattenSeq(<<P[1]>>) \o P[2] BY <1>5, <2>1, FlattenAppend
  <2>3. FlattenSeq(<<P[1]>>) = <<s[1]>> BY <1>4, <1>6, FlattenOne
  <2> QED BY <1>4, <2>2, <2>3
<1>8. Len(Template(s)) >= 2 /\ Template(s)[2] = s[2]
  <2> DEFINE q == FlattenSeq(a)
  <2>1. Len(q) = 2 /\ q[2] = s[2]
    <3> DEFINE x == <<s[1]>>  y == <<s[2]>>
    <3>1. x \in Seq(Names) /\ y \in Seq(Names) /\ Len(x) = 1 /\ Len(y) = 1 /\ y[1] = s[2] BY <1>6
    <3>2. q = x \o y BY <1>7
    <3> HIDE DEF x, y, q
    <3>3. Len(x \o y) = Len(x) + Len(y) /\ (x \o y)[2] = y[2 - Len(x)]
      <4>1. 2 \in 1..(Len(x) + Len(y)) /\ ~(2 <= Len(x)) BY <3>1
      <4> QED BY <3>1, <4>1, ConcatProperties
    <3> QED BY <3>1, <3>2, <3>3
  <2>2. Template(s) \in Seq(Names) BY <1>0, TemplateType
  <2>3. StartsWith(q, Template(s)) BY <1>3
  <2> HIDE DEF q
  <2> QED BY <2>1, <2>2, <2>3 DEF StartsWith
<1> QED BY <1>8

LEMMA NormalizeOneType ==
  ASSUME NEW s \in Seq(Words), s # <<>>
  PROVE  /\ NormalizeOne(s) \in Seq(Names) /\ NormalizeOne(s) # <<>> /\ Len(NormalizeOne(s)) <= Len(s)
         /\ Vals(NormalizeOne(s)) \subseteq Placeholders \cup Vals(s)
<1> DEFINE u == Unwrap(s)
<1>1. PICK p \in 1..Len(s) : u = From(s, p) BY UnwrapRange
<1>2. u \in Seq(Words) /\ u # <<>> BY UnwrapRange
<1>3. p \in 1..(Len(s) + 1) /\ Len(s) \in Nat OBVIOUS
<1>4. Len(u) = Len(s) - p + 1 /\ \A j \in 1..(Len(s) - p + 1) : u[j] = s[p + j - 1] BY <1>1, <1>3, FromIs
<1> HIDE DEF u
<1>5. Vals(u) \subseteq Vals(s)
  <2> SUFFICES ASSUME NEW j \in 1..(Len(s) - p + 1) PROVE u[j] \in Vals(s)
    BY <1>4 DEF Vals
  <2>1. p + j - 1 \in 1..Len(s) BY <1>3
  <2> QED BY <1>4, <2>1 DEF Vals
<1>6. /\ Template(u) \in Seq(Names) /\ Len(Template(u)) <= Len(u) /\ Template(u) # <<>>
      /\ Vals(Template(u)) \subseteq Placeholders \cup Vals(u)
  BY <1>2, TemplateType, TemplateFirst
<1>7. Len(Template(u)) \in Nat /\ Len(u) <= Len(s) BY <1>3, <1>4, <1>6
<1>8. Len(Template(u)) <= Len(s) BY <1>2, <1>3, <1>6, <1>7
<1> QED BY <1>5, <1>6, <1>8 DEF NormalizeOne, u

-----------------------------------------------------------------------------
(* Segments. *)
Ends(s, i, e) ==
  /\ e \in i..Len(s) /\ (e = Len(s) \/ s[e + 1] \in Operators)
  /\ \A j \in i..(e - 1) : s[j + 1] \notin Operators

LEMMA SegmentIs ==
  ASSUME NEW s \in Seq(Words), NEW i \in 1..Len(s)
  PROVE  \E e \in i..Len(s) : Ends(s, i, e) /\ SegmentFrom(s, i) = SubSeq(s, i, e)
<1> DEFINE D == {j \in i..Len(s) : j = Len(s) \/ s[j + 1] \in Operators}
<1>0. Len(s) \in Nat OBVIOUS
<1>1. D \subseteq Nat /\ D # {} BY <1>0
<1>2. SegmentFrom(s, i) = SubSeq(s, i, Min(D)) BY DEF SegmentFrom
<1>3. Min(D) \in D /\ \A y \in D : Min(D) <= y
  <2> HIDE DEF D
  <2> QED BY <1>1, MinIs
<1> DEFINE e == Min(D)
<1>4. e \in i..Len(s) /\ (e = Len(s) \/ s[e + 1] \in Operators) BY <1>3
<1>5. ASSUME NEW j \in i..(e - 1) PROVE s[j + 1] \notin Operators
  <2>1. j \in i..Len(s) /\ ~(e <= j) BY <1>0, <1>4
  <2>2. j \notin D BY <1>3, <2>1
  <2> QED BY <2>1, <2>2
<1>6. Ends(s, i, e) BY <1>4, <1>5 DEF Ends
<1> QED BY <1>2, <1>4, <1>6

LEMMA SegmentUnique ==
  ASSUME NEW s \in Seq(Words), NEW i \in 1..Len(s), NEW e, Ends(s, i, e)
  PROVE  SegmentFrom(s, i) = SubSeq(s, i, e)
<1>1. PICK d \in i..Len(s) : Ends(s, i, d) /\ SegmentFrom(s, i) = SubSeq(s, i, d) BY SegmentIs
<1>2. e \in i..Len(s) /\ Len(s) \in Nat BY DEF Ends
<1>3. ~(d < e)
  <2> SUFFICES ASSUME d < e PROVE FALSE OBVIOUS
  <2>1. d # Len(s) /\ d \in i..(e - 1) BY <1>2
  <2> QED BY <1>1, <2>1 DEF Ends
<1>4. ~(e < d)
  <2> SUFFICES ASSUME e < d PROVE FALSE OBVIOUS
  <2>1. e # Len(s) /\ e \in i..(d - 1) BY <1>2
  <2> QED BY <1>1, <2>1 DEF Ends
<1>5. d = e BY <1>2, <1>3, <1>4
<1> QED BY <1>1, <1>5

LEMMA SegmentType ==
  ASSUME NEW s \in Seq(Words), NEW i \in 1..Len(s)
  PROVE  SegmentFrom(s, i) \in Seq(Words) /\ SegmentFrom(s, i) # <<>>
<1>1. PICK e \in i..Len(s) : SegmentFrom(s, i) = SubSeq(s, i, e) BY SegmentIs
<1>2. Len(s) \in Nat /\ i \in Int /\ e \in Int /\ i <= e /\ \A j \in i..e : s[j] \in Words OBVIOUS
<1>3. SubSeq(s, i, e) \in Seq(Words) /\ Len(SubSeq(s, i, e)) = IF i <= e THEN e - i + 1 ELSE 0
  BY <1>2, SubSeqProperties
<1>4. Len(SubSeq(s, i, e)) # 0 BY <1>2, <1>3
<1>5. SubSeq(s, i, e) # <<>> BY <1>4
<1> QED BY <1>1, <1>3, <1>5

(* Two lines that agree, one of them further on, have the same segments there. *)
LEMMA SegmentShift ==
  ASSUME NEW s \in Seq(Words), NEW t \in Seq(Words), NEW d \in Nat, d + Len(t) <= Len(s),
         \A j \in 1..Len(t) : t[j] = s[d + j],
         d + Len(t) < Len(s) => s[d + Len(t) + 1] \in Operators,
         NEW i \in 1..Len(t)
  PROVE  SegmentFrom(s, d + i) = SegmentFrom(t, i)
<1>0. Len(s) \in Nat /\ Len(t) \in Nat /\ d + i \in 1..Len(s) OBVIOUS
<1>1. PICK e \in i..Len(t) : Ends(t, i, e) /\ SegmentFrom(t, i) = SubSeq(t, i, e) BY SegmentIs
<1>2. Ends(s, d + i, d + e)
  <2>1. d + e \in (d + i)..Len(s) BY <1>0
  <2>2. d + e = Len(s) \/ s[d + e + 1] \in Operators
    <3>1. CASE e = Len(t) BY <1>0, <3>1
    <3>2. CASE e # Len(t)
      <4>1. t[e + 1] \in Operators /\ e + 1 \in 1..Len(t) BY <1>0, <1>1, <3>2 DEF Ends
      <4>2. t[e + 1] = s[d + (e + 1)] /\ d + (e + 1) = d + e + 1 BY <4>1
      <4> QED BY <4>1, <4>2
    <3> QED BY <3>1, <3>2
  <2>3. ASSUME NEW j \in (d + i)..(d + e - 1) PROVE s[j + 1] \notin Operators
    <3>1. j - d \in i..(e - 1) /\ (j - d) + 1 \in 1..Len(t) /\ d + ((j - d) + 1) = j + 1 BY <1>0
    <3>2. t[(j - d) + 1] \notin Operators BY <1>1, <3>1 DEF Ends
    <3>3. t[(j - d) + 1] = s[j + 1] BY <3>1
    <3> QED BY <3>2, <3>3
  <2> QED BY <2>1, <2>2, <2>3 DEF Ends
<1>3. SegmentFrom(s, d + i) = SubSeq(s, d + i, d + e) BY <1>0, <1>2, SegmentUnique
<1>4. SubSeq(s, d + i, d + e) = SubSeq(t, i, e)
  <2> DEFINE a == SubSeq(s, d + i, d + e)  b == SubSeq(t, i, e)
  <2>1. \A j \in i..e : t[j] \in Words
    BY <1>0
  <2>2. \A j \in (d + i)..(d + e) : s[j] \in Words
    BY <1>0
  <2>3. i \in Int /\ e \in Int /\ d + i \in Int /\ d + e \in Int /\ i <= e /\ d + i <= d + e BY <1>0
  <2>4. /\ b \in Seq(Words) /\ Len(b) = IF i <= e THEN e - i + 1 ELSE 0
        /\ \A j \in 1..(e - i + 1) : b[j] = t[i + j - 1]
    BY <2>1, <2>3, SubSeqProperties
  <2>5. /\ a \in Seq(Words) /\ Len(a) = IF d + i <= d + e THEN (d + e) - (d + i) + 1 ELSE 0
        /\ \A j \in 1..((d + e) - (d + i) + 1) : a[j] = s[(d + i) + j - 1]
    BY <2>2, <2>3, SubSeqProperties
  <2> HIDE DEF a, b
  <2>6. Len(a) = e - i + 1 /\ Len(b) = e - i + 1 BY <2>3, <2>4, <2>5
  <2>7. ASSUME NEW j \in 1..(e - i + 1) PROVE a[j] = b[j]
    <3>1. j \in 1..((d + e) - (d + i) + 1) /\ i + j - 1 \in 1..Len(t) /\ (d + i) + j - 1 = d + (i + j - 1)
      BY <1>0
    <3> QED BY <2>4, <2>5, <3>1
  <2>8. a = b BY <2>4, <2>5, <2>6, <2>7, SeqEqual
  <2> QED BY <2>8 DEF a, b
<1> QED BY <1>1, <1>3, <1>4

LinePart(s, i) ==
  IF s[i] \in Operators THEN <<s[i]>> ELSE IF Inside(s, i) THEN <<>> ELSE NormalizeOne(SegmentFrom(s, i))
LineParts(s) == [i \in 1..Len(s) |-> LinePart(s, i)]

LEMMA LineIs ==
  ASSUME NEW s \in Seq(Words) PROVE NormalizeLine(s) = FlattenSeq(LineParts(s))
<1>1. DOMAIN s = 1..Len(s) OBVIOUS
<1> QED BY <1>1 DEF NormalizeLine, LineParts, LinePart

LEMMA LinePartsType ==
  ASSUME NEW s \in Seq(Words)
  PROVE  /\ LineParts(s) \in Seq(Seq(Names)) /\ Len(LineParts(s)) = Len(s)
         /\ \A i \in 1..Len(s) : LineParts(s)[i] = LinePart(s, i) /\ LinePart(s, i) \in Seq(Names)
<1>1. ASSUME NEW i \in 1..Len(s) PROVE LinePart(s, i) \in Seq(Names)
  <2>1. s[i] \in Names BY DEF Names
  <2>2. <<s[i]>> \in Seq(Names) /\ <<>> \in Seq(Names) BY <2>1
  <2>3. NormalizeOne(SegmentFrom(s, i)) \in Seq(Names) BY SegmentType, NormalizeOneType
  <2> QED BY <2>2, <2>3 DEF LinePart
<1> DEFINE n == Len(s)  P == LineParts(s)
<1>2. n \in Nat /\ P = [i \in 1..n |-> LinePart(s, i)] BY DEF LineParts
<1>3. \A i \in 1..n : LinePart(s, i) \in Seq(Names) BY <1>1
<1> HIDE DEF n, P
<1>4. P \in [1..n -> Seq(Names)] BY <1>2, <1>3
<1>5. P \in Seq(Seq(Names)) /\ Len(P) = n BY <1>2, <1>4
<1>6. \A i \in 1..n : P[i] = LinePart(s, i) BY <1>2
<1> QED BY <1>3, <1>5, <1>6 DEF n, P

LEMMA LineType ==
  ASSUME NEW s \in Seq(Words) PROVE NormalizeLine(s) \in Seq(Names)
BY LineIs, LinePartsType, FlattenType

LEMMA LinePartShift ==
  ASSUME NEW s \in Seq(Words), NEW t \in Seq(Words), NEW d \in Nat, d + Len(t) <= Len(s),
         \A j \in 1..Len(t) : t[j] = s[d + j],
         d + Len(t) < Len(s) => s[d + Len(t) + 1] \in Operators,
         d # 0 => s[d] \in Operators,
         NEW i \in 1..Len(t)
  PROVE  LinePart(s, d + i) = LinePart(t, i)
<1>0. Len(s) \in Nat /\ Len(t) \in Nat /\ d + i \in 1..Len(s) OBVIOUS
<1>1. t[i] = s[d + i] OBVIOUS
<1>2. SegmentFrom(s, d + i) = SegmentFrom(t, i) BY SegmentShift
<1>3. Inside(s, d + i) <=> Inside(t, i)
  <2>1. CASE i = 1
    <3>1. ~Inside(t, i) BY <2>1 DEF Inside
    <3>2. CASE d = 0 BY <2>1, <3>1, <3>2 DEF Inside
    <3>3. CASE d # 0
      <4>1. d + i - 1 = d BY <2>1
      <4> QED BY <3>1, <3>3, <4>1 DEF Inside
    <3> QED BY <3>2, <3>3
  <2>2. CASE i # 1
    <3>1. i - 1 \in 1..Len(t) /\ d + (i - 1) = d + i - 1 /\ i > 1 /\ d + i > 1 BY <1>0, <2>2
    <3>2. t[i - 1] = s[d + i - 1] BY <3>1
    <3> QED BY <3>1, <3>2 DEF Inside
  <2> QED BY <2>1, <2>2
<1> QED BY <1>1, <1>2, <1>3 DEF LinePart

(* An operator divides the template as it divides the line. *)
LEMMA LineDivides ==
  ASSUME NEW s \in Seq(Words), NEW i \in 1..Len(s), s[i] \in Operators
  PROVE  NormalizeLine(s) = NormalizeLine(SubSeq(s, 1, i - 1)) \o <<s[i]>> \o NormalizeLine(From(s, i + 1))
<1> DEFINE a == SubSeq(s, 1, i - 1)  b == From(s, i + 1)  n == Len(s)  e == <<s[i]>>
           A == LineParts(a)  B == LineParts(b)  P == LineParts(s)  Q == Append(A, e) \o B
<1>0. n \in Nat /\ i - 1 \in 0..n /\ i + 1 \in 1..(n + 1) OBVIOUS
<1>1. a \in Seq(Words) /\ Len(a) = i - 1 /\ \A j \in 1..(i - 1) : a[j] = s[j] BY <1>0, FrontIs
<1>2. b \in Seq(Words) /\ Len(b) = n - i /\ \A j \in 1..(n - i) : b[j] = s[i + j]
  <2>1. /\ b \in Seq(Words) /\ Len(b) = n - (i + 1) + 1
        /\ \A j \in 1..(n - (i + 1) + 1) : b[j] = s[(i + 1) + j - 1]
    BY <1>0, FromIs
  <2>2. n - (i + 1) + 1 = n - i /\ \A j \in Int : (i + 1) + j - 1 = i + j BY <1>0
  <2> HIDE DEF b
  <2> QED BY <2>1, <2>2
<1> HIDE DEF a, b
<1>3. A \in Seq(Seq(Names)) /\ Len(A) = i - 1 /\ \A j \in 1..(i - 1) : A[j] = LinePart(a, j)
  BY <1>1, LinePartsType
<1>4. B \in Seq(Seq(Names)) /\ Len(B) = n - i /\ \A j \in 1..(n - i) : B[j] = LinePart(b, j)
  BY <1>2, LinePartsType
<1>5. P \in Seq(Seq(Names)) /\ Len(P) = n /\ \A j \in 1..n : P[j] = LinePart(s, j)
  BY LinePartsType
<1>6. e \in Seq(Names)
  <2>1. s[i] \in Names BY DEF Names
  <2> QED BY <2>1
<1>7. LinePart(s, i) = e BY DEF LinePart
<1>8. ASSUME NEW j \in 1..(i - 1) PROVE LinePart(s, j) = LinePart(a, j)
  <2> DEFINE d == 0
  <2>1. /\ d \in Nat /\ d + Len(a) <= Len(s) /\ j \in 1..Len(a) /\ d + j = j
        /\ d + Len(a) + 1 = i
    BY <1>0, <1>1
  <2>2. \A l \in 1..Len(a) : a[l] = s[d + l] BY <1>1
  <2>3. d # 0 => s[d] \in Operators OBVIOUS
  <2>4. d + Len(a) < Len(s) => s[d + Len(a) + 1] \in Operators BY <2>1
  <2> HIDE DEF d
  <2>5. LinePart(s, d + j) = LinePart(a, j) BY <1>1, <2>1, <2>2, <2>3, <2>4, LinePartShift
  <2> QED BY <2>1, <2>5
<1>9. ASSUME NEW j \in 1..(n - i) PROVE LinePart(s, i + j) = LinePart(b, j)
  <2>1. i \in Nat /\ i + Len(b) <= Len(s) /\ ~(i + Len(b) < Len(s)) /\ j \in 1..Len(b)
    BY <1>0, <1>2
  <2>2. \A l \in 1..Len(b) : b[l] = s[i + l] BY <1>2
  <2> QED BY <1>2, <2>1, <2>2, LinePartShift
<1> HIDE DEF A, B, P, n, e
<1>10. Append(A, e) \in Seq(Seq(Names)) /\ Len(Append(A, e)) = i
       /\ Append(A, e)[i] = e /\ \A j \in 1..(i - 1) : Append(A, e)[j] = A[j]
  BY <1>0, <1>3, <1>6
<1>11. Q \in Seq(Seq(Names)) /\ Len(Q) = n
       /\ \A j \in 1..n : Q[j] = IF j <= i THEN Append(A, e)[j] ELSE B[j - i]
  <2> DEFINE Ae == Append(A, e)
  <2>1. Ae \in Seq(Seq(Names)) /\ Len(Ae) = i BY <1>10
  <2> HIDE DEF Ae
  <2>2. /\ Ae \o B \in Seq(Seq(Names)) /\ Len(Ae \o B) = Len(Ae) + Len(B)
        /\ \A j \in 1..(Len(Ae) + Len(B)) : (Ae \o B)[j] = IF j <= Len(Ae) THEN Ae[j] ELSE B[j - Len(Ae)]
    BY <1>4, <2>1, ConcatProperties
  <2>3. Len(Ae) + Len(B) = n BY <1>0, <1>4, <2>1
  <2> QED BY <2>1, <2>2, <2>3 DEF Ae
<1> HIDE DEF Q
<1>12. ASSUME NEW j \in 1..n PROVE P[j] = Q[j]
  <2>1. CASE j < i
    <3>1. j \in 1..(i - 1) /\ j <= i BY <1>0, <2>1
    <3> QED BY <1>3, <1>5, <1>8, <1>10, <1>11, <3>1
  <2>2. CASE j = i BY <1>0, <1>5, <1>7, <1>10, <1>11, <2>2
  <2>3. CASE j > i
    <3>1. j - i \in 1..(n - i) /\ i + (j - i) = j /\ ~(j <= i) BY <1>0, <2>3
    <3>2. Q[j] = B[j - i] BY <1>11, <3>1
    <3>3. P[j] = LinePart(b, j - i) BY <1>5, <1>9, <3>1
    <3> QED BY <1>4, <3>1, <3>2, <3>3
  <2> QED BY <1>0, <2>1, <2>2, <2>3
<1>13. P = Q BY <1>5, <1>11, <1>12, SeqEqual
<1>14. FlattenSeq(Q) = FlattenSeq(Append(A, e)) \o FlattenSeq(B) BY <1>4, <1>10, FlattenConcat DEF Q
<1>15. FlattenSeq(Append(A, e)) = FlattenSeq(A) \o e BY <1>3, <1>6, FlattenAppend
<1>16. NormalizeLine(s) = FlattenSeq(P) BY LineIs DEF P
<1>17. NormalizeLine(a) = FlattenSeq(A) /\ NormalizeLine(b) = FlattenSeq(B) BY <1>1, <1>2, LineIs DEF A, B
<1> QED BY <1>13, <1>14, <1>15, <1>16, <1>17 DEF a, b, e

LEMMA LineEmpty == NormalizeLine(<<>>) = <<>>
<1>1. LineParts(<<>>) = <<>> /\ <<>> \in Seq(Words) BY DEF LineParts
<1> QED BY <1>1, LineIs, FlattenEmpty

(* Without one the line is a single command. *)
LEMMA LineSimple ==
  ASSUME NEW s \in Seq(Words), s # <<>>, ~Compound(s) PROVE NormalizeLine(s) = NormalizeOne(s)
<1> DEFINE P == LineParts(s)  n == Len(s)
           T == {m \in Nat : m \in 1..n => FlattenSeq(SubSeq(P, 1, m)) = NormalizeOne(s)}
<1>0. n \in Nat \ {0} /\ DOMAIN s = 1..n BY EmptySeq
<1>1. \A i \in 1..n : s[i] \notin Operators BY <1>0 DEF Compound
<1>2. P \in Seq(Seq(Names)) /\ Len(P) = n /\ \A i \in 1..n : P[i] = LinePart(s, i) BY LinePartsType
<1>3. NormalizeOne(s) \in Seq(Names) BY NormalizeOneType
<1>4. P[1] = NormalizeOne(s)
  <2>1. 1 \in 1..n /\ n \in 1..n BY <1>0
  <2>2. Ends(s, 1, n)
    <3>1. \A j \in 1..(n - 1) : j + 1 \in 1..n BY <1>0
    <3> QED BY <1>1, <2>1, <3>1 DEF Ends
  <2>3. SegmentFrom(s, 1) = SubSeq(s, 1, n) BY <2>1, <2>2, SegmentUnique
  <2>4. SegmentFrom(s, 1) = s BY <2>3, SubSeqFull
  <2>5. ~Inside(s, 1) BY DEF Inside
  <2>6. LinePart(s, 1) = NormalizeOne(s) BY <1>1, <2>1, <2>4, <2>5 DEF LinePart
  <2> QED BY <1>2, <2>1, <2>6
<1>5. \A i \in 2..n : P[i] = <<>>
  <2> SUFFICES ASSUME NEW i \in 2..n PROVE LinePart(s, i) = <<>>
    BY <1>0, <1>2
  <2>1. i \in 1..n /\ i - 1 \in 1..n /\ i > 1 BY <1>0
  <2> QED BY <1>1, <2>1 DEF LinePart, Inside
<1> HIDE DEF P, n
<1>6. 0 \in T OBVIOUS
<1>7. ASSUME NEW m \in Nat, m \in T PROVE m + 1 \in T
  <2> SUFFICES ASSUME m + 1 \in 1..n PROVE FlattenSeq(SubSeq(P, 1, m + 1)) = NormalizeOne(s)
    OBVIOUS
  <2> DEFINE a == SubSeq(P, 1, m)
  <2>1. m \in 0..n /\ m + 1 \in 1..n /\ Len(P) \in Nat BY <1>0, <1>2
  <2>2. a \in Seq(Seq(Names)) /\ Len(a) = m BY <1>2, <2>1, FrontIs
  <2>3. P[m + 1] \in Seq(Names) BY <1>2, <2>1
  <2>4. SubSeq(P, 1, m + 1) = Append(a, P[m + 1])
    <3>1. 1 \in 1..Len(P) /\ m + 1 \in 1..Len(P) /\ (m + 1) - 1 = m BY <1>2, <2>1
    <3>2. SubSeq(P, 1, m + 1) = SubSeq(P, 1, (m + 1) - 1) \o <<P[m + 1]>>
      BY <1>2, <3>1, SubSeqRecursiveSecond
    <3>3. a \o <<P[m + 1]>> = Append(a, P[m + 1])
      <4> HIDE DEF a
      <4> QED BY <2>2, <2>3
    <3> QED BY <3>1, <3>2, <3>3
  <2>5. FlattenSeq(Append(a, P[m + 1])) = FlattenSeq(a) \o P[m + 1]
    <3> HIDE DEF a
    <3> QED BY <2>2, <2>3, FlattenAppend
  <2>6. CASE m = 0
    <3>1. a = <<>> BY <2>2, <2>6
    <3>2. FlattenSeq(a) = <<>> BY <3>1, FlattenEmpty
    <3>3. P[m + 1] = NormalizeOne(s) BY <1>4, <2>6
    <3>4. <<>> \o NormalizeOne(s) = NormalizeOne(s) BY <1>3, ConcatEmptySeq
    <3> QED BY <2>4, <2>5, <3>2, <3>3, <3>4
  <2>7. CASE m # 0
    <3>1. m \in 1..n /\ m + 1 \in 2..n BY <1>0, <2>1, <2>7
    <3>2. FlattenSeq(a) = NormalizeOne(s) BY <1>7, <3>1
    <3>3. P[m + 1] = <<>> BY <1>5, <3>1
    <3>4. NormalizeOne(s) \o <<>> = NormalizeOne(s) BY <1>3, ConcatEmptySeq
    <3> QED BY <2>4, <2>5, <3>2, <3>3, <3>4
  <2> QED BY <2>6, <2>7
<1> HIDE DEF T
<1>8. Nat \subseteq T BY <1>6, <1>7, NatInduct
<1>9. n \in T /\ n \in 1..n BY <1>0, <1>8
<1>10. FlattenSeq(SubSeq(P, 1, n)) = NormalizeOne(s) BY <1>9 DEF T
<1>11. SubSeq(P, 1, n) = P BY <1>2, SubSeqFull
<1>12. NormalizeLine(s) = FlattenSeq(P) BY LineIs DEF P
<1> QED BY <1>10, <1>11, <1>12

-----------------------------------------------------------------------------
(* A template is made of the words of its line and placeholders, and no longer. *)
Fits(s) ==
  /\ Vals(NormalizeLine(s)) \subseteq Placeholders \cup Vals(s)
  /\ Len(NormalizeLine(s)) <= Len(s)
  /\ NormalizeLine(s) = <<>> => s = <<>>

LEMMA LineFits == ASSUME NEW s \in Seq(Words) PROVE Fits(s)
<1> DEFINE T == {n \in Nat : \A t \in Seq(Words) : Len(t) <= n => Fits(t)}
<1>0. Fits(<<>>)
  <2>1. Len(<<>>) = 0 OBVIOUS
  <2> QED BY <2>1, LineEmpty, ValsEmpty DEF Fits
<1>1. 0 \in T
  <2> SUFFICES ASSUME NEW t \in Seq(Words), Len(t) <= 0 PROVE Fits(t)
    OBVIOUS
  <2>1. t = <<>> OBVIOUS
  <2> QED BY <1>0, <2>1
<1>2. ASSUME NEW n \in Nat, n \in T PROVE n + 1 \in T
  <2> SUFFICES ASSUME NEW t \in Seq(Words), Len(t) <= n + 1 PROVE Fits(t)
    OBVIOUS
  <2>1. CASE t = <<>> BY <1>0, <2>1
  <2>2. CASE t # <<>> /\ ~Compound(t)
    <3>1. NormalizeLine(t) = NormalizeOne(t) BY <2>2, LineSimple
    <3> QED BY <2>2, <3>1, NormalizeOneType DEF Fits
  <2>3. CASE Compound(t)
    <3>1. PICK i \in 1..Len(t) : t[i] \in Operators BY <2>3 DEF Compound
    <3> DEFINE a == SubSeq(t, 1, i - 1)  b == From(t, i + 1)  e == <<t[i]>>
    <3>2. i - 1 \in 0..Len(t) /\ i + 1 \in 1..(Len(t) + 1) /\ Len(t) \in Nat OBVIOUS
    <3>3. a \in Seq(Words) /\ Len(a) = i - 1 /\ \A j \in 1..(i - 1) : a[j] = t[j] BY <3>2, FrontIs
    <3>4. /\ b \in Seq(Words) /\ Len(b) = Len(t) - (i + 1) + 1
          /\ \A j \in 1..(Len(t) - (i + 1) + 1) : b[j] = t[(i + 1) + j - 1]
      BY <3>2, FromIs
    <3>5. NormalizeLine(t) = NormalizeLine(a) \o e \o NormalizeLine(b) BY <3>1, LineDivides
    <3> HIDE DEF a, b
    <3>6. Len(a) <= n /\ Len(b) <= n BY <3>2, <3>3, <3>4
    <3>7. Fits(a) /\ Fits(b) BY <1>2, <3>3, <3>4, <3>6
    <3>8. Vals(a) \subseteq Vals(t)
      <4>1. \A j \in 1..(i - 1) : j \in 1..Len(t) BY <3>2
      <4> QED BY <3>3, <4>1 DEF Vals
    <3>9. Vals(b) \subseteq Vals(t)
      <4>1. \A j \in 1..(Len(t) - (i + 1) + 1) : (i + 1) + j - 1 \in 1..Len(t) BY <3>2
      <4> QED BY <3>4, <4>1 DEF Vals
    <3> DEFINE A == NormalizeLine(a)  B == NormalizeLine(b)  C == A \o e
    <3>10. A \in Seq(Names) /\ B \in Seq(Names) BY <3>3, <3>4, LineType
    <3>11. e \in Seq(Names) /\ Len(e) = 1 /\ Vals(e) = {t[i]}
      <4>1. t[i] \in Names BY DEF Names
      <4>2. e \in Seq(Names) /\ Len(e) = 1 /\ e[1] = t[i] /\ 1..1 = {1} BY <4>1
      <4> QED BY <4>2 DEF Vals
    <3>12. t[i] \in Vals(t) BY DEF Vals
    <3> HIDE DEF A, B, e
    <3>13. C \in Seq(Names) /\ Len(C) = Len(A) + 1 /\ Vals(C) = Vals(A) \cup {t[i]}
      <4>1. Vals(A \o e) = Vals(A) \cup Vals(e) BY <3>10, <3>11, ValsConcat
      <4>2. A \o e \in Seq(Names) /\ Len(A \o e) = Len(A) + Len(e) BY <3>10, <3>11, ConcatProperties
      <4> QED BY <3>11, <4>1, <4>2
    <3> HIDE DEF C
    <3>14. Len(C \o B) = Len(A) + 1 + Len(B) /\ Vals(C \o B) = Vals(C) \cup Vals(B)
      <4>1. Vals(C \o B) = Vals(C) \cup Vals(B) BY <3>10, <3>13, ValsConcat
      <4>2. Len(C \o B) = Len(C) + Len(B) BY <3>10, <3>13, ConcatProperties
      <4> QED BY <3>13, <4>1, <4>2
    <3>15. NormalizeLine(t) = C \o B BY <3>5 DEF A, B, C
    <3>16. /\ Len(A) \in Nat /\ Len(B) \in Nat /\ Len(A) <= Len(a) /\ Len(B) <= Len(b)
           /\ Vals(A) \subseteq Placeholders \cup Vals(a) /\ Vals(B) \subseteq Placeholders \cup Vals(b)
      BY <3>7, <3>10 DEF Fits, A, B
    <3>17. Len(C \o B) <= Len(t) /\ Len(C \o B) # 0
      BY <3>2, <3>3, <3>4, <3>14, <3>16
    <3>18. Vals(C \o B) \subseteq Placeholders \cup Vals(t)
      BY <3>8, <3>9, <3>12, <3>13, <3>14, <3>16
    <3>19. C \o B # <<>> BY <3>17
    <3> QED BY <3>15, <3>17, <3>18, <3>19 DEF Fits
  <2> QED BY <2>1, <2>2, <2>3
<1> HIDE DEF T
<1>3. Nat \subseteq T BY <1>1, <1>2, NatInduct
<1>4. Len(s) \in T /\ Len(s) <= Len(s) BY <1>3
<1> QED BY <1>4 DEF T

Typed == line \in Seq(Words) /\ Len(line) <= MaxLine

LEMMA TypedInvariant == Spec => []Typed
<1>1. Init => Typed
  BY NormalizeAssumption DEF Init, Typed
<1>2. Typed /\ [Next]_line => Typed'
  <2> SUFFICES ASSUME Typed, [Next]_line PROVE Typed'
    OBVIOUS
  <2>1. CASE UNCHANGED line BY <2>1 DEF Typed
  <2>2. CASE Next
    <3>1. PICK w \in Words : Type(w) BY <2>2 DEF Next
    <3>2. Len(line) \in Nat /\ MaxLine \in Nat BY NormalizeAssumption DEF Typed
    <3> QED BY <3>1, <3>2 DEF Type, Typed
  <2> QED BY <2>1, <2>2
<1> QED BY <1>1, <1>2, PTL DEF Spec

(* TypeOK of every line that can be typed: its template is made of its words and of
   placeholders, is no longer, and is there whenever the line is. *)
THEOREM TypeTheorem == Spec => []TypeOK
<1>1. Typed => TypeOK
  <2> SUFFICES ASSUME Typed PROVE TypeOK
    OBVIOUS
  <2> DEFINE template == NormalizeLine(line)
  <2>1. line \in Seq(Words) /\ Fits(line) BY LineFits DEF Typed
  <2>2. template \in Seq(Names) BY <2>1, LineType
  <2>3. DOMAIN template = 1..Len(template) /\ DOMAIN line = 1..Len(line) BY <2>1, <2>2
  <2>4. Vals(template) \subseteq Placeholders \cup Vals(line) BY <2>1 DEF Fits
  <2>5. Len(template) <= Len(line) /\ (template = <<>> => line = <<>>) BY <2>1 DEF Fits
  <2> HIDE DEF template
  <2>6. \A i \in DOMAIN template : template[i] \in Placeholders \cup {line[j] : j \in DOMAIN line}
    BY <2>3, <2>4 DEF Vals
  <2> QED BY <2>5, <2>6 DEF TypeOK, Typed, template
<1> QED BY <1>1, TypedInvariant, PTL

(* SegmentsIndependent: an operator divides the template as it divides the line. *)
THEOREM SegmentsTheorem == Spec => []SegmentsIndependent
<1>1. Typed => SegmentsIndependent
  <2> SUFFICES ASSUME Typed, NEW i \in DOMAIN line, line[i] \in Operators
               PROVE  NormalizeLine(line) =
                        NormalizeLine(SubSeq(line, 1, i - 1)) \o <<line[i]>> \o NormalizeLine(From(line, i + 1))
    BY DEF SegmentsIndependent
  <2>1. line \in Seq(Words) /\ i \in 1..Len(line) BY DEF Typed
  <2> QED BY <2>1, LineDivides
<1> QED BY <1>1, TypedInvariant, PTL

-----------------------------------------------------------------------------
(* A template without a placeholder is the command itself. *)
LEMMA TemplateVerbatim ==
  ASSUME NEW u \in Seq(Words), u # <<>>, Vals(Template(u)) \cap Placeholders = {}
  PROVE  Template(u) = u
<1> DEFINE P == Pieces(u)
<1>1. /\ P \in Seq(Seq(Names)) /\ Len(P) = Shows(u)
      /\ \A i \in 1..Shows(u) : P[i] = Piece(u, i)
  BY PiecesType
<1>2. Len(u) \in Nat \ {0} /\ u \in Seq(Names)
  <2>1. \A i \in 1..Len(u) : u[i] \in Names BY DEF Names
  <2>2. Len(u) \in Nat \ {0} BY EmptySeq
  <2>3. u \in Seq(Names) BY SeqMonotonic DEF Names
  <2> QED BY <2>2, <2>3
<1>3. /\ Rest(u) \in Seq(Names) /\ Vals(Rest(u)) \subseteq Placeholders
      /\ Len(Rest(u)) = IF Dashes(u) = 0 THEN 0 ELSE 1
  BY RestType
<1> HIDE DEF P
<1>4. FlattenSeq(P) \in Seq(Names) BY <1>1, FlattenType
<1>5. Template(u) = FlattenSeq(P) \o Rest(u) BY TemplateIs DEF P
<1>6. Vals(Template(u)) = Vals(FlattenSeq(P)) \cup Vals(Rest(u)) BY <1>3, <1>4, <1>5, ValsConcat
<1>7. Dashes(u) = 0
  <2> SUFFICES ASSUME Dashes(u) # 0 PROVE FALSE OBVIOUS
  <2>1. Len(Rest(u)) = 1 /\ 1 \in 1..1 BY <1>3
  <2>2. Rest(u)[1] \in Vals(Rest(u)) BY <2>1 DEF Vals
  <2> QED BY <1>3, <1>6, <2>2
<1>8. Shows(u) = Len(u) /\ Rest(u) = <<>> BY <1>7 DEF Shows, Rest
<1>9. \A i \in 1..Len(u) : Plain(u, i)
  <2> DEFINE D == {i \in 1..Len(u) : ~Plain(u, i)}
  <2> SUFFICES ASSUME D # {} PROVE FALSE OBVIOUS
  <2>1. D \subseteq Nat OBVIOUS
  <2>2. PICK i \in D : \A j \in D : i <= j
    <3> HIDE DEF D
    <3> QED BY <2>1, Least
  <2>3. i \in 1..Len(u) /\ ~Plain(u, i) /\ i # 1 BY <2>2 DEF Plain
  <2>4. i - 1 \in 1..Len(u) /\ ~(i <= i - 1) /\ i > 1 BY <1>2, <2>3
  <2>5. Plain(u, i - 1) BY <2>2, <2>4
  <2>6. Class(u, i - 1) = u[i - 1] BY <2>4, <2>5, ClassIs
  <2>7. u[i - 1] \in Words BY <2>4
  <2>8. Class(u, i) \in Placeholders BY <2>3, ClassIs
  <2>9. Class(u, i) # Class(u, i - 1) BY <2>6, <2>7, <2>8, NormalizeAssumption
  <2>10. P[i] = <<Class(u, i)>> BY <1>1, <1>8, <2>3, <2>9 DEF Piece
  <2>11. P[i] \in Vals(P) BY <1>1, <1>8, <2>3 DEF Vals
  <2>12. Class(u, i) \in Vals(<<Class(u, i)>>)
    <3>1. Len(<<Class(u, i)>>) = 1 /\ <<Class(u, i)>>[1] = Class(u, i) /\ 1 \in 1..1 OBVIOUS
    <3> QED BY <3>1 DEF Vals
  <2>13. Vals(FlattenSeq(P)) = UNION {Vals(e) : e \in Vals(P)} BY <1>1, FlattenVals
  <2>14. Class(u, i) \in Vals(FlattenSeq(P)) BY <2>10, <2>11, <2>12, <2>13
  <2> QED BY <1>6, <2>8, <2>14
<1>10. P = [i \in 1..Len(u) |-> <<u[i]>>]
  <2>1. \A i \in 1..Len(u) : Piece(u, i) = <<u[i]>> BY <1>9, ClassIs DEF Piece
  <2>2. P = [i \in 1..Len(u) |-> Piece(u, i)] BY <1>8 DEF P, Pieces
  <2> QED BY <2>1, <2>2
<1>11. FlattenSeq(P) = u BY <1>10, FlattenSingles
<1>12. u \o <<>> = u BY ConcatEmptySeq
<1> QED BY <1>5, <1>8, <1>11, <1>12

(* ShownVerbatim: a template that is shown for want of a raw command has no
   placeholder, so it is the unwrapped command word by word. *)
THEOREM VerbatimTheorem == Spec => []ShownVerbatim
<1>1. Typed => ShownVerbatim
  <2> SUFFICES ASSUME Typed, ~Compound(line), line # <<>>, DisplayTemplate(NormalizeLine(line)) # <<>>
               PROVE  NormalizeLine(line) = Unwrap(line)
    BY DEF ShownVerbatim
  <2>1. line \in Seq(Words) BY DEF Typed
  <2> DEFINE u == Unwrap(line)  template == NormalizeLine(line)
  <2>2. u \in Seq(Words) /\ u # <<>> BY <2>1, UnwrapRange
  <2>3. template = Template(u) BY <2>1, LineSimple DEF NormalizeOne
  <2>4. template \in Seq(Names) BY <2>1, LineType
  <2>5. ~(\E i \in DOMAIN template : template[i] \in Placeholders) BY DEF DisplayTemplate
  <2> HIDE DEF u, template
  <2>6. Vals(template) \cap Placeholders = {} BY <2>4, <2>5 DEF Vals
  <2>7. Template(u) = u BY <2>2, <2>3, <2>6, TemplateVerbatim
  <2> QED BY <2>3, <2>7 DEF u, template
<1> QED BY <1>1, TypedInvariant, PTL

-----------------------------------------------------------------------------
(* The template of the first words of a command is the beginning of its own. *)
LEMMA PieceAgrees ==
  ASSUME NEW s, NEW t, NEW i \in Nat, s[1] = t[1], s[i] = t[i], i > 1 => s[i - 1] = t[i - 1]
  PROVE  Piece(s, i) = Piece(t, i)
<1>1. Plain(s, i) <=> Plain(t, i) BY DEF Plain
<1>2. Class(s, i) = Class(t, i) BY <1>1 DEF Class
<1>3. i > 1 => Class(s, i - 1) = Class(t, i - 1)
  <2> SUFFICES ASSUME i > 1 PROVE Class(s, i - 1) = Class(t, i - 1) OBVIOUS
  <2>1. Plain(s, i - 1) <=> Plain(t, i - 1) BY DEF Plain
  <2> QED BY <2>1 DEF Class
<1> QED BY <1>1, <1>2, <1>3 DEF Piece

LEMMA TemplateMonotone ==
  ASSUME NEW s \in Seq(Words), NEW m \in 1..Len(s)
  PROVE  StartsWith(Template(SubSeq(s, 1, m)), Template(s))
<1> DEFINE q == SubSeq(s, 1, m)
<1>0. Len(s) \in Nat /\ m \in 0..Len(s) /\ m \in Nat /\ s # <<>> OBVIOUS
<1>1. q \in Seq(Words) /\ Len(q) = m /\ \A i \in 1..m : q[i] = s[i] BY <1>0, FrontIs
<1> HIDE DEF q
<1>2. q # <<>> BY <1>0, <1>1
<1>3. ASSUME NEW i \in 1..m PROVE Piece(q, i) = Piece(s, i)
  <2>1. i \in Nat /\ 1 \in 1..m /\ (i > 1 => i - 1 \in 1..m) BY <1>0
  <2> QED BY <1>1, <2>1, PieceAgrees
<1>4. \/ Dashes(s) = 0 /\ \A i \in 2..Len(s) : s[i] # DoubleDash
      \/ /\ Dashes(s) \in 2..Len(s) /\ s[Dashes(s)] = DoubleDash
         /\ \A i \in 2..(Dashes(s) - 1) : s[i] # DoubleDash
  BY DashesIs
<1>5. \/ Dashes(q) = 0 /\ \A i \in 2..m : q[i] # DoubleDash
      \/ /\ Dashes(q) \in 2..m /\ q[Dashes(q)] = DoubleDash
         /\ \A i \in 2..(Dashes(q) - 1) : q[i] # DoubleDash
  BY <1>1, DashesIs
<1>6. CASE Dashes(s) # 0 /\ Dashes(s) <= m
  <2>1. Dashes(q) = Dashes(s)
    <3>1. Dashes(s) \in 2..m /\ Dashes(s) \in 1..m BY <1>0, <1>4, <1>6
    <3>2. q[Dashes(s)] = DoubleDash BY <1>1, <1>4, <1>6, <3>1
    <3>3. Dashes(q) \in 2..m /\ ~(Dashes(s) < Dashes(q)) BY <1>5, <3>1, <3>2
    <3>4. ~(Dashes(q) < Dashes(s))
      <4> SUFFICES ASSUME Dashes(q) < Dashes(s) PROVE FALSE OBVIOUS
      <4>1. Dashes(q) \in 2..(Dashes(s) - 1) /\ Dashes(q) \in 1..m BY <3>1, <3>3
      <4>2. q[Dashes(q)] = DoubleDash BY <1>5, <3>3
      <4>3. s[Dashes(q)] = DoubleDash BY <1>1, <4>1, <4>2
      <4> QED BY <1>4, <1>6, <4>1, <4>3
    <3> QED BY <3>1, <3>3, <3>4
  <2>2. Shows(q) = Shows(s) /\ Shows(s) \in 0..m BY <1>4, <1>6, <2>1 DEF Shows
  <2>3. Pieces(q) = Pieces(s) BY <1>3, <2>2 DEF Pieces
  <2>4. Rest(q) = Rest(s) BY <2>1 DEF Rest
  <2>5. Template(q) = Template(s) BY <2>3, <2>4, TemplateIs
  <2>6. Len(Template(s)) \in Nat BY <1>0, TemplateType
  <2> QED BY <2>5, <2>6 DEF StartsWith, q
<1>7. CASE Dashes(s) = 0 \/ Dashes(s) > m
  <2>1. Dashes(q) = 0
    <3> SUFFICES ASSUME Dashes(q) # 0 PROVE FALSE OBVIOUS
    <3>1. Dashes(q) \in 2..m /\ Dashes(q) \in 1..m /\ Dashes(q) \in 2..Len(s) /\ q[Dashes(q)] = DoubleDash
      BY <1>0, <1>5
    <3>2. s[Dashes(q)] = DoubleDash BY <1>1, <3>1
    <3> QED BY <1>0, <1>4, <1>7, <3>1, <3>2
  <2>2. Shows(q) = m /\ Rest(q) = <<>> BY <1>1, <2>1 DEF Shows, Rest
  <2>3. m <= Shows(s) /\ Shows(s) \in Nat BY <1>0, <1>4, <1>7 DEF Shows
  <2>4. m \in 0..Shows(s) BY <1>0, <2>3
  <2> DEFINE a == SubSeq(Pieces(s), 1, m)
  <2>5. a \in Seq(Seq(Names)) /\ FlattenSeq(a) \in Seq(Names) /\ StartsWith(FlattenSeq(a), Template(s))
    BY <1>0, <2>4, TemplateFront
  <2>6. Pieces(q) = a
    <3>1. Pieces(s) \in Seq(Seq(Names)) /\ Len(Pieces(s)) = Shows(s)
          /\ \A i \in 1..Shows(s) : Pieces(s)[i] = Piece(s, i)
      BY <1>0, PiecesType
    <3>2. Len(a) = m /\ \A i \in 1..m : a[i] = Pieces(s)[i] BY <2>4, <3>1, FrontIs
    <3>3. Pieces(q) \in Seq(Seq(Names)) /\ Len(Pieces(q)) = m /\ \A i \in 1..m : Pieces(q)[i] = Piece(q, i)
      BY <1>1, <1>2, <2>2, PiecesType
    <3> HIDE DEF a
    <3>4. ASSUME NEW i \in 1..m PROVE Pieces(q)[i] = a[i]
      <4>1. i \in 1..Shows(s) BY <1>0, <2>3
      <4> QED BY <1>3, <3>1, <3>2, <3>3, <4>1
    <3> QED BY <2>5, <3>2, <3>3, <3>4, SeqEqual
  <2> HIDE DEF a
  <2>7. Template(q) = FlattenSeq(a) \o <<>> BY <2>2, <2>6, TemplateIs
  <2>8. Template(q) = FlattenSeq(a) BY <2>5, <2>7, ConcatEmptySeq
  <2> QED BY <2>5, <2>8 DEF q
<1> QED BY <1>4, <1>6, <1>7

LEMMA FrontFront ==
  ASSUME NEW S, NEW s \in Seq(S), NEW n \in 0..Len(s), NEW m \in 0..n
  PROVE  SubSeq(SubSeq(s, 1, n), 1, m) = SubSeq(s, 1, m)
<1> DEFINE q == SubSeq(s, 1, n)  a == SubSeq(q, 1, m)  b == SubSeq(s, 1, m)
<1>0. Len(s) \in Nat /\ m \in 0..Len(s) OBVIOUS
<1>1. q \in Seq(S) /\ Len(q) = n /\ \A i \in 1..n : q[i] = s[i] BY FrontIs
<1>2. b \in Seq(S) /\ Len(b) = m /\ \A i \in 1..m : b[i] = s[i] BY <1>0, FrontIs
<1> HIDE DEF q, b
<1>3. m \in 0..Len(q) BY <1>1
<1>4. a \in Seq(S) /\ Len(a) = m /\ \A i \in 1..m : a[i] = q[i] BY <1>1, <1>3, FrontIs
<1> HIDE DEF a
<1>5. \A i \in 1..m : a[i] = b[i] /\ i \in 1..n BY <1>0, <1>1, <1>2, <1>4
<1>6. a = b BY <1>2, <1>4, <1>5, SeqEqual
<1> QED BY <1>6 DEF a, b, q

LEMMA StartsWithAfter ==
  ASSUME NEW S, NEW p \in Seq(S), NEW a \in Seq(S), NEW b \in Seq(S), StartsWith(a, b)
  PROVE  StartsWith(p \o a, p \o b)
<1> DEFINE x == p \o a  y == p \o b  m == Len(p)
<1>1. Len(p) \in Nat /\ Len(a) \in Nat /\ Len(b) \in Nat /\ Len(a) <= Len(b) BY DEF StartsWith
<1>2. Len(x) = m + Len(a) /\ \A i \in 1..(m + Len(a)) : x[i] = IF i <= m THEN p[i] ELSE a[i - m]
  BY ConcatProperties
<1>3. Len(y) = m + Len(b) /\ \A i \in 1..(m + Len(b)) : y[i] = IF i <= m THEN p[i] ELSE b[i - m]
  BY ConcatProperties
<1> HIDE DEF x, y
<1>4. m \in Nat BY <1>1
<1> HIDE DEF m
<1>5. ASSUME NEW i \in 1..(m + Len(a)) PROVE x[i] = y[i]
  <2>1. i \in 1..(m + Len(b)) BY <1>1, <1>4
  <2>2. CASE i <= m BY <1>2, <1>3, <2>1, <2>2
  <2>3. CASE ~(i <= m)
    <3>1. i - m \in 1..Len(a) BY <1>1, <1>4, <2>3
    <3>2. a[i - m] = b[i - m] BY <3>1 DEF StartsWith
    <3> QED BY <1>2, <1>3, <2>1, <2>3, <3>2
  <2> QED BY <2>2, <2>3
<1>6. Len(x) <= Len(y) BY <1>1, <1>2, <1>3, <1>4
<1> QED BY <1>2, <1>5, <1>6 DEF StartsWith, x, y

(* A command that is still being typed, in the last segment of a line. *)
LEMMA SegmentMonotone ==
  ASSUME NEW s \in Seq(Words), NEW m \in 1..Len(s), s[1] \in Bare, \A i \in 1..m : s[i] \notin Operators
  PROVE  StartsWith(NormalizeLine(SubSeq(s, 1, m)), NormalizeLine(s))
<1> DEFINE q == SubSeq(s, 1, m)
<1>0. Len(s) \in Nat /\ m \in 0..Len(s) /\ s # <<>> OBVIOUS
<1>1. q \in Seq(Words) /\ Len(q) = m /\ \A i \in 1..m : q[i] = s[i] BY <1>0, FrontIs
<1> HIDE DEF q
<1>2. q # <<>> /\ q[1] \in Bare /\ ~Compound(q)
  <2>1. DOMAIN q = 1..m /\ 1 \in 1..m BY <1>1
  <2> QED BY <1>0, <1>1, <2>1 DEF Compound
<1>3. NormalizeLine(q) = Template(q) BY <1>1, <1>2, LineSimple, UnwrapPlain DEF NormalizeOne
<1>4. CASE ~Compound(s)
  <2>1. NormalizeLine(s) = Template(s) BY <1>0, <1>4, LineSimple, UnwrapPlain DEF NormalizeOne
  <2> QED BY <1>3, <2>1, TemplateMonotone DEF q
<1>5. CASE Compound(s)
  <2> DEFINE D == {i \in 1..Len(s) : s[i] \in Operators}
  <2>1. D \subseteq Nat /\ D # {} BY <1>5 DEF Compound
  <2>2. PICK i \in D : \A j \in D : i <= j
    <3> HIDE DEF D
    <3> QED BY <2>1, Least
  <2>3. i \in 1..Len(s) /\ s[i] \in Operators /\ m < i /\ i \in Nat
    <3>1. i \in 1..Len(s) /\ s[i] \in Operators BY <2>2
    <3>2. i \notin 1..m BY <3>1
    <3> QED BY <1>0, <3>1, <3>2
  <2> DEFINE d == SubSeq(s, 1, i - 1)
  <2>4. i - 1 \in 0..Len(s) BY <1>0, <2>3
  <2>5. d \in Seq(Words) /\ Len(d) = i - 1 /\ \A j \in 1..(i - 1) : d[j] = s[j] BY <2>4, FrontIs
  <2>6. SubSeq(d, 1, m) = q
    <3>1. m \in 0..(i - 1) BY <1>0, <2>3
    <3> QED BY <2>4, <3>1, FrontFront DEF q
  <2> HIDE DEF d
  <2>7. m \in 1..Len(d) /\ d # <<>> /\ d[1] \in Bare /\ ~Compound(d)
    <3>1. m \in 1..Len(d) /\ 1 \in 1..(i - 1) /\ d # <<>> BY <1>0, <2>3, <2>5
    <3>2. \A j \in 1..(i - 1) : j \in 1..Len(s) /\ ~(i <= j) BY <1>0, <2>3
    <3>3. \A j \in 1..(i - 1) : d[j] \notin Operators BY <2>2, <2>5, <3>2
    <3>4. DOMAIN d = 1..(i - 1) BY <2>5
    <3> QED BY <2>5, <3>1, <3>3, <3>4 DEF Compound
  <2>8. NormalizeLine(d) = Template(d) BY <2>5, <2>7, LineSimple, UnwrapPlain DEF NormalizeOne
  <2>9. StartsWith(Template(q), Template(d)) BY <2>5, <2>6, <2>7, TemplateMonotone
  <2> DEFINE r == From(s, i + 1)  e == <<s[i]>>
  <2>10. r \in Seq(Words)
    <3>1. i + 1 \in 1..(Len(s) + 1) BY <1>0, <2>3
    <3> QED BY <3>1, FromIs
  <2>11. NormalizeLine(s) = NormalizeLine(d) \o e \o NormalizeLine(r) BY <2>3, LineDivides DEF d
  <2> HIDE DEF r
  <2>12. e \in Seq(Names)
    <3>1. s[i] \in Names BY <2>3 DEF Names
    <3> QED BY <3>1
  <2> HIDE DEF e
  <2>13. NormalizeLine(d) \in Seq(Names) /\ NormalizeLine(r) \in Seq(Names) /\ NormalizeLine(q) \in Seq(Names)
    BY <1>1, <2>5, <2>10, LineType
  <2>14. NormalizeLine(d) \o e \in Seq(Names) BY <2>12, <2>13, ConcatProperties
  <2>15. StartsWith(NormalizeLine(d), NormalizeLine(d) \o e) BY <2>12, <2>13, StartsWithConcat
  <2>16. StartsWith(NormalizeLine(d) \o e, NormalizeLine(s)) BY <2>11, <2>13, <2>14, StartsWithConcat
  <2>17. NormalizeLine(s) \in Seq(Names) BY LineType
  <2>18. StartsWith(NormalizeLine(d), NormalizeLine(s)) BY <2>13, <2>14, <2>15, <2>16, <2>17, StartsWithTrans
  <2>19. StartsWith(NormalizeLine(q), NormalizeLine(d)) BY <1>3, <2>8, <2>9
  <2> QED BY <2>13, <2>17, <2>18, <2>19, StartsWithTrans DEF q
<1> QED BY <1>4, <1>5

(* Where the segment begins. *)
LEMMA StartIs ==
  ASSUME line \in Seq(Words), NEW k \in 1..Len(line), line[k] \notin Operators
  PROVE  /\ Start(k) \in 1..k
         /\ Start(k) = 1 \/ line[Start(k) - 1] \in Operators
         /\ \A j \in Start(k)..k : line[j] \notin Operators
<1> DEFINE D == {i \in 1..k : line[i] \notin Operators /\ ~Inside(line, i)} \cup {1}  a == Max(D)
<1>0. Len(line) \in Nat /\ k \in Nat /\ D \subseteq 1..k OBVIOUS
<1>1. Start(k) = a BY DEF Start
<1>2. a \in D /\ \A i \in D : a >= i
  <2> DEFINE E == {k - i : i \in D}
  <2>1. E \subseteq Nat /\ E # {} BY <1>0
  <2>2. PICK e \in E : \A d \in E : e <= d
    <3> HIDE DEF E
    <3> QED BY <2>1, Least
  <2> HIDE DEF D, a
  <2>3. PICK x \in D : e = k - x BY <2>2
  <2>4. ASSUME NEW i \in D PROVE x >= i
    <3>1. k - i \in E OBVIOUS
    <3>2. e <= k - i /\ i \in 1..k /\ x \in 1..k BY <1>0, <2>2, <3>1
    <3> QED BY <1>0, <2>3, <3>2
  <2> QED BY <2>4 DEF Max, a
<1>3. a \in 1..k BY <1>0, <1>2
<1>4. a = 1 \/ line[a - 1] \in Operators
  <2> SUFFICES ASSUME a # 1 PROVE line[a - 1] \in Operators OBVIOUS
  <2>1. ~Inside(line, a) /\ a > 1
    <3> HIDE DEF a
    <3> QED BY <1>2, <1>3
  <2> HIDE DEF a
  <2> QED BY <2>1 DEF Inside
<1>5. \A i \in 1..k : line[i] \notin Operators /\ ~Inside(line, i) => i <= a
  <2>1. \A i \in 1..k : line[i] \notin Operators /\ ~Inside(line, i) => i \in D OBVIOUS
  <2> HIDE DEF D, a
  <2> QED BY <1>0, <1>2, <1>3, <2>1
<1> HIDE DEF D, a
<1> DEFINE T == {j \in 1..k : j >= a => line[j] \notin Operators}
<1>6. ASSUME NEW i \in 1..k, \A j \in 1..k : j > i => j \in T PROVE i \in T
  <2> SUFFICES ASSUME i >= a, line[i] \in Operators PROVE FALSE OBVIOUS
  <2>1. i # k /\ i + 1 \in 1..k /\ i + 1 > i /\ i + 1 >= a /\ ~(i + 1 <= a) /\ (i + 1) - 1 = i
    BY <1>0, <1>3
  <2>2. line[i + 1] \notin Operators BY <1>6, <2>1
  <2>3. ~Inside(line, i + 1) BY <2>1 DEF Inside
  <2> QED BY <1>5, <2>1, <2>2, <2>3
<1> HIDE DEF T
<1>7. 1..k \subseteq T BY <1>0, <1>6, DownInduct
<1>8. \A j \in a..k : j \in 1..k /\ j >= a BY <1>0, <1>3
<1>9. \A j \in a..k : line[j] \notin Operators BY <1>7, <1>8 DEF T
<1> QED BY <1>1, <1>3, <1>4, <1>9

LEMMA WordsKept ==
  ASSUME line \in Seq(Words), NEW k \in 1..Len(line),
         line[Start(k)] \notin Assignments \cup DOMAIN Wrappers \cup {Flock}
  PROVE  StartsWith(NormalizeLine(SubSeq(line, 1, k)), NormalizeLine(line))
<1> DEFINE q == SubSeq(line, 1, k)  N == NormalizeLine(line)
<1>0. Len(line) \in Nat /\ k \in 0..Len(line) /\ k \in Nat OBVIOUS
<1>1. q \in Seq(Words) /\ Len(q) = k /\ \A i \in 1..k : q[i] = line[i] BY <1>0, FrontIs
<1>2. CASE line[k] \in Operators
  <2> DEFINE a == SubSeq(line, 1, k - 1)  e == <<line[k]>>  A == NormalizeLine(a)  b == From(line, k + 1)
  <2>1. k - 1 \in 0..k /\ k - 1 \in 0..Len(line) /\ k + 1 \in 1..(Len(line) + 1) /\ k \in 1..k BY <1>0
  <2>2. SubSeq(q, 1, k - 1) = a BY <1>0, <2>1, FrontFront
  <2>3. From(q, k + 1) = <<>>
    <3>1. k + 1 \in Int /\ Len(q) \in Int /\ Len(q) < k + 1 BY <1>0, <1>1
    <3> HIDE DEF q
    <3> QED BY <3>1, SubSeqEmpty DEF From
  <2>4. a \in Seq(Words) BY <2>1, FrontIs
  <2>5. b \in Seq(Words) BY <2>1, FromIs
  <2> HIDE DEF a, b, q
  <2>6. q[k] = line[k] /\ k \in 1..Len(q) BY <1>0, <1>1
  <2>7. NormalizeLine(q) = NormalizeLine(SubSeq(q, 1, k - 1)) \o <<q[k]>> \o NormalizeLine(From(q, k + 1))
    BY <1>1, <1>2, <2>6, LineDivides
  <2>8. NormalizeLine(q) = A \o e \o <<>> BY <2>2, <2>3, <2>6, <2>7, LineEmpty
  <2>9. N = A \o e \o NormalizeLine(b) BY <1>2, LineDivides DEF a, b
  <2>10. e \in Seq(Names)
    <3>1. line[k] \in Names BY DEF Names
    <3> QED BY <3>1
  <2>11. A \in Seq(Names) /\ NormalizeLine(b) \in Seq(Names) BY <2>4, <2>5, LineType
  <2> HIDE DEF A, e, N
  <2>12. A \o e \in Seq(Names) BY <2>10, <2>11, ConcatProperties
  <2>13. NormalizeLine(q) = A \o e BY <2>8, <2>12, ConcatEmptySeq
  <2> QED BY <2>9, <2>11, <2>12, <2>13, StartsWithConcat DEF q, N
<1>3. CASE line[k] \notin Operators
  <2> DEFINE a == Start(k)  s == From(line, a)  m == k - a + 1  c == SubSeq(s, 1, m)
  <2>1. a \in 1..k /\ (a = 1 \/ line[a - 1] \in Operators) /\ \A j \in a..k : line[j] \notin Operators
    BY <1>3, StartIs
  <2>2. line[a] \in Bare
    <3>1. line[a] \in Words BY <1>0, <2>1
    <3> QED BY <3>1 DEF Bare
  <2> HIDE DEF a
  <2>3. a \in 1..(Len(line) + 1) /\ a \in 1..(Len(q) + 1) /\ a \in 1..Len(line) BY <1>0, <1>1, <2>1
  <2>4. /\ s \in Seq(Words) /\ Len(s) = Len(line) - a + 1
        /\ \A j \in 1..(Len(line) - a + 1) : s[j] = line[a + j - 1]
    BY <2>3, FromIs
  <2>5. /\ From(q, a) \in Seq(Words) /\ Len(From(q, a)) = k - a + 1
        /\ \A j \in 1..(k - a + 1) : From(q, a)[j] = q[a + j - 1]
    <3> HIDE DEF q
    <3>1. /\ From(q, a) \in Seq(Words) /\ Len(From(q, a)) = Len(q) - a + 1
          /\ \A j \in 1..(Len(q) - a + 1) : From(q, a)[j] = q[a + j - 1]
      <4>1. q \in Seq(Words) /\ a \in 1..(Len(q) + 1) BY <1>1, <2>3
      <4> QED BY <4>1, FromIs
    <3>2. Len(q) = k BY <1>1
    <3> QED BY <3>1, <3>2
  <2> HIDE DEF s
  <2>6. m \in 0..Len(s) /\ m \in 1..Len(s) BY <1>0, <2>1, <2>4
  <2>7. c \in Seq(Words) /\ Len(c) = m /\ \A j \in 1..m : c[j] = s[j] BY <2>4, <2>6, FrontIs
  <2>8. From(q, a) = c
    <3> DEFINE d == From(q, a)
    <3>1. ASSUME NEW j \in 1..m PROVE d[j] = c[j]
      <4>1. a + j - 1 \in 1..k /\ j \in 1..(Len(line) - a + 1) BY <1>0, <2>1
      <4> QED BY <1>1, <2>4, <2>5, <2>7, <4>1
    <3> HIDE DEF d, c, m
    <3>2. d \in Seq(Words) /\ Len(d) = Len(c) BY <2>5, <2>7 DEF d, m
    <3>3. d = c BY <2>7, <3>1, <3>2, SeqEqual
    <3> QED BY <3>3 DEF d
  <2>9. s[1] \in Bare /\ \A j \in 1..m : s[j] \notin Operators
    <3>1. 1 \in 1..(Len(line) - a + 1) /\ a + 1 - 1 = a BY <1>0, <2>1
    <3>2. \A j \in 1..m : j \in 1..(Len(line) - a + 1) /\ a + j - 1 \in a..k BY <1>0, <2>1
    <3> QED BY <2>1, <2>2, <2>4, <3>1, <3>2
  <2>10. StartsWith(NormalizeLine(c), NormalizeLine(s)) BY <2>4, <2>6, <2>9, SegmentMonotone
  <2> HIDE DEF c, m
  <2>11. CASE a = 1
    <3>1. s = line /\ From(q, a) = q BY <1>1, <2>11, FromOne DEF s
    <3> QED BY <2>8, <2>10, <3>1
  <2>12. CASE a # 1
    <3> DEFINE p == SubSeq(line, 1, a - 2)  e == <<line[a - 1]>>  A == NormalizeLine(p) \o e
    <3>1. /\ a - 1 \in 1..Len(line) /\ a - 1 \in 1..k /\ (a - 1) + 1 = a /\ (a - 1) - 1 = a - 2
          /\ a - 2 \in 0..k /\ a - 2 \in 0..Len(line)
      BY <1>0, <2>1, <2>12
    <3>2. line[a - 1] \in Operators BY <2>1, <2>12
    <3>3. NormalizeLine(line) = NormalizeLine(SubSeq(line, 1, (a - 1) - 1)) \o <<line[a - 1]>> \o NormalizeLine(From(line, (a - 1) + 1))
      BY <3>1, <3>2, LineDivides
    <3>4. N = A \o NormalizeLine(s) BY <3>1, <3>3 DEF s
    <3>5. q[a - 1] = line[a - 1] /\ a - 1 \in 1..Len(q) BY <1>1, <3>1
    <3>6. SubSeq(q, 1, a - 2) = p BY <1>0, <3>1, FrontFront
    <3> HIDE DEF q, p
    <3>7. NormalizeLine(q) = NormalizeLine(SubSeq(q, 1, (a - 1) - 1)) \o <<q[a - 1]>> \o NormalizeLine(From(q, (a - 1) + 1))
      BY <1>1, <3>2, <3>5, LineDivides
    <3>8. NormalizeLine(q) = A \o NormalizeLine(c) BY <2>8, <3>1, <3>5, <3>6, <3>7
    <3>9. A \in Seq(Names)
      <4>1. p \in Seq(Words) BY <3>1, FrontIs DEF p
      <4>2. NormalizeLine(p) \in Seq(Names) BY <4>1, LineType
      <4>3. line[a - 1] \in Names BY <3>1 DEF Names
      <4>4. e \in Seq(Names) BY <4>3
      <4> HIDE DEF e
      <4> QED BY <4>2, <4>4, ConcatProperties
    <3>10. NormalizeLine(c) \in Seq(Names) /\ NormalizeLine(s) \in Seq(Names) BY <2>4, <2>7, LineType
    <3> HIDE DEF A, N
    <3>11. StartsWith(A \o NormalizeLine(c), A \o NormalizeLine(s)) BY <2>10, <3>9, <3>10, StartsWithAfter
    <3> QED BY <3>4, <3>8, <3>11 DEF q, N
  <2> QED BY <2>11, <2>12
<1> QED BY <1>2, <1>3

(* WordsKeepSuggestion: the template of the words typed so far is the beginning of
   the template of the line, whatever follows, so the suggestion survives the filter. *)
THEOREM WordsTheorem == Spec => []WordsKeepSuggestion
<1>1. Typed => WordsKeepSuggestion
  <2> SUFFICES ASSUME Typed, NEW k \in DOMAIN line,
                      line[Start(k)] \notin Assignments \cup DOMAIN Wrappers \cup {Flock}
               PROVE  Survives(NormalizeLine(line), SubSeq(line, 1, k))
    BY DEF WordsKeepSuggestion
  <2>1. line \in Seq(Words) /\ k \in 1..Len(line) BY DEF Typed
  <2> DEFINE q == SubSeq(line, 1, k)
  <2>2. StartsWith(NormalizeLine(q), NormalizeLine(line)) BY <2>1, WordsKept
  <2>3. q \in Seq(Words)
    <3>1. k \in 0..Len(line) BY <2>1
    <3> QED BY <2>1, <3>1, FrontIs
  <2> HIDE DEF q
  <2>4. DOMAIN NormalizeLine(q) = 1..Len(NormalizeLine(q)) BY <2>3, LineType
  <2>5. Survives(NormalizeLine(line), q) BY <2>2, <2>4 DEF Survives, BeginsWith, StartsWith
  <2> QED BY <2>5 DEF q
<1> QED BY <1>1, TypedInvariant, PTL

-----------------------------------------------------------------------------
(* Unwrapping looks no further than the command it finds, and at that command only to
   see that it is neither a flag, an assignment nor a wrapper. *)
Alike(s, t, p) ==
  /\ p \in 1..Len(s) /\ p \in 1..Len(t) /\ (p = Len(s) <=> p = Len(t))
  /\ \A i \in 1..(p - 1) : t[i] = s[i]
  /\ t[p] = s[p] \/ t[p] \notin Flags \cup Assignments \cup DOMAIN Wrappers \cup {Flock}

LEMMA AlikeLess ==
  ASSUME NEW s \in Seq(Words), NEW t \in Seq(Words), NEW p, Alike(s, t, p), NEW r \in 1..(p - 1)
  PROVE  Alike(s, t, r)
<1>1. Len(s) \in Nat /\ Len(t) \in Nat /\ p \in 1..Len(s) /\ p \in 1..Len(t) BY DEF Alike
<1>2. r \in 1..Len(s) /\ r \in 1..Len(t) /\ r # Len(s) /\ r # Len(t) BY <1>1
<1>3. \A i \in 1..(r - 1) : i \in 1..(p - 1) BY <1>1
<1> QED BY <1>2, <1>3 DEF Alike

LEMMA AlikeShift ==
  ASSUME NEW s \in Seq(Words), NEW t \in Seq(Words), NEW p, Alike(s, t, p), NEW i \in 1..p
  PROVE  Alike(From(s, i), From(t, i), p - i + 1)
<1> DEFINE a == From(s, i)  b == From(t, i)  r == p - i + 1
<1>1. Len(s) \in Nat /\ Len(t) \in Nat /\ p \in 1..Len(s) /\ p \in 1..Len(t) BY DEF Alike
<1>2. i \in 1..(Len(s) + 1) /\ i \in 1..(Len(t) + 1) BY <1>1
<1>3. Len(a) = Len(s) - i + 1 /\ \A j \in 1..(Len(s) - i + 1) : a[j] = s[i + j - 1] BY <1>2, FromIs
<1>4. Len(b) = Len(t) - i + 1 /\ \A j \in 1..(Len(t) - i + 1) : b[j] = t[i + j - 1] BY <1>2, FromIs
<1> HIDE DEF a, b
<1>5. r \in 1..Len(a) /\ r \in 1..Len(b) /\ (r = Len(a) <=> p = Len(s)) /\ (r = Len(b) <=> p = Len(t))
  BY <1>1, <1>3, <1>4
<1>6. \A j \in 1..(r - 1) : b[j] = a[j]
  <2> SUFFICES ASSUME NEW j \in 1..(r - 1) PROVE b[j] = a[j] OBVIOUS
  <2>1. j \in 1..(Len(s) - i + 1) /\ j \in 1..(Len(t) - i + 1) /\ i + j - 1 \in 1..(p - 1) BY <1>1
  <2> QED BY <1>3, <1>4, <2>1 DEF Alike
<1>7. a[r] = s[p] /\ b[r] = t[p]
  <2>1. r \in 1..(Len(s) - i + 1) /\ r \in 1..(Len(t) - i + 1) /\ i + r - 1 = p BY <1>1
  <2> HIDE DEF r
  <2> QED BY <1>3, <1>4, <2>1
<1>8. r = Len(a) <=> r = Len(b) BY <1>5 DEF Alike
<1> HIDE DEF r
<1>9. b[r] = a[r] \/ b[r] \notin Flags \cup Assignments \cup DOMAIN Wrappers \cup {Flock} BY <1>7 DEF Alike
<1> QED BY <1>5, <1>6, <1>8, <1>9 DEF Alike, a, b, r

LEMMA DoubleDashIsFlag == ASSUME NEW w \in Words, w \notin Flags PROVE w # DoubleDash
BY NormalizeAssumption

LEMMA FindInnerStable ==
  ASSUME NEW s \in Seq(Words), NEW t \in Seq(Words), NEW c, NEW p, Alike(s, t, p), FindInner(s, c) = p
  PROVE  FindInner(t, c) = p
<1> DEFINE n == Len(s)
<1>0. n \in Nat /\ Len(t) \in Nat /\ p \in 1..n /\ p \in 1..Len(t) BY DEF Alike
<1>1. PICK f : /\ FindInner(s, c) = f[2][0]
               /\ \A i \in Nat : \A k \in Nat : f[i][k] = Visit(f, s, c, i, k)
  BY <1>0, FindInnerIs
<1>2. PICK g : /\ FindInner(t, c) = g[2][0]
               /\ \A i \in Nat : \A k \in Nat : g[i][k] = Visit(g, t, c, i, k)
  BY <1>0, FindInnerIs
<1>3. t[p] = s[p] \/ (t[p] \notin Flags \cup Assignments /\ t[p] # DoubleDash)
  <2>1. t[p] \in Words BY <1>0
  <2> QED BY <2>1, DoubleDashIsFlag DEF Alike
<1>4. \A i \in 1..(p - 1) : t[i] = s[i] BY DEF Alike
(* The scan never comes back from beyond p. *)
<1> DEFINE U == {i \in 1..(n + 2) : \A k \in Nat : f[i][k] = p => i <= p}
<1>5. ASSUME NEW i \in 1..(n + 2), \A j \in 1..(n + 2) : j > i => j \in U PROVE i \in U
  <2> SUFFICES ASSUME NEW k \in Nat, f[i][k] = p, i > p PROVE FALSE
    BY <1>0
  <2>1. f[i][k] = Visit(f, s, c, i, k) /\ i \in Nat BY <1>1
  <2>2. i <= n
    <3> SUFFICES ASSUME i > n PROVE FALSE BY <1>0
    <3>1. f[i][k] = 0 BY <2>1 DEF Visit
    <3> QED BY <1>0, <2>1, <3>1
  <2>3. i + 1 \in U /\ i + 2 \in U /\ k + 1 \in Nat
    <3>1. i + 1 \in 1..(n + 2) /\ i + 2 \in 1..(n + 2) /\ i + 1 > i /\ i + 2 > i BY <1>0, <2>2
    <3> QED BY <1>5, <3>1
  <2>4. f[i + 1][k] # p /\ f[i + 2][k] # p /\ f[i + 1][k + 1] # p
    <3>1. ~(i + 1 <= p) /\ ~(i + 2 <= p) BY <1>0
    <3> QED BY <2>3, <3>1
  <2>5. i + 1 # p /\ i # p /\ 0 # p BY <1>0
  <2> QED BY <2>1, <2>4, <2>5 DEF Visit
<1> HIDE DEF U
<1>6. 1..(n + 2) \subseteq U
  <2> DEFINE N == n + 2
  <2>1. N \in Nat BY <1>0
  <2>2. \A i \in 1..N : (\A j \in 1..N : j > i => j \in U) => i \in U BY <1>5
  <2> HIDE DEF N
  <2>3. 1..N \subseteq U BY <2>1, <2>2, DownInduct
  <2> QED BY <2>3 DEF N
<1> DEFINE T == {i \in 1..p : \A k \in Nat : f[i][k] = p => g[i][k] = p}
<1>7. ASSUME NEW i \in 1..p, \A j \in 1..p : j > i => j \in T PROVE i \in T
  <2> SUFFICES ASSUME NEW k \in Nat, f[i][k] = p PROVE g[i][k] = p
    OBVIOUS
  <2>1. f[i][k] = Visit(f, s, c, i, k) /\ g[i][k] = Visit(g, t, c, i, k) /\ i \in Nat BY <1>0, <1>1, <1>2
  <2>2. ~(i > Len(s)) /\ ~(i > Len(t)) BY <1>0
  <2>3. ASSUME NEW j \in {i + 1, i + 2}, NEW l \in Nat, f[j][l] = p PROVE g[j][l] = p /\ i # p
    <3>1. j \in 1..(n + 2) BY <1>0
    <3>2. j <= p BY <1>6, <2>3, <3>1 DEF U
    <3>3. j \in 1..p /\ j > i BY <1>0, <3>2
    <3> QED BY <1>0, <1>7, <2>3, <3>2, <3>3
  <2>4. i + 1 \in {i + 1, i + 2} /\ i + 2 \in {i + 1, i + 2} /\ k + 1 \in Nat OBVIOUS
  <2>5. CASE i < p
    <3>1. t[i] = s[i] /\ i < Len(t) /\ i < Len(s)
      <4>1. i \in 1..(p - 1) BY <1>0, <2>5
      <4> QED BY <1>0, <1>4, <4>1
    <3>2. i # p BY <1>0, <2>5
    <3> QED BY <2>1, <2>2, <2>3, <2>4, <3>1, <3>2 DEF Visit
  <2>6. CASE i = p
    <3>1. ~(c.dashes /\ s[i] = DoubleDash)
      <4>1. i + 1 # p /\ 0 # p BY <1>0, <2>6
      <4> QED BY <2>1, <2>2, <4>1 DEF Visit
    <3>2. ~(c.flags /\ s[i] \in Flags)
      BY <2>1, <2>2, <2>3, <2>4, <2>6, <3>1 DEF Visit
    <3>3. ~(c.env /\ s[i] \in Assignments)
      BY <2>1, <2>2, <2>3, <2>4, <2>6, <3>1, <3>2 DEF Visit
    <3>4. ~(k < c.positional)
      BY <2>1, <2>2, <2>3, <2>4, <2>6, <3>1, <3>2, <3>3 DEF Visit
    <3> QED BY <1>3, <2>1, <2>2, <2>6, <3>1, <3>2, <3>3, <3>4 DEF Visit
  <2> QED BY <1>0, <2>5, <2>6
<1> HIDE DEF T
<1>8. p \in Nat BY <1>0
<1>9. 1..p \subseteq T
  <2>1. \A i \in 1..p : (\A j \in 1..p : j > i => j \in T) => i \in T BY <1>7
  <2> QED BY <1>8, <2>1, DownInduct, Zenon
<1>10. 2 \in T
  <2>1. p = f[2][0] BY <1>1
  <2>2. p >= 2
    <3>1. FindInner(s, c) \in {0} \cup 2..Len(s) BY FindInnerRange
    <3> QED BY <1>0, <3>1
  <2> QED BY <1>0, <1>9, <2>2
<1> QED BY <1>1, <1>2, <1>10 DEF T

LEMMA FlockStable ==
  ASSUME NEW s \in Seq(Words), NEW t \in Seq(Words), NEW p, Alike(s, t, p), FlockIndex(s) = p
  PROVE  FlockIndex(t) = p
<1>0. Len(s) \in Nat /\ Len(t) \in Nat /\ p \in 1..Len(s) /\ p \in 1..Len(t) BY DEF Alike
<1>1. \A i \in 1..(p - 1) : t[i] = s[i] BY DEF Alike
<1>2. \A i \in 2..(p - 1) : (i \in Files(t) <=> i \in Files(s)) /\ (i \in Stops(t) => i \in Stops(s))
  <2>1. \A i \in 2..(p - 1) : i \in 1..(p - 1) /\ i \in 2..Len(s) /\ i \in 2..Len(t) BY <1>0
  <2>2. \A i \in 2..(p - 1) : i \in Files(t) <=> i \in Files(s) BY <1>1, <2>1 DEF Files
  <2>3. ASSUME NEW i \in 2..(p - 1), i \in Stops(t) PROVE i \in Stops(s)
    <3>1. CASE t[i] \in CommandFlags BY <1>1, <2>1, <3>1 DEF Stops
    <3>2. CASE i \in Files(t) /\ \E j \in Files(t) : j < i
      <4>1. PICK j \in Files(t) : j < i BY <3>2
      <4>2. j \in 2..(p - 1) BY <1>0, <4>1 DEF Files
      <4>3. j \in Files(s) /\ i \in Files(s) BY <2>2, <3>2, <4>1, <4>2
      <4> QED BY <2>1, <4>1, <4>3 DEF Stops
    <3> QED BY <2>3, <3>1, <3>2 DEF Stops
  <2> QED BY <2>2, <2>3
<1>3. PICK i \in Stops(s) :
        /\ \A j \in Stops(s) : i <= j
        /\ p = IF s[i] \notin CommandFlags THEN i ELSE IF i < Len(s) THEN i + 1 ELSE 0
  BY <1>0, FlockIndexIs
<1>4. i \in 2..Len(s) BY <1>3 DEF Stops
<1>5. \A j \in Stops(t) : j < p => i <= j
  <2> SUFFICES ASSUME NEW j \in Stops(t), j < p PROVE i <= j OBVIOUS
  <2>1. j \in 2..(p - 1) BY <1>0 DEF Stops
  <2> QED BY <1>2, <1>3, <2>1
<1>6. i \in Stops(t) /\ FlockIndex(t) = p
  <2>1. CASE s[i] \in CommandFlags
    <3>1. p = i + 1 BY <1>0, <1>3, <2>1
    <3>2. i \in 1..(p - 1) /\ i \in 2..Len(t) /\ i < Len(t) BY <1>0, <1>4, <3>1
    <3>3. t[i] \in CommandFlags BY <1>1, <2>1, <3>2
    <3>4. i \in Stops(t) BY <3>2, <3>3 DEF Stops
    <3>5. PICK d \in Stops(t) :
            /\ \A j \in Stops(t) : d <= j
            /\ FlockIndex(t) = IF t[d] \notin CommandFlags THEN d ELSE IF d < Len(t) THEN d + 1 ELSE 0
      BY <3>4, FlockIndexIs
    <3>6. d <= i /\ d \in Nat BY <3>4, <3>5 DEF Stops
    <3>7. d = i BY <1>4, <1>5, <3>1, <3>5, <3>6
    <3> QED BY <3>1, <3>2, <3>3, <3>4, <3>5, <3>7
  <2>2. CASE s[i] \notin CommandFlags
    <3>1. p = i /\ i \in 2..Len(t) BY <1>0, <1>3, <1>4, <2>2
    <3>2. i \in Files(s) /\ \E j \in Files(s) : j < i BY <2>2 DEF Stops
    <3>3. PICK j \in Files(s) : j < i BY <3>2
    <3>4. j \in Files(t)
      <4>1. j \in 2..(p - 1) BY <1>0, <3>1, <3>3 DEF Files
      <4> QED BY <1>2, <4>1
    <3>5. t[i] = s[i] \/ t[i] \notin Flags BY <3>1 DEF Alike
    <3>6. i \in Files(t) BY <3>1, <3>2, <3>5 DEF Files
    <3>7. t[i] \notin CommandFlags BY <2>2, <3>5, NormalizeAssumption
    <3>8. i \in Stops(t) BY <3>1, <3>3, <3>4, <3>6 DEF Stops
    <3>9. PICK d \in Stops(t) :
            /\ \A l \in Stops(t) : d <= l
            /\ FlockIndex(t) = IF t[d] \notin CommandFlags THEN d ELSE IF d < Len(t) THEN d + 1 ELSE 0
      BY <3>8, FlockIndexIs
    <3>10. d <= i /\ d \in Nat BY <3>8, <3>9 DEF Stops
    <3>11. d = i BY <1>4, <1>5, <3>1, <3>9, <3>10
    <3> QED BY <3>1, <3>7, <3>8, <3>9, <3>11
  <2> QED BY <2>1, <2>2
<1> QED BY <1>6

LEMMA WrapperStable ==
  ASSUME NEW s \in Seq(Words), NEW t \in Seq(Words), NEW p, Alike(s, t, p), WrapperIndex(s) = p
  PROVE  WrapperIndex(t) = p
<1>1. p \in 2..Len(s)
  <2>1. p \in {0} \cup 2..Len(s) BY WrapperIndexRange
  <2>2. p \in 1..Len(s) BY DEF Alike
  <2> QED BY <2>1, <2>2
<1>2. 1 \in 1..(p - 1) BY <1>1
<1>3. t[1] = s[1] BY <1>2 DEF Alike
<1>4. CASE s[1] = Flock BY <1>3, <1>4, FlockStable DEF WrapperIndex
<1>5. CASE s[1] # Flock
  <2>1. s[1] \in DOMAIN Wrappers BY <1>1, <1>5 DEF WrapperIndex
  <2> DEFINE c == Wrappers[s[1]]
  <2>2. FindInner(s, c) = p BY <1>5, <2>1 DEF WrapperIndex
  <2> HIDE DEF c
  <2>3. FindInner(t, c) = p BY <2>2, FindInnerStable
  <2> QED BY <1>3, <1>5, <2>1, <2>3 DEF WrapperIndex, c
<1> QED BY <1>4, <1>5

LEMMA JumpsStable ==
  ASSUME NEW s \in Seq(Words), NEW t \in Seq(Words), NEW p, Alike(s, t, p),
         NEW f, Jumps(f, s), NEW g, Jumps(g, t), f[1] = p, s[p] \notin DOMAIN Wrappers \cup {Flock}
  PROVE  g[1] = p
<1>0. Len(s) \in Nat /\ Len(t) \in Nat /\ p \in 1..Len(s) /\ p \in 1..Len(t) BY DEF Alike
<1> DEFINE T == {i \in 1..p : f[i] = p => g[i] = p}
<1>1. ASSUME NEW i \in 1..p, \A j \in 1..p : j > i => j \in T PROVE i \in T
  <2> SUFFICES ASSUME f[i] = p PROVE g[i] = p OBVIOUS
  <2>1. CASE i = p
    <3>1. t[p] \notin DOMAIN Wrappers \cup {Flock} BY DEF Alike
    <3>2. Inner(t, p) = 0 BY <1>0, <3>1, InnerNone
    <3> QED BY <1>0, <2>1, <3>2 DEF Jumps
  <2>2. CASE i # p
    <3>0. i \in 1..Len(s) /\ i \in 1..Len(t) /\ i < Len(s) /\ i < Len(t) BY <1>0, <2>2
    <3>1. Inner(s, i) # 0 /\ f[i] = f[i + Inner(s, i) - 1] BY <2>2, <3>0 DEF Jumps
    <3> DEFINE r == Inner(s, i)  j == i + r - 1
    <3>2. r \in Nat /\ r >= 2 /\ j \in (i + 1)..Len(s) BY <3>0, <3>1, InnerRange
    <3>3. r = WrapperIndex(From(s, i)) BY <3>0 DEF Inner
    <3> HIDE DEF r
    <3>4. f[j] = p BY <3>1 DEF r
    <3>5. j \in 1..Len(s) BY <1>0, <3>2
    <3>6. f[j] \in j..Len(s) BY <3>5, JumpsRange
    <3>7. j <= p /\ j \in 1..p /\ j > i BY <1>0, <3>2, <3>4, <3>5, <3>6
    <3>8. g[j] = p BY <1>1, <3>4, <3>7
    <3> DEFINE a == From(s, i)  b == From(t, i)
    <3>9. a \in Seq(Words) /\ b \in Seq(Words)
      <4>1. i \in 1..(Len(s) + 1) /\ i \in 1..(Len(t) + 1) BY <1>0, <3>0
      <4> QED BY <4>1, FromIs
    <3>10. Alike(a, b, p - i + 1) BY AlikeShift
    <3> HIDE DEF a, b
    <3>11. Alike(a, b, r)
      <4>1. CASE j = p
        <5>1. r = p - i + 1 BY <1>0, <3>2, <4>1
        <5> QED BY <3>10, <5>1
      <4>2. CASE j # p
        <5>1. r \in 1..((p - i + 1) - 1) BY <1>0, <3>2, <3>7, <4>2
        <5> QED BY <3>9, <3>10, <5>1, AlikeLess
      <4> QED BY <4>1, <4>2
    <3>12. WrapperIndex(b) = r BY <3>3, <3>9, <3>11, WrapperStable DEF a
    <3>13. Inner(t, i) = r BY <3>0, <3>12 DEF Inner, b
    <3>14. g[i] = g[j] BY <3>0, <3>2, <3>13 DEF Jumps
    <3> QED BY <3>8, <3>14
  <2> QED BY <2>1, <2>2
<1> HIDE DEF T
<1>2. p \in Nat /\ 1 \in 1..p BY <1>0
<1>3. 1..p \subseteq T
  <2>1. \A i \in 1..p : (\A j \in 1..p : j > i => j \in T) => i \in T BY <1>1
  <2> QED BY <1>2, <2>1, DownInduct, Zenon
<1>4. 1 \in T BY <1>2, <1>3
<1> QED BY <1>4 DEF T

LEMMA StripUnique ==
  ASSUME NEW s \in Seq(Words), NEW k \in 1..Len(s), s[k] \notin Assignments \ Flags \/ k = Len(s),
         \A i \in 1..(k - 1) : s[i] \in Assignments \ Flags
  PROVE  StripAssignments(s) = From(s, k)
<1>0. s # <<>> /\ Len(s) \in Nat OBVIOUS
<1>1. PICK l \in 1..Len(s) : /\ StripAssignments(s) = From(s, l)
                             /\ s[l] \notin Assignments \ Flags \/ l = Len(s)
                             /\ \A i \in 1..(l - 1) : s[i] \in Assignments \ Flags
  BY <1>0, StripIs
<1>2. ~(l < k)
  <2> SUFFICES ASSUME l < k PROVE FALSE OBVIOUS
  <2>1. l \in 1..(k - 1) /\ l # Len(s) BY <1>0
  <2> QED BY <1>1, <2>1
<1>3. ~(k < l)
  <2> SUFFICES ASSUME k < l PROVE FALSE OBVIOUS
  <2>1. k \in 1..(l - 1) /\ k # Len(s) BY <1>0
  <2> QED BY <1>1, <2>1
<1>4. k = l BY <1>0, <1>2, <1>3
<1> QED BY <1>1, <1>4

LEMMA UnwrapStable ==
  ASSUME NEW s \in Seq(Words), NEW t \in Seq(Words), NEW p, Alike(s, t, p),
         Unwrap(s) = From(s, p), s[p] \notin DOMAIN Wrappers \cup {Flock}
  PROVE  Unwrap(t) = From(t, p)
<1>0. Len(s) \in Nat /\ Len(t) \in Nat /\ p \in 1..Len(s) /\ p \in 1..Len(t) /\ s # <<>> BY DEF Alike
<1>1. PICK k \in 1..Len(s) : /\ StripAssignments(s) = From(s, k)
                             /\ s[k] \notin Assignments \ Flags \/ k = Len(s)
                             /\ \A i \in 1..(k - 1) : s[i] \in Assignments \ Flags
  BY <1>0, StripIs
<1> DEFINE a == From(s, k)  b == From(t, k)  q == p - k + 1
<1>2. /\ a \in Seq(Words) /\ Len(a) = Len(s) - k + 1
      /\ \A j \in 1..(Len(s) - k + 1) : a[j] = s[k + j - 1]
  <2>1. k \in 1..(Len(s) + 1) BY <1>0
  <2> QED BY <2>1, FromIs
<1> HIDE DEF a, b
<1>3. a # <<>> BY <1>0, <1>2
<1>4. PICK f : Jumps(f, a) /\ Unwrap(s) = From(a, f[1]) BY <1>1, <1>2, <1>3, UnwrapIs DEF a
<1>5. 1 \in 1..Len(a) BY <1>0, <1>2
<1>6. f[1] \in 1..Len(a) BY <1>2, <1>4, <1>5, JumpsRange
<1>7. k <= p /\ f[1] = q
  <2>1. From(a, f[1]) = From(s, k + f[1] - 1) BY <1>2, <1>6, FromFrom DEF a
  <2>2. k + f[1] - 1 \in 1..(Len(s) + 1) /\ p \in 1..(Len(s) + 1) BY <1>0, <1>2, <1>6
  <2>3. Len(From(s, k + f[1] - 1)) = Len(s) - (k + f[1] - 1) + 1 BY <2>2, FromIs
  <2>4. Len(From(s, p)) = Len(s) - p + 1 BY <2>2, FromIs
  <2>5. Len(s) - (k + f[1] - 1) + 1 = Len(s) - p + 1 BY <1>4, <2>1, <2>3, <2>4
  <2> DEFINE x == f[1]  n == Len(s)
  <2>6. x \in Nat /\ x >= 1 /\ k \in Nat /\ p \in Nat /\ n \in Nat BY <1>0, <1>2, <1>6
  <2>7. n - (k + x - 1) + 1 = n - p + 1 BY <2>5
  <2> HIDE DEF x, n
  <2>8. k <= p /\ x = p - k + 1 BY <2>6, <2>7
  <2> QED BY <2>8 DEF x
<1>8. k \in 1..p /\ k \in 1..Len(t) BY <1>0, <1>7
<1>9. StripAssignments(t) = b
  <2>1. \A i \in 1..(k - 1) : t[i] \in Assignments \ Flags
    <3>1. \A i \in 1..(k - 1) : i \in 1..(p - 1) BY <1>0, <1>7
    <3> QED BY <1>1, <3>1 DEF Alike
  <2>2. t[k] \notin Assignments \ Flags \/ k = Len(t)
    <3>1. CASE k < p
      <4>1. k \in 1..(p - 1) /\ k # Len(s) BY <1>0, <3>1
      <4> QED BY <1>1, <4>1 DEF Alike
    <3>2. CASE k = p BY <1>1, <3>2 DEF Alike
    <3> QED BY <1>0, <1>7, <3>1, <3>2
  <2> QED BY <1>8, <2>1, <2>2, StripUnique DEF b
<1>10. Alike(a, b, q) BY <1>8, AlikeShift DEF a, b
<1>11. b \in Seq(Words) /\ b # <<>>
  <2>1. k \in 1..(Len(t) + 1) BY <1>0, <1>8
  <2>2. b \in Seq(Words) /\ Len(b) = Len(t) - k + 1 BY <2>1, FromIs DEF b
  <2> QED BY <1>0, <1>8, <2>2
<1>12. PICK g : Jumps(g, b) /\ Unwrap(t) = From(b, g[1])
  <2>1. StripAssignments(t) \in Seq(Words) /\ StripAssignments(t) # <<>> BY <1>9, <1>11
  <2> QED BY <1>9, <2>1, UnwrapIs
<1>13. a[q] = s[p]
  <2>1. q \in 1..(Len(s) - k + 1) /\ k + q - 1 = p BY <1>0, <1>8
  <2> HIDE DEF q
  <2> QED BY <1>2, <2>1
<1>14. g[1] = q
  <2> HIDE DEF q
  <2> QED BY <1>2, <1>4, <1>7, <1>10, <1>11, <1>12, <1>13, JumpsStable
<1>15. From(b, q) = From(t, p)
  <2>1. q \in 1..(Len(t) - k + 1) /\ k + q - 1 = p BY <1>0, <1>8
  <2> HIDE DEF q
  <2>2. From(b, q) = From(t, k + q - 1) BY <1>8, <2>1, FromFrom DEF b
  <2> QED BY <2>1, <2>2
<1> QED BY <1>12, <1>14, <1>15

-----------------------------------------------------------------------------
(* What can be exchanged, and what can be left out. *)
LEMMA ExchangeIs ==
  ASSUME NEW s \in Seq(Words), NEW i \in 1..Len(s), NEW w \in Words
  PROVE  /\ [s EXCEPT ![i] = w] \in Seq(Words) /\ Len([s EXCEPT ![i] = w]) = Len(s)
         /\ [s EXCEPT ![i] = w][i] = w
         /\ \A k \in 1..Len(s) : k # i => [s EXCEPT ![i] = w][k] = s[k]
BY ExceptSeq

LEMMA TemplateExchange ==
  ASSUME NEW u \in Seq(Words), NEW v \in Seq(Words), NEW j \in 1..Len(u), Len(v) = Len(u),
         \A k \in 1..Len(u) : k # j => v[k] = u[k],
         v[j] \notin Flags, u[j] \notin Flags, Shape[v[j]] = Shape[u[j]], ~Plain(u, j)
  PROVE  Template(v) = Template(u)
<1>0. Len(u) \in Nat /\ j # 1 /\ 1 \in 1..Len(u) /\ u # <<>> BY DEF Plain
<1>1. v[1] = u[1] BY <1>0
<1>2. \A k \in 1..Len(u) : (v[k] \in Flags <=> u[k] \in Flags) /\ (v[k] = DoubleDash <=> u[k] = DoubleDash)
  <2>1. v[j] # DoubleDash /\ u[j] # DoubleDash
    <3>1. v[j] \in Words /\ u[j] \in Words OBVIOUS
    <3> QED BY <3>1, DoubleDashIsFlag
  <2> QED BY <2>1
<1>3. \A k \in 1..Len(u) : Plain(v, k) <=> Plain(u, k) BY <1>1, <1>2 DEF Plain
<1>4. ASSUME NEW k \in 1..Len(u) PROVE Class(v, k) = Class(u, k)
  <2>1. CASE k = j BY <1>2, <1>3, <2>1 DEF Class
  <2>2. CASE k # j
    <3>1. v[k] = u[k] BY <2>2
    <3> QED BY <1>3, <3>1 DEF Class
  <2> QED BY <2>1, <2>2
<1>5. Dashes(v) = Dashes(u)
  <2>1. {i \in 2..Len(v) : v[i] = DoubleDash} = {i \in 2..Len(u) : u[i] = DoubleDash}
    <3>1. \A i \in 2..Len(u) : i \in 1..Len(u) BY <1>0
    <3> QED BY <1>2, <3>1
  <2> QED BY <2>1 DEF Dashes
<1>6. Shows(v) = Shows(u) /\ Rest(v) = Rest(u) BY <1>5 DEF Shows, Rest
<1>7. Shows(u) \in 1..Len(u) BY <1>0, ShowsRange
<1>8. ASSUME NEW k \in 1..Shows(u) PROVE Piece(v, k) = Piece(u, k)
  <2>1. k \in 1..Len(u) /\ (k > 1 => k - 1 \in 1..Len(u)) BY <1>0, <1>7
  <2> QED BY <1>3, <1>4, <2>1 DEF Piece
<1>9. Pieces(v) = Pieces(u) BY <1>6, <1>8 DEF Pieces
<1> QED BY <1>6, <1>9, TemplateIs

LEMMA FlattenDrop ==
  ASSUME NEW S, NEW s \in Seq(Seq(S)), NEW t \in Seq(Seq(S)), NEW m \in 1..Len(s), s[m] = <<>>,
         Len(t) = Len(s) - 1, \A i \in 1..(m - 1) : t[i] = s[i], \A i \in m..(Len(s) - 1) : t[i] = s[i + 1]
  PROVE  FlattenSeq(t) = FlattenSeq(s)
<1> DEFINE n == Len(s)  a == SubSeq(s, 1, m - 1)  b == From(s, m + 1)
           c == SubSeq(t, 1, m - 1)  d == From(t, m)
<1>0. n \in Nat /\ m - 1 \in 0..Len(s) /\ m - 1 \in 0..Len(t) /\ m + 1 \in 1..(Len(s) + 1) /\ m \in 1..(Len(t) + 1)
  OBVIOUS
<1>1. a \in Seq(Seq(S)) /\ Len(a) = m - 1 /\ \A i \in 1..(m - 1) : a[i] = s[i] BY <1>0, FrontIs
<1>2. c \in Seq(Seq(S)) /\ Len(c) = m - 1 /\ \A i \in 1..(m - 1) : c[i] = t[i] BY <1>0, FrontIs
<1>3. /\ b \in Seq(Seq(S)) /\ Len(b) = n - (m + 1) + 1
      /\ \A i \in 1..(n - (m + 1) + 1) : b[i] = s[(m + 1) + i - 1]
  BY <1>0, FromIs
<1>4. /\ d \in Seq(Seq(S)) /\ Len(d) = Len(t) - m + 1
      /\ \A i \in 1..(Len(t) - m + 1) : d[i] = t[m + i - 1]
  <2>1. m \in 1..(Len(t) + 1) BY <1>0
  <2> DEFINE Q == Seq(S)
  <2>2. t \in Seq(Q) OBVIOUS
  <2> HIDE DEF Q
  <2>3. /\ From(t, m) \in Seq(Q) /\ Len(From(t, m)) = Len(t) - m + 1
        /\ \A i \in 1..(Len(t) - m + 1) : From(t, m)[i] = t[m + i - 1]
    BY <2>1, <2>2, FromIs
  <2> QED BY <2>3 DEF Q
<1> HIDE DEF a, b, c, d
<1>5. a = c
  <2>1. \A i \in 1..(m - 1) : a[i] = c[i] BY <1>1, <1>2
  <2> QED BY <1>1, <1>2, <2>1, SeqEqual
<1>6. b = d
  <2>1. Len(b) = n - m /\ Len(d) = n - m BY <1>0, <1>3, <1>4
  <2>2. ASSUME NEW i \in 1..(n - m) PROVE b[i] = d[i]
    <3>1. /\ i \in 1..(n - (m + 1) + 1) /\ i \in 1..(Len(t) - m + 1) /\ (m + 1) + i - 1 = (m + i - 1) + 1
          /\ m + i - 1 \in m..(Len(s) - 1)
      BY <1>0
    <3> QED BY <1>3, <1>4, <3>1
  <2> QED BY <1>3, <1>4, <2>1, <2>2, SeqEqual
<1>7. FlattenSeq(s) = FlattenSeq(SubSeq(s, 1, m)) \o FlattenSeq(b)
  <2>1. m \in 0..Len(s) BY <1>0
  <2> QED BY <2>1, FlattenSplit DEF b, From
<1>8. FlattenSeq(t) = FlattenSeq(c) \o FlattenSeq(d)
  <2>1. FlattenSeq(t) = FlattenSeq(SubSeq(t, 1, m - 1)) \o FlattenSeq(SubSeq(t, (m - 1) + 1, Len(t)))
    BY <1>0, FlattenSplit
  <2>2. (m - 1) + 1 = m BY <1>0
  <2> QED BY <2>1, <2>2 DEF c, d, From
<1>9. FlattenSeq(SubSeq(s, 1, m)) = FlattenSeq(a)
  <2>1. 1 \in 1..Len(s) BY <1>0
  <2>2. SubSeq(s, 1, m) = a \o <<s[m]>> BY <2>1, SubSeqRecursiveSecond DEF a
  <2>3. s[m] \in Seq(S) OBVIOUS
  <2>4. a \o <<s[m]>> = Append(a, s[m]) BY <1>1, <2>3
  <2>5. FlattenSeq(Append(a, s[m])) = FlattenSeq(a) \o s[m] BY <1>1, <2>3, FlattenAppend
  <2>6. FlattenSeq(a) \o <<>> = FlattenSeq(a) BY <1>1, FlattenType, ConcatEmptySeq
  <2> QED BY <2>2, <2>4, <2>5, <2>6
<1> QED BY <1>5, <1>6, <1>7, <1>8, <1>9

LEMMA RemoveIs ==
  ASSUME NEW s \in Seq(Words), NEW i \in 1..(Len(s) - 1)
  PROVE  LET t == SubSeq(s, 1, i) \o From(s, i + 2) IN
         /\ t \in Seq(Words) /\ Len(t) = Len(s) - 1
         /\ \A k \in 1..i : t[k] = s[k]
         /\ \A k \in (i + 1)..(Len(s) - 1) : t[k] = s[k + 1]
<1> DEFINE a == SubSeq(s, 1, i)  b == From(s, i + 2)  t == a \o b  n == Len(s)
<1>0. n \in Nat /\ i \in 0..Len(s) /\ i + 2 \in 1..(Len(s) + 1) OBVIOUS
<1>1. a \in Seq(Words) /\ Len(a) = i /\ \A k \in 1..i : a[k] = s[k] BY <1>0, FrontIs
<1>2. /\ b \in Seq(Words) /\ Len(b) = n - (i + 2) + 1
      /\ \A k \in 1..(n - (i + 2) + 1) : b[k] = s[(i + 2) + k - 1]
  BY <1>0, FromIs
<1> HIDE DEF a, b, n
<1>3. /\ t \in Seq(Words) /\ Len(t) = Len(a) + Len(b)
      /\ \A k \in 1..(Len(a) + Len(b)) : t[k] = IF k <= Len(a) THEN a[k] ELSE b[k - Len(a)]
  BY <1>1, <1>2, ConcatProperties
<1> HIDE DEF t
<1>4. Len(a) + Len(b) = n - 1 /\ Len(a) = i BY <1>0, <1>1, <1>2
<1>5. ASSUME NEW k \in 1..i PROVE t[k] = s[k]
  <2>1. k \in 1..(n - 1) /\ k <= i BY <1>0 DEF n
  <2> QED BY <1>1, <1>3, <1>4, <2>1
<1>6. ASSUME NEW k \in (i + 1)..(n - 1) PROVE t[k] = s[k + 1]
  <2>1. k \in 1..(n - 1) /\ ~(k <= i) /\ k - i \in 1..(n - (i + 2) + 1) /\ (i + 2) + (k - i) - 1 = k + 1
    BY <1>0
  <2>2. t[k] = b[k - i] BY <1>3, <1>4, <2>1
  <2>3. b[k - i] = s[(i + 2) + (k - i) - 1] BY <1>2, <2>1
  <2> QED BY <2>1, <2>2, <2>3
<1> QED BY <1>3, <1>4, <1>5, <1>6 DEF t, a, b, n

LEMMA DashesUnique ==
  ASSUME NEW s \in Seq(Words), NEW d \in 2..Len(s), s[d] = DoubleDash, \A i \in 2..(d - 1) : s[i] # DoubleDash
  PROVE  Dashes(s) = d
<1>1. \/ Dashes(s) = 0 /\ \A i \in 2..Len(s) : s[i] # DoubleDash
      \/ /\ Dashes(s) \in 2..Len(s) /\ s[Dashes(s)] = DoubleDash
         /\ \A i \in 2..(Dashes(s) - 1) : s[i] # DoubleDash
  BY DashesIs
<1>2. Dashes(s) \in 2..Len(s) /\ s[Dashes(s)] = DoubleDash /\ \A i \in 2..(Dashes(s) - 1) : s[i] # DoubleDash
  BY <1>1
<1>3. ~(d < Dashes(s))
  <2>1. d < Dashes(s) => d \in 2..(Dashes(s) - 1) BY <1>2
  <2> QED BY <1>2, <2>1
<1>4. ~(Dashes(s) < d)
  <2>1. Dashes(s) < d => Dashes(s) \in 2..(d - 1) BY <1>2
  <2> QED BY <1>2, <2>1
<1> QED BY <1>2, <1>3, <1>4

LEMMA DashesNone ==
  ASSUME NEW s \in Seq(Words), \A i \in 2..Len(s) : s[i] # DoubleDash PROVE Dashes(s) = 0
BY DashesIs

LEMMA TemplateDouble ==
  ASSUME NEW u \in Seq(Words), NEW v \in Seq(Words), NEW j \in 1..(Len(u) - 1), Len(v) = Len(u) - 1,
         u[j] = u[j + 1], u[j] \notin Flags, ~Plain(u, j),
         \A k \in 1..j : v[k] = u[k], \A k \in (j + 1)..(Len(u) - 1) : v[k] = u[k + 1]
  PROVE  Template(v) = Template(u)
<1> DEFINE n == Len(u)
<1>0. n \in Nat /\ j \in Nat /\ j >= 2 /\ j + 1 <= n /\ u # <<>> /\ v # <<>> BY DEF Plain
<1>1. v[1] = u[1] BY <1>0
<1>2. u[j] # DoubleDash /\ u[j + 1] # DoubleDash
  <2>1. u[j] \in Words BY <1>0
  <2> QED BY <2>1, DoubleDashIsFlag
<1>3. ~Plain(u, j + 1) /\ \A k \in Nat : k > j => ~Plain(v, k) /\ ~Plain(u, k + 1) BY <1>0 DEF Plain
<1>4. ASSUME NEW k \in 1..j PROVE (Plain(v, k) <=> Plain(u, k)) /\ Class(v, k) = Class(u, k)
  <2>1. Plain(v, k) <=> Plain(u, k) BY <1>1 DEF Plain
  <2> QED BY <2>1 DEF Class
<1>5. ASSUME NEW k \in (j + 1)..(n - 1) PROVE Class(v, k) = Class(u, k + 1)
  <2>1. v[k] = u[k + 1] /\ k \in Nat /\ k > j BY <1>0
  <2> QED BY <1>3, <2>1 DEF Class
<1>6. Class(u, j + 1) = Class(u, j) BY <1>3 DEF Class
<1>7. Piece(u, j + 1) = <<>>
  <2>1. j + 1 > 1 /\ (j + 1) - 1 = j BY <1>0
  <2> QED BY <1>3, <1>6, <2>1 DEF Piece
<1>8. ASSUME NEW k \in 1..j PROVE Piece(v, k) = Piece(u, k)
  <2>1. k > 1 => k - 1 \in 1..j BY <1>0
  <2> QED BY <1>4, <2>1 DEF Piece
<1>9. ASSUME NEW k \in (j + 1)..(n - 1) PROVE Piece(v, k) = Piece(u, k + 1)
  <2>1. k > 1 /\ k + 1 > 1 /\ (k + 1) - 1 = k /\ k \in Nat /\ k > j BY <1>0
  <2>2. ~Plain(v, k) /\ ~Plain(u, k + 1) /\ Class(v, k) = Class(u, k + 1) BY <1>3, <1>5, <2>1
  <2>3. Class(v, k - 1) = Class(u, k)
    <3>1. CASE k = j + 1
      <4>1. k - 1 = j /\ j \in 1..j BY <1>0, <3>1
      <4> QED BY <1>4, <1>6, <3>1, <4>1
    <3>2. CASE k # j + 1
      <4>1. k - 1 \in (j + 1)..(n - 1) /\ (k - 1) + 1 = k BY <1>0, <3>2
      <4>2. Class(v, k - 1) = Class(u, (k - 1) + 1) BY <1>5, <4>1
      <4> QED BY <4>1, <4>2
    <3> QED BY <3>1, <3>2
  <2> HIDE DEF n
  <2> QED BY <2>1, <2>2, <2>3 DEF Piece
<1>10. \/ Dashes(u) = 0 /\ \A i \in 2..n : u[i] # DoubleDash
       \/ /\ Dashes(u) \in 2..n /\ u[Dashes(u)] = DoubleDash
          /\ \A i \in 2..(Dashes(u) - 1) : u[i] # DoubleDash
  BY DashesIs
<1>11. CASE Dashes(u) # 0 /\ Dashes(u) < j
  <2>1. Dashes(v) = Dashes(u)
    <3>1. Dashes(u) \in 2..Len(v) /\ v[Dashes(u)] = DoubleDash BY <1>0, <1>10, <1>11
    <3>2. \A i \in 2..(Dashes(u) - 1) : v[i] # DoubleDash BY <1>0, <1>10, <1>11
    <3> QED BY <3>1, <3>2, DashesUnique
  <2>2. Shows(v) = Shows(u) /\ Rest(v) = Rest(u) BY <2>1, <1>11 DEF Shows, Rest
  <2>3. \A k \in 1..Shows(u) : Piece(v, k) = Piece(u, k) BY <1>0, <1>8, <1>10, <1>11 DEF Shows
  <2>4. Pieces(v) = Pieces(u) BY <2>2, <2>3 DEF Pieces
  <2> QED BY <2>2, <2>4, TemplateIs
<1>12. CASE Dashes(u) = 0 \/ Dashes(u) >= j
  <2>1. Rest(v) = Rest(u) /\ Shows(v) = Shows(u) - 1 /\ Shows(u) \in (j + 1)..n
    <3>1. CASE Dashes(u) = 0
      <4>1. ASSUME NEW i \in 2..Len(v) PROVE v[i] # DoubleDash
        <5>1. CASE i \in 2..j BY <1>0, <1>10, <3>1, <5>1
        <5>2. CASE i \notin 2..j
          <6>1. i \in (j + 1)..(n - 1) /\ i + 1 \in 2..n BY <1>0, <5>2
          <6>2. v[i] = u[i + 1] BY <6>1
          <6> QED BY <1>10, <3>1, <6>1, <6>2
        <5> QED BY <5>1, <5>2
      <4>2. Dashes(v) = 0 BY <4>1, DashesNone
      <4> QED BY <1>0, <3>1, <4>2 DEF Shows, Rest
    <3>2. CASE Dashes(u) # 0
      <4> DEFINE d == Dashes(u)
      <4>1. d \in 2..n /\ u[d] = DoubleDash /\ (\A i \in 2..(d - 1) : u[i] # DoubleDash) /\ d >= j
        BY <1>10, <1>12, <3>2
      <4> HIDE DEF d
      <4>2. d # j /\ d # j + 1 BY <1>2, <4>1
      <4>3. d - 1 \in (j + 1)..(n - 1) /\ (d - 1) + 1 = d /\ d - 1 \in 2..Len(v) BY <1>0, <4>1, <4>2
      <4>4. v[d - 1] = DoubleDash
        <5>1. v[d - 1] = u[(d - 1) + 1] BY <4>3
        <5> QED BY <4>1, <4>3, <5>1
      <4>5. ASSUME NEW i \in 2..((d - 1) - 1) PROVE v[i] # DoubleDash
        <5>1. CASE i \in 2..j
          <6>1. i \in 1..j /\ i \in 2..(d - 1) BY <1>0, <4>1, <5>1
          <6> QED BY <4>1, <6>1
        <5>2. CASE i \notin 2..j
          <6>1. i \in (j + 1)..(n - 1) /\ i + 1 \in 2..(d - 1) BY <1>0, <4>1, <5>2
          <6>2. v[i] = u[i + 1] BY <6>1
          <6> QED BY <4>1, <6>1, <6>2
        <5> QED BY <5>1, <5>2
      <4>6. Dashes(v) = d - 1 BY <4>3, <4>4, <4>5, DashesUnique
      <4>7. d - 1 # 0 /\ d # 0 /\ (d - 1) - 1 = (d - 1) - 1 /\ d - 1 \in (j + 1)..n BY <1>0, <4>3, <4>1
      <4> QED BY <4>6, <4>7 DEF Shows, Rest, d
    <3> QED BY <3>1, <3>2
  <2> DEFINE P == Pieces(u)  Q == Pieces(v)  m == j + 1
  <2>2. P \in Seq(Seq(Names)) /\ Len(P) = Shows(u) /\ \A k \in 1..Shows(u) : P[k] = Piece(u, k)
    BY <1>0, PiecesType
  <2>3. Q \in Seq(Seq(Names)) /\ Len(Q) = Shows(v) /\ \A k \in 1..Shows(v) : Q[k] = Piece(v, k)
    BY <1>0, PiecesType
  <2> HIDE DEF P, Q
  <2>4. m \in 1..Len(P) /\ P[m] = <<>> /\ Len(Q) = Len(P) - 1
    <3>1. m \in 1..Shows(u) BY <1>0, <2>1
    <3> QED BY <1>7, <2>1, <2>2, <2>3, <3>1
  <2>5. ASSUME NEW k \in 1..(m - 1) PROVE Q[k] = P[k]
    <3>1. k \in 1..j /\ k \in 1..Shows(u) /\ k \in 1..Shows(v) BY <1>0, <2>1
    <3> QED BY <1>8, <2>2, <2>3, <3>1
  <2>6. ASSUME NEW k \in m..(Len(P) - 1) PROVE Q[k] = P[k + 1]
    <3>1. k \in (j + 1)..(n - 1) /\ k + 1 \in 1..Shows(u) /\ k \in 1..Shows(v) BY <1>0, <2>1, <2>2
    <3> QED BY <1>9, <2>2, <2>3, <3>1
  <2> HIDE DEF m
  <2>7. FlattenSeq(Q) = FlattenSeq(P) BY <2>2, <2>3, <2>4, <2>5, <2>6, FlattenDrop
  <2> QED BY <2>1, <2>7, TemplateIs DEF P, Q
<1>13. j \in Nat /\ (Dashes(u) \in Nat) BY <1>0, <1>10
<1> QED BY <1>11, <1>12, <1>13

LEMMA ExchangeKeeps ==
  ASSUME NEW s \in Seq(Words), s # <<>>, ~Compound(s), NEW p \in 1..Len(s), Unwrap(s) = From(s, p),
         s[p] \notin DOMAIN Wrappers \cup {Flock},
         NEW i \in p..Len(s), NEW w \in Ordinary, w # s[i], s[i] \notin Flags, Shape[w] = Shape[s[i]]
  PROVE  NormalizeLine([s EXCEPT ![i] = w]) = NormalizeLine(s) <=> ~Plain(From(s, p), i - p + 1)
<1> DEFINE n == Len(s)  t == [s EXCEPT ![i] = w]  u == From(s, p)  v == From(t, p)  j == i - p + 1
<1>0. n \in Nat /\ p \in Nat /\ i \in 1..n /\ i \in Nat /\ p \in 1..(n + 1) /\ j \in 1..(n - p + 1) BY DEF n
<1>1. w \in Words /\ w \notin Operators \cup Flags \cup Assignments \cup DOMAIN Wrappers \cup {Flock}
  BY DEF Ordinary
<1>2. t \in Seq(Words) /\ Len(t) = n /\ t[i] = w /\ \A k \in 1..n : k # i => t[k] = s[k]
  BY <1>0, <1>1, ExchangeIs
<1> HIDE DEF t, n
<1>3. t # <<>> BY <1>0, <1>2
<1>4. ~Compound(t)
  <2>1. ASSUME NEW k \in 1..n PROVE t[k] \notin Operators
    <3>1. s[k] \notin Operators BY DEF Compound, n
    <3> QED BY <1>1, <1>2, <3>1
  <2>2. DOMAIN t = 1..n BY <1>2
  <2> QED BY <2>1, <2>2 DEF Compound
<1>5. Alike(s, t, p)
  <2>1. \A k \in 1..(p - 1) : t[k] = s[k] BY <1>0, <1>2
  <2>2. t[p] = s[p] \/ t[p] = w
    <3>1. p \in 1..n BY <1>0 DEF n
    <3> QED BY <1>2, <3>1
  <2> QED BY <1>0, <1>1, <1>2, <2>1, <2>2 DEF Alike, n
<1>6. Unwrap(t) = v BY <1>2, <1>5, UnwrapStable
<1>7. NormalizeLine(s) = Template(u) BY LineSimple DEF NormalizeOne
<1>8. NormalizeLine(t) = Template(v) BY <1>2, <1>3, <1>4, <1>6, LineSimple DEF NormalizeOne
<1>9. u \in Seq(Words) /\ Len(u) = n - p + 1 /\ \A k \in 1..(n - p + 1) : u[k] = s[p + k - 1]
  <2>1. p \in 1..(Len(s) + 1) BY <1>0 DEF n
  <2> QED BY <2>1, FromIs, Zenon DEF n
<1>10. v \in Seq(Words) /\ Len(v) = n - p + 1 /\ \A k \in 1..(n - p + 1) : v[k] = t[p + k - 1]
  <2>1. p \in 1..(Len(t) + 1) BY <1>0, <1>2
  <2>2. v \in Seq(Words) /\ Len(v) = Len(t) - p + 1 /\ \A k \in 1..(Len(t) - p + 1) : v[k] = t[p + k - 1]
    <3>1. t \in Seq(Words) BY <1>2
    <3> HIDE DEF t
    <3> QED BY <2>1, <3>1, FromIs
  <2> HIDE DEF v
  <2> QED BY <1>2, <2>2
<1> HIDE DEF u, v
<1>11. u[j] = s[i] /\ v[j] = w
  <2>1. p + j - 1 = i BY <1>0
  <2> HIDE DEF j
  <2> QED BY <1>0, <1>2, <1>9, <1>10, <2>1
<1>12. ASSUME NEW k \in 1..(n - p + 1), k # j PROVE v[k] = u[k]
  <2>1. p + k - 1 \in 1..n /\ p + k - 1 # i BY <1>0, <1>12
  <2> QED BY <1>2, <1>9, <1>10, <2>1
<1>13. u # <<>> /\ v # <<>> BY <1>0, <1>9, <1>10
<1>14. ~Plain(u, j) => Template(v) = Template(u)
  <2> HIDE DEF j
  <2> SUFFICES ASSUME ~Plain(u, j) PROVE Template(v) = Template(u) OBVIOUS
  <2>1. /\ j \in 1..Len(u) /\ Len(v) = Len(u) /\ v[j] \notin Flags /\ u[j] \notin Flags
        /\ Shape[v[j]] = Shape[u[j]] /\ \A k \in 1..Len(u) : k # j => v[k] = u[k]
    BY <1>0, <1>1, <1>9, <1>10, <1>11, <1>12
  <2> QED BY <1>9, <1>10, <2>1, TemplateExchange
<1>15. Plain(u, j) => Template(v) # Template(u)
  <2>1. CASE j = 1
    <3>1. Template(u)[1] = u[1] /\ Template(v)[1] = v[1] BY <1>9, <1>10, <1>13, TemplateFirst
    <3> HIDE DEF j
    <3> QED BY <1>11, <2>1, <3>1
  <2>2. CASE j = 2 /\ u[1] \in Parents
    <3>1. 1 \in 1..(n - p + 1) /\ 1 # j /\ n - p + 1 > 1 BY <1>0, <2>2
    <3> HIDE DEF j
    <3>2. v[1] = u[1] BY <1>12, <3>1
    <3>3. u[2] \notin Flags /\ v[2] \notin Flags BY <1>1, <1>11, <2>2
    <3>4. Template(u)[2] = u[2] BY <1>9, <2>2, <3>1, <3>3, TemplateSecond
    <3>5. Template(v)[2] = v[2] BY <1>10, <2>2, <3>1, <3>2, <3>3, TemplateSecond
    <3> QED BY <1>11, <2>2, <3>4, <3>5
  <2> QED BY <2>1, <2>2 DEF Plain
<1> QED BY <1>7, <1>8, <1>14, <1>15 DEF t, u, j

LEMMA RemoveKeeps ==
  ASSUME NEW s \in Seq(Words), s # <<>>, ~Compound(s), NEW p \in 1..Len(s), Unwrap(s) = From(s, p),
         s[p] \notin DOMAIN Wrappers \cup {Flock},
         NEW i \in p..(Len(s) - 1), s[i] = s[i + 1], s[i] \notin Flags, ~Plain(From(s, p), i - p + 1)
  PROVE  NormalizeLine(SubSeq(s, 1, i) \o From(s, i + 2)) = NormalizeLine(s)
<1> DEFINE n == Len(s)  t == SubSeq(s, 1, i) \o From(s, i + 2)  u == From(s, p)  v == From(t, p)  j == i - p + 1
<1>0. n \in Nat /\ p \in Nat /\ i \in 1..(n - 1) /\ i \in Nat /\ i >= p /\ i < n /\ p \in 1..(n + 1) BY DEF n
<1>1. j \in Nat /\ j # 1 /\ j >= 2 /\ i > p
  <2>1. j # 1 BY DEF Plain
  <2> QED BY <1>0, <2>1
<1>2. /\ t \in Seq(Words) /\ Len(t) = n - 1
      /\ \A k \in 1..i : t[k] = s[k]
      /\ \A k \in (i + 1)..(n - 1) : t[k] = s[k + 1]
  BY <1>0, RemoveIs DEF n
<1> HIDE DEF t, n
<1>3. t # <<>> BY <1>0, <1>2
<1>4. ~Compound(t)
  <2>1. \A k \in 1..n : s[k] \notin Operators BY DEF Compound, n
  <2>2. ASSUME NEW k \in 1..(n - 1) PROVE t[k] \notin Operators
    <3>1. CASE k \in 1..i BY <1>0, <1>2, <2>1, <3>1
    <3>2. CASE k \notin 1..i
      <4>1. k \in (i + 1)..(n - 1) /\ k + 1 \in 1..n BY <1>0, <3>2
      <4> QED BY <1>2, <2>1, <4>1
    <3> QED BY <3>1, <3>2
  <2>3. DOMAIN t = 1..(n - 1) BY <1>2
  <2> QED BY <2>2, <2>3 DEF Compound
<1>5. Alike(s, t, p)
  <2>1. p \in 1..i /\ p \in 1..n /\ p \in 1..(n - 1) /\ p # n /\ p # n - 1 /\ \A k \in 1..(p - 1) : k \in 1..i BY <1>0, <1>1
  <2> QED BY <1>2, <2>1 DEF Alike, n
<1>6. Unwrap(t) = v BY <1>2, <1>5, UnwrapStable
<1>7. NormalizeLine(s) = Template(u) BY LineSimple DEF NormalizeOne
<1>8. NormalizeLine(t) = Template(v) BY <1>2, <1>3, <1>4, <1>6, LineSimple DEF NormalizeOne
<1>9. u \in Seq(Words) /\ Len(u) = n - p + 1 /\ \A k \in 1..(n - p + 1) : u[k] = s[p + k - 1]
  <2>1. p \in 1..(Len(s) + 1) BY <1>0 DEF n
  <2> QED BY <2>1, FromIs, Zenon DEF n
<1>10. v \in Seq(Words) /\ Len(v) = (n - 1) - p + 1 /\ \A k \in 1..((n - 1) - p + 1) : v[k] = t[p + k - 1]
  <2>1. p \in 1..(Len(t) + 1) BY <1>0, <1>2
  <2>2. v \in Seq(Words) /\ Len(v) = Len(t) - p + 1 /\ \A k \in 1..(Len(t) - p + 1) : v[k] = t[p + k - 1]
    <3>1. t \in Seq(Words) BY <1>2
    <3> HIDE DEF t
    <3> QED BY <2>1, <3>1, FromIs
  <2> HIDE DEF v
  <2> QED BY <1>2, <2>2
<1>11. ~Plain(u, j) OBVIOUS
<1> HIDE DEF u, v
<1>12. j \in 1..(Len(u) - 1) /\ Len(v) = Len(u) - 1 BY <1>0, <1>1, <1>9, <1>10
<1>13. u[j] = s[i] /\ u[j + 1] = s[i + 1]
  <2>1. p + j - 1 = i /\ p + (j + 1) - 1 = i + 1 /\ j \in 1..(n - p + 1) /\ j + 1 \in 1..(n - p + 1) BY <1>0, <1>1
  <2> HIDE DEF j
  <2>2. u[j] = s[p + j - 1] /\ u[j + 1] = s[p + (j + 1) - 1] BY <1>9, <2>1
  <2> QED BY <2>1, <2>2
<1>14. ASSUME NEW k \in 1..j PROVE v[k] = u[k]
  <2>1. p + k - 1 \in 1..i /\ k \in 1..(n - p + 1) /\ k \in 1..((n - 1) - p + 1) BY <1>0, <1>1
  <2> QED BY <1>2, <1>9, <1>10, <2>1
<1>15. ASSUME NEW k \in (j + 1)..(Len(u) - 1) PROVE v[k] = u[k + 1]
  <2>1. /\ p + k - 1 \in (i + 1)..(n - 1) /\ k + 1 \in 1..(n - p + 1) /\ k \in 1..((n - 1) - p + 1)
        /\ (p + k - 1) + 1 = p + (k + 1) - 1
    BY <1>0, <1>1, <1>9
  <2>2. v[k] = t[p + k - 1] BY <1>10, <2>1
  <2>3. t[p + k - 1] = s[(p + k - 1) + 1] BY <1>2, <2>1
  <2>4. u[k + 1] = s[p + (k + 1) - 1] BY <1>9, <2>1
  <2> QED BY <2>1, <2>2, <2>3, <2>4
<1> HIDE DEF j
<1>16. Template(v) = Template(u)
  <2>1. u[j] = u[j + 1] /\ u[j] \notin Flags BY <1>13
  <2> QED BY <1>9, <1>10, <1>11, <1>12, <1>14, <1>15, <2>1, TemplateDouble
<1> QED BY <1>7, <1>8, <1>16 DEF t

(* The arguments carried over to the next suggestion, which ExtractArgTokens
   (handlers.go, classify.go) takes from what unwrapPrefixTokens leaves, are
   exactly the words whose exchange for another of their shape the template does
   not notice: for every vocabulary and every line. *)
THEOREM ArgumentsTheorem == Spec => []ArgumentsAreShapes
<1>1. Typed => ArgumentsAreShapes
  <2> SUFFICES ASSUME line \in Seq(Words), ~Compound(line), line # <<>>,
                      Unwrap(line)[1] \notin DOMAIN Wrappers \cup {Flock},
                      NEW i \in DOMAIN line, i > Len(line) - Len(Unwrap(line)), line[i] \notin Flags,
                      {w \in Ordinary \ {line[i]} : Shape[w] = Shape[line[i]]} # {}
               PROVE  /\ i \in Args(line) <=>
                           \A w \in {w \in Ordinary \ {line[i]} : Shape[w] = Shape[line[i]]} :
                             NormalizeLine([line EXCEPT ![i] = w]) = NormalizeLine(line)
                      /\ i + 1 \in Args(line) /\ i \in Args(line) /\ line[i] = line[i + 1] =>
                           NormalizeLine(SubSeq(line, 1, i) \o From(line, i + 2)) = NormalizeLine(line)
    BY DEF Typed, ArgumentsAreShapes
  <2> DEFINE n == Len(line)  u == Unwrap(line)
  <2>1. PICK p \in 1..n : u = From(line, p) BY UnwrapRange
  <2>2. n \in Nat /\ p \in 1..(n + 1) /\ i \in 1..n BY <2>1
  <2>3. u \in Seq(Words) /\ Len(u) = n - p + 1 /\ \A k \in 1..(n - p + 1) : u[k] = line[p + k - 1]
    <3> DEFINE v == From(line, p)
    <3>1. v \in Seq(Words) /\ Len(v) = n - p + 1 /\ \A k \in 1..(n - p + 1) : v[k] = line[p + k - 1]
      BY <2>2, FromIs
    <3> HIDE DEF v
    <3>2. u = v BY <2>1 DEF v
    <3> HIDE DEF u
    <3> QED BY <3>1, <3>2
  <2>4. u[1] = line[p]
    <3>1. 1 \in 1..(n - p + 1) /\ p + 1 - 1 = p BY <2>1, <2>2
    <3> HIDE DEF u
    <3>2. u[1] = line[p + 1 - 1] BY <2>3, <3>1
    <3> QED BY <3>1, <3>2
  <2>5. i \in p..n /\ n - Len(u) = p - 1
    <3> HIDE DEF n
    <3>1. n - Len(u) = p - 1 BY <2>1, <2>2, <2>3
    <3> QED BY <2>2, <3>1 DEF n
  <2>6. ASSUME NEW k \in 1..n PROVE k \in Args(line) <=> k >= p /\ ~Plain(u, k - p + 1) /\ line[k] \notin Flags
    <3> DEFINE J == {j \in DOMAIN u : ~Plain(u, j) /\ u[j] \notin Flags}
    <3>1. Args(line) = {p - 1 + j : j \in J}
      <4>1. Args(line) = {n - Len(u) + j : j \in J} BY DEF Args
      <4> HIDE DEF J, u, n
      <4> QED BY <2>5, <4>1
    <3>2. DOMAIN u = 1..(n - p + 1) BY <2>3
    <3> HIDE DEF u, n
    <3>3. ASSUME k \in Args(line) PROVE k >= p /\ ~Plain(u, k - p + 1) /\ line[k] \notin Flags
      <4>1. PICK j \in J : k = p - 1 + j BY <3>1, <3>3
      <4>2. j \in 1..(n - p + 1) /\ ~Plain(u, j) /\ u[j] \notin Flags BY <3>2, <4>1
      <4>3. j = k - p + 1 /\ k >= p /\ p + j - 1 = k BY <2>1, <4>1, <4>2
      <4>4. u[j] = line[p + j - 1] BY <2>3, <4>2
      <4> QED BY <4>2, <4>3, <4>4
    <3>4. ASSUME k >= p, ~Plain(u, k - p + 1), line[k] \notin Flags PROVE k \in Args(line)
      <4> DEFINE j == k - p + 1
      <4>1. j \in 1..(n - p + 1) /\ p + j - 1 = k /\ k = p - 1 + j BY <2>1, <2>2, <3>4
      <4>2. ~Plain(u, j) BY <3>4
      <4> HIDE DEF j
      <4>3. u[j] = line[k] BY <2>3, <4>1
      <4>4. j \in J BY <3>2, <3>4, <4>1, <4>2, <4>3
      <4> HIDE DEF J
      <4> QED BY <3>1, <4>1, <4>4
    <3> QED BY <3>3, <3>4
  <2>7. i \in Args(line) <=> ~Plain(From(line, p), i - p + 1)
    <3>1. i >= p BY <2>1, <2>2, <2>5
    <3> HIDE DEF n, u
    <3> QED BY <2>1, <2>2, <2>6, <3>1
  <2>8. ASSUME NEW w \in Ordinary, w # line[i], Shape[w] = Shape[line[i]]
        PROVE  NormalizeLine([line EXCEPT ![i] = w]) = NormalizeLine(line) <=> ~Plain(From(line, p), i - p + 1)
    <3>1. line[p] \notin DOMAIN Wrappers \cup {Flock} BY <2>4
    <3> QED BY <2>1, <2>5, <2>8, <3>1, ExchangeKeeps
  <2>9. ASSUME i + 1 \in Args(line), i \in Args(line), line[i] = line[i + 1]
        PROVE  NormalizeLine(SubSeq(line, 1, i) \o From(line, i + 2)) = NormalizeLine(line)
    <3>1. line[p] \notin DOMAIN Wrappers \cup {Flock} BY <2>4
    <3>2. ~Plain(From(line, p), i - p + 1) BY <2>7, <2>9
    <3>3. i + 1 \in 1..n
      <4> DEFINE J == {j \in DOMAIN u : ~Plain(u, j) /\ u[j] \notin Flags}
      <4>1. Args(line) = {n - Len(u) + j : j \in J} BY DEF Args
      <4>2. DOMAIN u = 1..(n - p + 1) BY <2>3
      <4> HIDE DEF u, n
      <4>3. PICK j \in J : i + 1 = n - Len(u) + j
        <5> HIDE DEF J
        <5> QED BY <2>9, <4>1
      <4>4. j \in 1..(n - p + 1) BY <4>2
      <4> QED BY <2>1, <2>2, <2>5, <4>3, <4>4
    <3>4. i \in p..(n - 1) BY <2>1, <2>2, <2>5, <3>3
    <3> QED BY <2>1, <2>9, <3>1, <3>2, <3>4, RemoveKeeps
  <2> QED BY <2>7, <2>8, <2>9
<1> QED BY <1>1, TypedInvariant, PTL

-----------------------------------------------------------------------------
(* An invocation of a wrapper ends where the code finds the command. *)
LEMMA MiddleIs ==
  ASSUME NEW s \in Seq(Words), NEW k \in 1..Len(s)
  PROVE  /\ SubSeq(s, 2, k) \in Seq(Words) /\ Len(SubSeq(s, 2, k)) = k - 1
         /\ DOMAIN SubSeq(s, 2, k) = 1..(k - 1)
         /\ \A i \in 1..(k - 1) : SubSeq(s, 2, k)[i] = s[i + 1]
<1>1. Len(s) \in Nat /\ 2 \in 1..(Len(s) + 1) /\ k \in (2 - 1)..Len(s) OBVIOUS
<1> DEFINE q == SubSeq(s, 2, k)
<1>2. q \in Seq(Words) /\ Len(q) = k - 2 + 1 /\ \A i \in 1..(k - 2 + 1) : q[i] = s[2 + i - 1]
  BY <1>1, SubSeqProperties
<1> HIDE DEF q
<1>3. k - 2 + 1 = k - 1 /\ \A i \in 1..(k - 1) : 2 + i - 1 = i + 1 BY <1>1
<1>4. DOMAIN q = 1..Len(q) BY <1>2
<1> QED BY <1>2, <1>3, <1>4 DEF q

Below(P, i) == {x \in P : x < i}

LEMMA BelowCounts ==
  ASSUME NEW m \in Nat, NEW P, P \subseteq 1..m
  PROVE  /\ Cardinality(Below(P, 1)) = 0 /\ Cardinality(Below(P, m + 1)) = Cardinality(P)
         /\ Cardinality(P) \in Nat
         /\ \A i \in Nat :
              /\ Cardinality(Below(P, i)) \in Nat /\ Cardinality(Below(P, i)) <= Cardinality(P)
              /\ Cardinality(Below(P, i + 1)) = Cardinality(Below(P, i)) + (IF i \in P THEN 1 ELSE 0)
<1>1. IsFiniteSet(P) /\ Cardinality(P) \in Nat
  <2>1. IsFiniteSet(1..m) BY FS_Interval
  <2>2. IsFiniteSet(P) BY <2>1, FS_Subset
  <2> QED BY <2>2, FS_CardinalityType
<1>0. \A x \in P : x \in Nat /\ 1 <= x /\ x <= m
  <2> SUFFICES ASSUME NEW x \in P PROVE x \in Nat /\ 1 <= x /\ x <= m OBVIOUS
  <2>1. x \in 1..m OBVIOUS
  <2> QED BY <2>1
<1>2. Below(P, 1) = {} /\ Below(P, m + 1) = P
  <2>1. \A x \in P : ~(x < 1) /\ x < m + 1 BY <1>0
  <2> QED BY <2>1 DEF Below
<1>3. ASSUME NEW i \in Nat
      PROVE  /\ IsFiniteSet(Below(P, i)) /\ Cardinality(Below(P, i)) \in Nat
             /\ Cardinality(Below(P, i)) <= Cardinality(P)
  <2>1. Below(P, i) \in SUBSET P BY DEF Below
  <2>2. IsFiniteSet(Below(P, i)) /\ Cardinality(Below(P, i)) <= Cardinality(P) BY <1>1, <2>1, FS_Subset
  <2> QED BY <2>2, FS_CardinalityType
<1>4. ASSUME NEW i \in Nat
      PROVE  Cardinality(Below(P, i + 1)) = Cardinality(Below(P, i)) + (IF i \in P THEN 1 ELSE 0)
  <2>1. CASE i \in P
    <3>1. \A x \in P : x < i + 1 <=> x < i \/ x = i BY <1>0
    <3>2. i < i + 1 /\ ~(i < i) OBVIOUS
    <3>3. Below(P, i + 1) = Below(P, i) \cup {i} /\ i \notin Below(P, i) BY <2>1, <3>1, <3>2 DEF Below
    <3> QED BY <1>3, <2>1, <3>3, FS_AddElement
  <2>2. CASE i \notin P
    <3>1. \A x \in P : x < i + 1 <=> x < i BY <1>0, <2>2
    <3>2. Below(P, i + 1) = Below(P, i) BY <3>1 DEF Below
    <3> QED BY <1>3, <2>2, <3>2
  <2> QED BY <2>1, <2>2
<1>5. Cardinality(Below(P, 1)) = 0 BY <1>2, FS_EmptySet
<1> QED BY <1>1, <1>2, <1>3, <1>4, <1>5

LEMMA InvocationFinds ==
  ASSUME NEW s \in Seq(Words), NEW k \in 1..(Len(s) - 1), NEW c, Invocation(SubSeq(s, 2, k), c),
         s[k + 1] \notin Flags \cup Assignments
  PROVE  FindInner(s, c) = k + 1
<1> DEFINE a == SubSeq(s, 2, k)  m == k - 1  n == Len(s)
<1>0. n \in Nat /\ k \in 1..n /\ k \in Nat /\ k < n /\ m \in Nat BY DEF n, m
<1>1. DOMAIN a = 1..m /\ \A i \in 1..m : a[i] = s[i + 1] BY <1>0, MiddleIs DEF n
<1>2. PICK values \in SUBSET (1..m) :
        /\ \A i \in 1..m : i + 1 \in values <=> (i \in (1..m) \ values /\ TakesValue(a[i], c))
        /\ 1 \notin values
        /\ \A i \in (1..m) \ values : IF a[i] = DoubleDash THEN c.dashes /\ i = Len(a)
                                      ELSE a[i] \in Flags => c.flags
        /\ c.positional = Cardinality({i \in (1..m) \ values : a[i] \notin Flags /\ ~(c.env /\ a[i] \in Assignments)})
  <2> HIDE DEF a, m
  <2>1. Invocation(a, c) BY DEF a
  <2> QED BY <1>1, <2>1 DEF Invocation
<1>3. Len(a) = m BY <1>0, MiddleIs DEF n
<1> HIDE DEF a, m, n
<1> DEFINE own == (1..m) \ values
           P == {i \in own : a[i] \notin Flags /\ ~(c.env /\ a[i] \in Assignments)}
           cnt(i) == Cardinality(Below(P, i))
<1>4. P \subseteq 1..m OBVIOUS
<1>5. c.positional = Cardinality(P) BY <1>2
<1>6. \A i \in (1..m) : i \in P <=> i \in own /\ a[i] \notin Flags /\ ~(c.env /\ a[i] \in Assignments) OBVIOUS
<1> HIDE DEF P
<1>7. /\ cnt(1) = 0 /\ cnt(m + 1) = Cardinality(P) /\ Cardinality(P) \in Nat
      /\ \A i \in Nat : /\ cnt(i) \in Nat /\ cnt(i) <= Cardinality(P)
                        /\ cnt(i + 1) = cnt(i) + (IF i \in P THEN 1 ELSE 0)
  BY <1>0, <1>4, BelowCounts
<1> HIDE DEF cnt
<1>8. PICK f : /\ FindInner(s, c) = f[2][0]
               /\ \A i \in Nat : \A l \in Nat : f[i][l] = Visit(f, s, c, i, l)
  <2>1. Len(s) \in Nat OBVIOUS
  <2> QED BY <2>1, FindInnerIs
<1> DEFINE T == {i \in 1..(m + 1) : i \notin values => f[i + 1][cnt(i)] = k + 1}
<1>9. m + 1 \in T
  <2>1. m + 1 + 1 = k + 1 /\ k + 1 \in Nat /\ k + 1 <= n /\ k + 1 \in 1..n BY <1>0 DEF m
  <2>2. s[k + 1] \in Words /\ s[k + 1] # DoubleDash
    <3>1. s[k + 1] \in Words BY <2>1 DEF n
    <3> QED BY <3>1, DoubleDashIsFlag
  <2>3. ~(cnt(m + 1) < c.positional) /\ cnt(m + 1) \in Nat BY <1>5, <1>7
  <2>4. Visit(f, s, c, k + 1, cnt(m + 1)) = k + 1 BY <2>1, <2>2, <2>3 DEF Visit, n
  <2>5. f[k + 1][cnt(m + 1)] = k + 1 BY <1>8, <2>1, <2>3, <2>4
  <2>6. m + 1 \in 1..(m + 1) BY <1>0
  <2> QED BY <2>1, <2>5, <2>6
<1>10. ASSUME NEW i \in 1..(m + 1), \A j \in 1..(m + 1) : j > i => j \in T PROVE i \in T
  <2> SUFFICES ASSUME i # m + 1, i \notin values PROVE f[i + 1][cnt(i)] = k + 1
    BY <1>9
  <2>1. i \in own /\ i \in 1..m /\ i \in Nat /\ i + 1 \in Nat /\ i + 1 <= n /\ ~(i + 1 > n) BY <1>0 DEF m
  <2>2. a[i] = s[i + 1] BY <1>1, <2>1
  <2>3. cnt(i) \in Nat /\ cnt(i) <= Cardinality(P) /\ cnt(i + 1) = cnt(i) + (IF i \in P THEN 1 ELSE 0)
    BY <1>7, <2>1
  <2>4. f[i + 1][cnt(i)] = Visit(f, s, c, i + 1, cnt(i)) BY <1>8, <2>1, <2>3
  <2>5. i + 1 \notin values => f[i + 1 + 1][cnt(i + 1)] = k + 1
    <3>1. i + 1 \in 1..(m + 1) /\ i + 1 > i BY <1>0, <2>1
    <3>2. i + 1 \in T BY <1>10, <3>1
    <3> QED BY <3>2
  <2>6. i + 1 \in values <=> TakesValue(a[i], c) BY <1>2, <2>1
  <2>7. CASE a[i] = DoubleDash
    <3>1. c.dashes /\ i = m BY <1>2, <1>3, <2>1, <2>7
    <3>2. i + 1 + 1 = k + 1 /\ i + 1 < n BY <1>0, <3>1 DEF m
    <3>3. Visit(f, s, c, i + 1, cnt(i)) = k + 1 BY <2>1, <2>2, <2>7, <3>1, <3>2 DEF Visit, n
    <3> QED BY <2>4, <3>3
  <2>8. CASE a[i] # DoubleDash /\ a[i] \in Flags /\ TakesValue(a[i], c)
    <3>1. c.flags /\ (a[i] \in c.valued \/ (c.short /\ a[i] \in ShortFlags)) BY <2>8 DEF TakesValue
    <3>2. Visit(f, s, c, i + 1, cnt(i)) = f[i + 1 + 2][cnt(i)]
      BY <2>1, <2>2, <2>8, <3>1 DEF Visit, n
    <3>3. i + 1 \in values /\ i + 1 \in 1..m BY <2>6, <2>8
    <3>4. i + 2 \in 1..(m + 1) /\ i + 2 > i /\ i + 1 + 1 = i + 2 /\ i + 2 + 1 = i + 1 + 2 BY <1>0, <3>3
    <3>5. i + 2 \notin values
      <4>1. i + 1 + 1 \in values <=> (i + 1 \in own /\ TakesValue(a[i + 1], c)) BY <1>2, <3>3
      <4> QED BY <3>3, <3>4, <4>1
    <3>6. f[i + 2 + 1][cnt(i + 2)] = k + 1
      <4>1. i + 2 \in T BY <1>10, <3>4
      <4> QED BY <3>5, <4>1
    <3>7. i \notin P /\ i + 1 \notin P BY <1>6, <2>1, <2>8, <3>3
    <3>8. cnt(i + 2) = cnt(i)
      <4>1. cnt(i + 1 + 1) = cnt(i + 1) + (IF i + 1 \in P THEN 1 ELSE 0) /\ cnt(i + 1) \in Nat BY <1>7, <2>1
      <4>2. cnt(i + 1) = cnt(i) BY <2>3, <3>7
      <4> QED BY <2>3, <3>4, <3>7, <4>1, <4>2
    <3> QED BY <2>4, <3>2, <3>4, <3>6, <3>8
  <2>9. CASE a[i] # DoubleDash /\ a[i] \in Flags /\ ~TakesValue(a[i], c)
    <3>1. c.flags BY <1>2, <2>1, <2>9
    <3>2. ~(a[i] \in c.valued \/ (c.short /\ a[i] \in ShortFlags)) BY <2>9, <3>1 DEF TakesValue
    <3>3. Visit(f, s, c, i + 1, cnt(i)) = f[i + 1 + 1][cnt(i)]
      BY <2>1, <2>2, <2>9, <3>1, <3>2 DEF Visit, n
    <3>4. i \notin P BY <1>6, <2>1, <2>9
    <3>5. cnt(i + 1) = cnt(i) BY <2>3, <3>4
    <3> QED BY <2>4, <2>5, <2>6, <2>9, <3>3, <3>5
  <2>10. CASE a[i] \notin Flags
    <3>1. ~TakesValue(a[i], c) BY <2>10 DEF TakesValue
    <3>2. a[i] # DoubleDash
      <4>1. a[i] \in Words BY <2>1, <2>2 DEF n
      <4> QED BY <2>10, <4>1, DoubleDashIsFlag
    <3>3. CASE c.env /\ a[i] \in Assignments
      <4>1. i \notin P BY <1>6, <2>1, <3>3
      <4>2. cnt(i + 1) = cnt(i) BY <2>3, <4>1
      <4>3. Visit(f, s, c, i + 1, cnt(i)) = f[i + 1 + 1][cnt(i)]
        BY <2>1, <2>2, <2>10, <3>2, <3>3 DEF Visit, n
      <4> QED BY <2>4, <2>5, <2>6, <3>1, <4>2, <4>3
    <3>4. CASE ~(c.env /\ a[i] \in Assignments)
      <4>1. i \in P BY <1>6, <2>1, <2>10, <3>4
      <4>2. cnt(i + 1) = cnt(i) + 1 BY <2>3, <4>1
      <4>3. cnt(i) < c.positional
        <5>1. cnt(i + 1) <= Cardinality(P) BY <1>7, <2>1
        <5> QED BY <1>5, <1>7, <2>3, <4>2, <5>1
      <4>4. Visit(f, s, c, i + 1, cnt(i)) = f[i + 1 + 1][cnt(i) + 1]
        BY <2>1, <2>2, <2>10, <3>2, <3>4, <4>3 DEF Visit, n
      <4> QED BY <2>4, <2>5, <2>6, <3>1, <4>2, <4>4
    <3> QED BY <3>3, <3>4
  <2> QED BY <2>7, <2>8, <2>9, <2>10
<1> HIDE DEF T
<1>11. 1..(m + 1) \subseteq T
  <2>1. m + 1 \in Nat BY <1>0
  <2> QED BY <1>10, <2>1, DownInduct
<1>12. f[2][0] = k + 1
  <2>1. 1 \in 1..(m + 1) /\ 1 + 1 = 2 BY <1>0
  <2>2. 1 \in T BY <1>11, <2>1
  <2> QED BY <1>2, <1>7, <2>1, <2>2 DEF T
<1> QED BY <1>8, <1>12

LEMMA NoTwo ==
  ASSUME NEW m \in Nat, NEW P, P \subseteq 1..m, Cardinality(P) <= 1, NEW x \in P, NEW y \in P PROVE x = y
<1>1. IsFiniteSet(1..m) BY FS_Interval
<1>2. IsFiniteSet(P) BY <1>1, FS_Subset
<1>3. Cardinality(P) \in Nat BY <1>2, FS_CardinalityType
<1>4. Cardinality(P) # 0 BY <1>2, FS_EmptySet
<1>5. Cardinality(P) = 1 BY <1>3, <1>4
<1>6. \E z : P = {z} BY <1>2, <1>5, FS_Singleton
<1> QED BY <1>6

LEMMA FlockFinds ==
  ASSUME NEW s \in Seq(Words), NEW k \in 1..(Len(s) - 1), FlockInvocation(SubSeq(s, 2, k)), s[k + 1] \notin Flags
  PROVE  FlockIndex(s) = k + 1
<1> DEFINE a == SubSeq(s, 2, k)  m == k - 1  n == Len(s)
           files == {i \in 1..m : a[i] \notin Flags \/ a[i] = Dash}
           given == {i \in 1..m : a[i] \in CommandFlags}
<1>0. n \in Nat /\ k \in 1..n /\ k \in Nat /\ k < n /\ k >= 1 /\ m \in Nat BY DEF n, m
<1>1. DOMAIN a = 1..m /\ Len(a) = m /\ \A i \in 1..m : a[i] = s[i + 1] BY <1>0, MiddleIs DEF n
<1>2. \/ given = {} /\ Cardinality(files) = 1
      \/ given = {m} /\ Cardinality(files) <= 1
  <2> HIDE DEF a, m
  <2>1. FlockInvocation(a) BY DEF a
  <2> QED BY <1>1, <2>1 DEF FlockInvocation
<1> HIDE DEF a, n
<1>3. ASSUME NEW i \in 1..m PROVE i \in files <=> i + 1 \in Files(s)
  <2>1. i + 1 \in 2..n BY <1>0
  <2> QED BY <1>1, <2>1 DEF Files, n
<1>4. ASSUME NEW i \in Files(s), i <= k PROVE i - 1 \in files
  <2>1. i \in 2..n BY DEF Files, n
  <2>2. i - 1 \in 1..m /\ (i - 1) + 1 = i BY <1>0, <1>4, <2>1
  <2> HIDE DEF m, files
  <2> QED BY <1>3, <2>2
<1>5. files \subseteq 1..m /\ Cardinality(files) <= 1 BY <1>2
<1> HIDE DEF files
<1>6. ASSUME NEW i \in Stops(s), i <= k PROVE i - 1 \in given
  <2>1. i \in 2..n BY DEF Stops, n
  <2>2. i - 1 \in 1..m /\ (i - 1) + 1 = i BY <1>0, <1>6, <2>1
  <2>3. a[i - 1] = s[i] BY <1>1, <2>2
  <2>4. ~(i \in Files(s) /\ \E j \in Files(s) : j < i)
    <3> SUFFICES ASSUME i \in Files(s), NEW j \in Files(s), j < i PROVE FALSE OBVIOUS
    <3>1. j \in 2..n /\ j <= k BY <1>6, <2>1 DEF Files, n
    <3>2. i - 1 \in files /\ j - 1 \in files BY <1>4, <1>6, <3>1
    <3>3. i - 1 = j - 1
      <4>1. m \in Nat BY <1>0
      <4> DEFINE x == i - 1  y == j - 1
      <4>2. x \in files /\ y \in files BY <3>2
      <4> HIDE DEF m, x, y
      <4>3. x = y BY <1>5, <4>1, <4>2, NoTwo
      <4> QED BY <4>3 DEF x, y
    <3> QED BY <2>1, <3>1, <3>3
  <2>5. s[i] \in CommandFlags BY <2>4 DEF Stops
  <2> QED BY <2>2, <2>3, <2>5
<1>7. \/ Stops(s) = {} /\ FlockIndex(s) = 0
      \/ \E i \in Stops(s) :
           /\ \A j \in Stops(s) : i <= j
           /\ FlockIndex(s) = IF s[i] \notin CommandFlags THEN i ELSE IF i < n THEN i + 1 ELSE 0
  BY FlockIndexIs DEF n
<1>8. CASE given = {} /\ Cardinality(files) = 1
  <2>1. k + 1 \in Stops(s)
    <3>1. IsFiniteSet(1..m) BY <1>0, FS_Interval
    <3>2. IsFiniteSet(files) BY <1>5, <3>1, FS_Subset
    <3>3. PICK x : files = {x} BY <1>8, <3>2, FS_Singleton
    <3>4. x \in 1..m /\ x \in files BY <1>5, <3>3
    <3>5. x + 1 \in Files(s) /\ x + 1 < k + 1 BY <1>0, <1>3, <3>4
    <3>6. k + 1 \in 2..n BY <1>0
    <3>7. k + 1 \in Files(s) BY <3>6 DEF Files, n
    <3> QED BY <3>5, <3>6, <3>7 DEF Stops, n
  <2>2. s[k + 1] \notin CommandFlags BY NormalizeAssumption
  <2>3. PICK i \in Stops(s) :
          /\ \A j \in Stops(s) : i <= j
          /\ FlockIndex(s) = IF s[i] \notin CommandFlags THEN i ELSE IF i < n THEN i + 1 ELSE 0
    BY <1>7, <2>1
  <2>4. i \in Nat BY DEF Stops
  <2>5. ~(i <= k)
    <3> HIDE DEF given
    <3> QED BY <1>6, <1>8
  <2>6. i = k + 1 BY <1>0, <2>1, <2>3, <2>4, <2>5
  <2> QED BY <2>2, <2>3, <2>6
<1>9. CASE given = {m}
  <2>1. m \in 1..m /\ a[m] \in CommandFlags BY <1>9
  <2>2. m + 1 = k /\ k \in 2..n BY <1>0, <2>1
  <2>3. s[k] \in CommandFlags BY <1>1, <2>1, <2>2
  <2>4. k \in Stops(s) BY <2>2, <2>3 DEF Stops, n
  <2>5. PICK i \in Stops(s) :
          /\ \A j \in Stops(s) : i <= j
          /\ FlockIndex(s) = IF s[i] \notin CommandFlags THEN i ELSE IF i < n THEN i + 1 ELSE 0
    BY <1>7, <2>4
  <2>6. i \in Nat /\ i <= k BY <2>4, <2>5 DEF Stops
  <2>7. i - 1 = m
    <3> HIDE DEF given, m
    <3>1. i - 1 \in given BY <1>6, <2>6
    <3> QED BY <1>9, <3>1
  <2>8. i = k BY <2>2, <2>6, <2>7
  <2> QED BY <1>0, <2>3, <2>5, <2>8
<1> QED BY <1>2, <1>8, <1>9

LEMMA PeelKeeps ==
  ASSUME NEW s \in Seq(Words), NEW k \in 1..(Len(s) - 1), ~Compound(s), Unwrap(s) = Unwrap(From(s, k + 1))
  PROVE  NormalizeLine(s) = NormalizeLine(From(s, k + 1))
<1> DEFINE n == Len(s)  t == From(s, k + 1)
<1>0. n \in Nat /\ k \in Nat /\ k < n /\ k + 1 \in 1..(n + 1) /\ s # <<>> BY DEF n
<1>1. /\ t \in Seq(Words) /\ Len(t) = n - (k + 1) + 1
      /\ \A j \in 1..(n - (k + 1) + 1) : t[j] = s[(k + 1) + j - 1]
  BY <1>0, FromIs DEF n
<1> HIDE DEF t, n
<1>2. t # <<>> BY <1>0, <1>1
<1>3. ~Compound(t)
  <2>1. \A j \in 1..n : s[j] \notin Operators BY DEF Compound, n
  <2>2. DOMAIN t = 1..(n - (k + 1) + 1) BY <1>1
  <2>3. \A j \in 1..(n - (k + 1) + 1) : (k + 1) + j - 1 \in 1..n BY <1>0
  <2> QED BY <1>1, <2>1, <2>2, <2>3 DEF Compound
<1>4. NormalizeLine(s) = Template(Unwrap(s)) BY <1>0, LineSimple DEF NormalizeOne
<1>5. NormalizeLine(t) = Template(Unwrap(t)) BY <1>1, <1>2, <1>3, LineSimple DEF NormalizeOne
<1>6. Unwrap(s) = Unwrap(t) BY DEF t
<1> QED BY <1>4, <1>5, <1>6 DEF t

(* Whatever arguments of its own a wrapper is given (findInner and
   flockCommandIndex, unwrap.go), and however wrappers and assignments are
   nested, the template of the line is that of the command: for every table of
   wrappers and lines of every length. *)
THEOREM WrapperTheorem == Spec => []WrapperTransparent
<1>1. Typed => WrapperTransparent
  <2> SUFFICES ASSUME line \in Seq(Words), ~Compound(line), NEW k \in 1..(Len(line) - 1),
                      \/ line[1] \in DOMAIN Wrappers /\ Invocation(SubSeq(line, 2, k), Wrappers[line[1]])
                      \/ line[1] = Flock /\ FlockInvocation(SubSeq(line, 2, k))
                      \/ k = 1 /\ line[1] \in Assignments \ Flags,
                      From(line, k + 1)[1] \notin
                        Flags \cup (IF line[1] \in Assignments THEN {} ELSE Assignments)
               PROVE  NormalizeLine(line) = NormalizeLine(From(line, k + 1))
    BY DEF Typed, WrapperTransparent
  <2> DEFINE n == Len(line)
  <2>0. n \in Nat /\ n > 1 /\ k + 1 \in 2..n /\ k + 1 \in 1..(n + 1) /\ line # <<>> OBVIOUS
  <2>1. From(line, k + 1)[1] = line[k + 1]
    <3>1. \A j \in 1..(n - (k + 1) + 1) : From(line, k + 1)[j] = line[(k + 1) + j - 1] BY <2>0, FromIs
    <3>2. 1 \in 1..(n - (k + 1) + 1) /\ (k + 1) + 1 - 1 = k + 1 BY <2>0
    <3>3. From(line, k + 1)[1] = line[(k + 1) + 1 - 1] BY <3>1, <3>2
    <3> QED BY <3>2, <3>3
  <2>2. CASE line[1] \notin Assignments /\ WrapperIndex(line) = k + 1
    <3>1. line[k + 1] \notin Assignments \ Flags /\ line[1] \notin Assignments \ Flags BY <2>1, <2>2
    <3>2. Unwrap(line) = Unwrap(From(line, k + 1)) BY <2>0, <2>2, <3>1, UnwrapInner
    <3> QED BY <3>2, PeelKeeps
  <2>3. CASE line[1] \in DOMAIN Wrappers /\ Invocation(SubSeq(line, 2, k), Wrappers[line[1]])
    <3>1. line[1] \notin Assignments /\ line[1] # Flock BY <2>3, NormalizeAssumption
    <3>2. line[k + 1] \notin Flags \cup Assignments BY <2>1, <3>1
    <3>3. FindInner(line, Wrappers[line[1]]) = k + 1 BY <2>3, <3>2, InvocationFinds
    <3>4. WrapperIndex(line) = k + 1 BY <2>3, <3>1, <3>3 DEF WrapperIndex
    <3> QED BY <2>2, <3>1, <3>4
  <2>4. CASE line[1] = Flock /\ FlockInvocation(SubSeq(line, 2, k))
    <3>1. line[1] \notin Assignments BY <2>4, NormalizeAssumption
    <3>2. line[k + 1] \notin Flags BY <2>1
    <3>3. FlockIndex(line) = k + 1 BY <2>4, <3>2, FlockFinds
    <3>4. WrapperIndex(line) = k + 1 BY <2>4, <3>3 DEF WrapperIndex
    <3> QED BY <2>2, <3>1, <3>4
  <2>5. CASE k = 1 /\ line[1] \in Assignments \ Flags
    <3>1. Unwrap(line) = Unwrap(From(line, 2)) BY <2>0, <2>5, UnwrapAssignment
    <3>2. Unwrap(line) = Unwrap(From(line, k + 1)) BY <2>5, <3>1
    <3> QED BY <3>2, PeelKeeps
  <2> QED BY <2>3, <2>4, <2>5
<1> QED BY <1>1, TypedInvariant, PTL
================================================================================
