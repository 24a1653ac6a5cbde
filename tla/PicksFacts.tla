------------------------------- MODULE PicksFacts --------------------------------
(***************************************************************************)
(* Induction over numbers and sequences, from the well-ordering of the       *)
(* numbers: the property to prove is a set that the step stays in.           *)
(* And what Picked and Only do, for every sequence.                          *)
(***************************************************************************)
EXTENDS Picks, Integers, SequenceTheorems, WellFoundedInduction, TLAPS

LEMMA Least ==
  ASSUME NEW S, S \subseteq Nat, S # {} PROVE \E n \in S : \A m \in S : n <= m
<1>1. PICK n \in S : \A m \in S : <<m, n>> \notin OpToRel(<, Nat)
  BY NatLessThanWellFounded, WFMin
<1>2. \A m \in S : ~(m < n)
  BY <1>1 DEF OpToRel
<1> QED BY <1>2

LEMMA NatInduct ==
  ASSUME NEW T, 0 \in T, \A n \in Nat : n \in T => n + 1 \in T PROVE Nat \subseteq T
<1> DEFINE rest == Nat \ T
<1> SUFFICES ASSUME rest # {} PROVE FALSE
  OBVIOUS
<1>1. PICK n \in rest : \A m \in rest : n <= m
  <2>1. rest \subseteq Nat /\ rest # {} OBVIOUS
  <2> HIDE DEF rest
  <2> QED BY <2>1, Least
<1>2. n # 0 /\ n - 1 \in Nat OBVIOUS
<1>3. n - 1 \in T BY <1>1, <1>2
<1>4. (n - 1) + 1 \in T BY <1>2, <1>3
<1> QED BY <1>4

LEMMA SeqInduct ==
  ASSUME NEW S, NEW T, <<>> \in T, \A s \in Seq(S) : \A e \in S : s \in T => Append(s, e) \in T
  PROVE  Seq(S) \subseteq T
<1> DEFINE Good == {n \in Nat : \A s \in Seq(S) : Len(s) = n => s \in T}
<1>1. 0 \in Good
  BY EmptySeq
<1>2. ASSUME NEW n \in Nat, n \in Good PROVE n + 1 \in Good
  <2> SUFFICES ASSUME NEW s \in Seq(S), Len(s) = n + 1 PROVE s \in T
    OBVIOUS
  <2> DEFINE front == SubSeq(s, 1, n)
  <2>1. front \in Seq(S) /\ Len(front) = n /\ s[n + 1] \in S
    BY SubSeqProperties
  <2>2. \A i \in 1..n : front[i] = s[i]
    BY SubSeqProperties
  <2>3. s = Append(front, s[n + 1])
    <3> HIDE DEF front
    <3>1. Append(front, s[n + 1]) \in Seq(S) /\ Len(Append(front, s[n + 1])) = n + 1 BY <2>1
    <3>2. \A i \in 1..(n + 1) : Append(front, s[n + 1])[i] = s[i] BY <2>1, <2>2
    <3> QED BY <3>1, <3>2, SeqEqual
  <2>4. front \in T
    <3> HIDE DEF front
    <3> QED BY <1>2, <2>1
  <2> HIDE DEF front
  <2> QED BY <2>1, <2>3, <2>4
<1> HIDE DEF Good
<1>3. Nat \subseteq Good BY <1>1, <1>2, NatInduct
<1> QED BY <1>3 DEF Good

-----------------------------------------------------------------------------
(* The recursion of Picked has a solution, and any two agree. *)
Upto(f, s, I, n) ==
  f = [i \in 0..n |-> IF i = 0 THEN <<>> ELSE IF i \in I THEN Append(f[i - 1], s[i]) ELSE f[i - 1]]

LEMMA UptoExists ==
  ASSUME NEW s, NEW I, NEW n \in Nat PROVE \E f : Upto(f, s, I, n)
<1> DEFINE Good == {m \in Nat : \E f : Upto(f, s, I, m)}
<1>1. 0 \in Good
  <2> DEFINE f == [i \in 0..0 |-> <<>>]
  <2>1. Upto(f, s, I, 0) BY DEF Upto
  <2> QED BY <2>1
<1>2. ASSUME NEW m \in Nat, m \in Good PROVE m + 1 \in Good
  <2>1. PICK f : Upto(f, s, I, m) BY <1>2
  <2> DEFINE last == IF m + 1 \in I THEN Append(f[m], s[m + 1]) ELSE f[m]
             g == [i \in 0..(m + 1) |-> IF i = m + 1 THEN last ELSE f[i]]
  <2>2. \A i \in 0..m : f[i] = IF i = 0 THEN <<>> ELSE IF i \in I THEN Append(f[i - 1], s[i]) ELSE f[i - 1]
    BY <2>1 DEF Upto
  <2>3. ASSUME NEW i \in 0..(m + 1)
        PROVE  g[i] = IF i = 0 THEN <<>> ELSE IF i \in I THEN Append(g[i - 1], s[i]) ELSE g[i - 1]
    <3>1. CASE i = m + 1
      <4>1. g[i - 1] = f[m] BY <3>1
      <4> QED BY <3>1, <4>1
    <3>2. CASE i # m + 1 /\ i # 0
      <4>1. i \in 0..m /\ i - 1 \in 0..m BY <3>2
      <4>2. g[i] = f[i] /\ g[i - 1] = f[i - 1] BY <4>1
      <4> QED BY <2>2, <3>2, <4>1, <4>2
    <3>3. CASE i = 0 BY <2>2, <3>3
    <3> QED BY <3>1, <3>2, <3>3
  <2>4. g = [i \in 0..(m + 1) |-> g[i]] OBVIOUS
  <2> HIDE DEF g
  <2>5. Upto(g, s, I, m + 1) BY <2>3, <2>4 DEF Upto
  <2> QED BY <2>5
<1> HIDE DEF Good
<1>3. Nat \subseteq Good BY <1>1, <1>2, NatInduct
<1>4. n \in Good BY <1>3
<1> QED BY <1>4 DEF Good

LEMMA UptoAgrees ==
  ASSUME NEW s, NEW I, NEW n \in Nat, NEW f, Upto(f, s, I, n),
         NEW t, NEW m \in Nat, NEW g, Upto(g, t, I, m), n <= m, \A i \in 1..n : s[i] = t[i]
  PROVE  f[n] = g[n]
<1> DEFINE Good == {k \in Nat : k <= n => f[k] = g[k]}
<1>1. /\ \A i \in 0..n : f[i] = IF i = 0 THEN <<>> ELSE IF i \in I THEN Append(f[i - 1], s[i]) ELSE f[i - 1]
      /\ \A i \in 0..m : g[i] = IF i = 0 THEN <<>> ELSE IF i \in I THEN Append(g[i - 1], t[i]) ELSE g[i - 1]
  BY DEF Upto
<1>2. 0 \in Good
  BY <1>1
<1>3. ASSUME NEW k \in Nat, k \in Good PROVE k + 1 \in Good
  <2> SUFFICES ASSUME k + 1 <= n PROVE f[k + 1] = g[k + 1]
    OBVIOUS
  <2>1. f[k] = g[k] /\ s[k + 1] = t[k + 1] /\ k + 1 \in 0..n /\ k + 1 \in 0..m /\ (k + 1) - 1 = k
    BY <1>3
  <2> QED BY <1>1, <2>1
<1> HIDE DEF Good
<1>4. Nat \subseteq Good BY <1>2, <1>3, NatInduct
<1>5. n \in Good BY <1>4
<1> QED BY <1>5 DEF Good

LEMMA PickedIs ==
  ASSUME NEW s, Len(s) \in Nat, NEW I PROVE \E f : Upto(f, s, I, Len(s)) /\ Picked(s, I) = f[Len(s)]
<1> DEFINE f == CHOOSE h : Upto(h, s, I, Len(s))
<1>1. Upto(f, s, I, Len(s)) BY UptoExists
<1>2. Picked(s, I) = f[Len(s)] BY DEF Picked, Upto
<1> QED BY <1>1, <1>2

LEMMA PickedEmpty == ASSUME NEW I PROVE Picked(<<>>, I) = <<>>
<1>1. Len(<<>>) = 0 OBVIOUS
<1>2. PICK f : Upto(f, <<>>, I, 0) /\ Picked(<<>>, I) = f[0] BY <1>1, PickedIs
<1> QED BY <1>2 DEF Upto

(* Element by element. *)
LEMMA PickedAppend ==
  ASSUME NEW S, NEW s \in Seq(S), NEW e \in S, NEW I
  PROVE  Picked(Append(s, e), I) = IF Len(s) + 1 \in I THEN Append(Picked(s, I), e) ELSE Picked(s, I)
<1> DEFINE n == Len(s)  t == Append(s, e)
<1>1. n \in Nat /\ Len(t) = n + 1 /\ t[n + 1] = e /\ \A i \in 1..n : s[i] = t[i]
  OBVIOUS
<1> HIDE DEF n, t
<1>2. PICK f : Upto(f, s, I, n) /\ Picked(s, I) = f[n] BY <1>1, PickedIs DEF n
<1>3. PICK g : Upto(g, t, I, n + 1) /\ Picked(t, I) = g[n + 1] BY <1>1, PickedIs
<1>4. f[n] = g[n] BY <1>1, <1>2, <1>3, UptoAgrees
<1>5. g[n + 1] = IF n + 1 \in I THEN Append(g[n], e) ELSE g[n]
  <2>1. n + 1 \in 0..(n + 1) /\ n + 1 # 0 /\ (n + 1) - 1 = n BY <1>1
  <2>2. g[n + 1] = IF n + 1 = 0 THEN <<>> ELSE IF n + 1 \in I THEN Append(g[(n + 1) - 1], t[n + 1]) ELSE g[(n + 1) - 1]
    BY <1>3, <2>1 DEF Upto
  <2> QED BY <1>1, <2>1, <2>2
<1> QED BY <1>2, <1>3, <1>4, <1>5 DEF n, t

(* Only the places in the sequence matter. *)
LEMMA PickedAgrees ==
  ASSUME NEW S, NEW s \in Seq(S), NEW I, NEW J, \A i \in 1..Len(s) : i \in I <=> i \in J
  PROVE  Picked(s, I) = Picked(s, J)
<1> DEFINE T == {t \in Seq(S) : (\A i \in 1..Len(t) : i \in I <=> i \in J) => Picked(t, I) = Picked(t, J)}
<1>1. <<>> \in T BY PickedEmpty
<1>2. ASSUME NEW t \in Seq(S), NEW e \in S, t \in T PROVE Append(t, e) \in T
  <2> SUFFICES ASSUME \A i \in 1..Len(Append(t, e)) : i \in I <=> i \in J
               PROVE  Picked(Append(t, e), I) = Picked(Append(t, e), J)
    OBVIOUS
  <2>1. Len(Append(t, e)) = Len(t) + 1 /\ Len(t) \in Nat OBVIOUS
  <2>2. (Len(t) + 1 \in I <=> Len(t) + 1 \in J) /\ \A i \in 1..Len(t) : i \in I <=> i \in J BY <2>1
  <2>3. Picked(t, I) = Picked(t, J) BY <1>2, <2>2
  <2>4. Picked(Append(t, e), I) = IF Len(t) + 1 \in I THEN Append(Picked(t, I), e) ELSE Picked(t, I)
    BY PickedAppend
  <2>5. Picked(Append(t, e), J) = IF Len(t) + 1 \in J THEN Append(Picked(t, J), e) ELSE Picked(t, J)
    BY PickedAppend
  <2> QED BY <2>2, <2>3, <2>4, <2>5
<1> HIDE DEF T
<1>3. Seq(S) \subseteq T BY <1>1, <1>2, SeqInduct
<1>4. s \in T BY <1>3
<1> QED BY <1>4 DEF T

(* What is picked is made of what was there at those places, all of it. *)
LEMMA PickedRange ==
  ASSUME NEW S, NEW s \in Seq(S), NEW I
  PROVE  /\ Picked(s, I) \in Seq(S) /\ Len(Picked(s, I)) <= Len(s)
         /\ \A j \in 1..Len(Picked(s, I)) : \E i \in 1..Len(s) : i \in I /\ Picked(s, I)[j] = s[i]
         /\ \A i \in 1..Len(s) : i \in I => \E j \in 1..Len(Picked(s, I)) : Picked(s, I)[j] = s[i]
<1> DEFINE From(t) == \A j \in 1..Len(Picked(t, I)) : \E i \in 1..Len(t) : i \in I /\ Picked(t, I)[j] = t[i]
           Into(t) == \A i \in 1..Len(t) : i \in I => \E j \in 1..Len(Picked(t, I)) : Picked(t, I)[j] = t[i]
           Fits(t) == Picked(t, I) \in Seq(S) /\ Len(Picked(t, I)) <= Len(t) /\ From(t) /\ Into(t)
           T == {t \in Seq(S) : Fits(t)}
<1>1. <<>> \in T
  <2>1. Picked(<<>>, I) = <<>> /\ Len(<<>>) = 0 /\ <<>> \in Seq(S) BY PickedEmpty, EmptySeq
  <2>2. From(<<>>) /\ Into(<<>>) BY <2>1
  <2>3. Picked(<<>>, I) \in Seq(S) /\ Len(Picked(<<>>, I)) <= Len(<<>>)
    <3>1. Picked(<<>>, I) \in Seq(S) BY <2>1
    <3>2. Len(Picked(<<>>, I)) = 0 BY <2>1
    <3> QED BY <2>1, <3>1, <3>2
  <2> HIDE DEF From, Into
  <2>4. Fits(<<>>) BY <2>2, <2>3
  <2> HIDE DEF Fits
  <2> QED BY <2>1, <2>4
<1>2. ASSUME NEW t \in Seq(S), NEW e \in S, t \in T PROVE Append(t, e) \in T
  <2> SUFFICES Fits(Append(t, e))
    <3>1. Append(t, e) \in Seq(S) OBVIOUS
    <3> HIDE DEF Fits
    <3> QED BY <3>1
  <2> DEFINE p == Picked(t, I)  u == Append(t, e)  q == Picked(u, I)  n == Len(t)
  <2>1. p \in Seq(S) /\ Len(p) \in Nat /\ Len(p) <= n /\ From(t) /\ Into(t) /\ n \in Nat BY <1>2
  <2>2. u \in Seq(S) /\ Len(u) = n + 1 /\ u[n + 1] = e /\ \A i \in 1..n : u[i] = t[i] OBVIOUS
  <2>3. q = IF n + 1 \in I THEN Append(p, e) ELSE p BY PickedAppend
  <2> HIDE DEF n, u, q, p
  <2>4. CASE n + 1 \in I
    <3>1. /\ q \in Seq(S) /\ Len(q) = Len(p) + 1 /\ q[Len(p) + 1] = e
          /\ \A j \in 1..Len(p) : q[j] = p[j]
      BY <2>1, <2>3, <2>4
    <3>2. From(u)
      <4> SUFFICES ASSUME NEW j \in 1..Len(q) PROVE \E i \in 1..Len(u) : i \in I /\ q[j] = u[i]
        BY DEF q
      <4>1. CASE j = Len(p) + 1 BY <2>1, <2>2, <2>4, <3>1, <4>1
      <4>2. CASE j # Len(p) + 1
        <5>1. j \in 1..Len(p) BY <2>1, <3>1, <4>2
        <5>2. PICK i \in 1..n : i \in I /\ p[j] = t[i] BY <2>1, <5>1 DEF p, n
        <5> QED BY <2>1, <2>2, <3>1, <5>1, <5>2
      <4> QED BY <4>1, <4>2
    <3>3. Into(u)
      <4> SUFFICES ASSUME NEW i \in 1..Len(u), i \in I PROVE \E j \in 1..Len(q) : q[j] = u[i]
        BY DEF q
      <4>1. CASE i = n + 1 BY <2>1, <2>2, <3>1, <4>1
      <4>2. CASE i # n + 1
        <5>1. i \in 1..n BY <2>1, <2>2, <4>2
        <5>2. PICK j \in 1..Len(p) : p[j] = t[i] BY <2>1, <5>1 DEF p, n
        <5> QED BY <2>1, <2>2, <3>1, <5>1, <5>2
      <4> QED BY <4>1, <4>2
    <3>4. q \in Seq(S) /\ Len(q) <= Len(u) BY <2>1, <2>2, <3>1
    <3> QED BY <3>2, <3>3, <3>4 DEF q, u
  <2>5. CASE n + 1 \notin I
    <3>1. q = p BY <2>3, <2>5
    <3>2. From(u)
      <4> SUFFICES ASSUME NEW j \in 1..Len(p) PROVE \E i \in 1..Len(u) : i \in I /\ p[j] = u[i]
        BY <3>1 DEF q
      <4>1. PICK i \in 1..n : i \in I /\ p[j] = t[i] BY <2>1 DEF p, n
      <4> QED BY <2>1, <2>2, <4>1
    <3>3. Into(u)
      <4> SUFFICES ASSUME NEW i \in 1..Len(u), i \in I PROVE \E j \in 1..Len(p) : p[j] = u[i]
        BY <3>1 DEF q
      <4>1. i \in 1..n BY <2>1, <2>2, <2>5
      <4>2. PICK j \in 1..Len(p) : p[j] = t[i] BY <2>1, <4>1 DEF p, n
      <4> QED BY <2>2, <4>1, <4>2
    <3>4. q \in Seq(S) /\ Len(q) <= Len(u) BY <2>1, <2>2, <3>1
    <3> QED BY <3>2, <3>3, <3>4 DEF q, u
  <2> QED BY <2>4, <2>5
<1> HIDE DEF T
<1>3. Seq(S) \subseteq T BY <1>1, <1>2, SeqInduct
<1>4. s \in T BY <1>3
<1> QED BY <1>4 DEF T

LEMMA PickedSeq == ASSUME NEW S, NEW s \in Seq(S), NEW I PROVE Picked(s, I) \in Seq(S)
  BY PickedRange

LEMMA PickedFrom ==
  ASSUME NEW S, NEW s \in Seq(S), NEW I
  PROVE  \A j \in 1..Len(Picked(s, I)) : \E i \in 1..Len(s) : i \in I /\ Picked(s, I)[j] = s[i]
  BY PickedRange

(* What occurs at most once still does. *)
Once(s, M) == \A i, j \in 1..Len(s) : s[i] \in M /\ s[j] \in M => i = j

LEMMA PickedOnce ==
  ASSUME NEW S, NEW s \in Seq(S), NEW I, NEW M, Once(s, M) PROVE Once(Picked(s, I), M)
<1> DEFINE T == {t \in Seq(S) : Once(t, M) => Once(Picked(t, I), M)}
<1>1. <<>> \in T BY PickedEmpty DEF Once
<1>2. ASSUME NEW t \in Seq(S), NEW e \in S, t \in T PROVE Append(t, e) \in T
  <2> DEFINE p == Picked(t, I)  u == Append(t, e)  n == Len(t)
  <2> SUFFICES ASSUME Once(u, M) PROVE Once(Picked(u, I), M)
    OBVIOUS
  <2>1. u \in Seq(S) /\ Len(u) = n + 1 /\ n \in Nat /\ u[n + 1] = e /\ \A i \in 1..n : u[i] = t[i] OBVIOUS
  <2>2. /\ p \in Seq(S) /\ Len(p) \in Nat
        /\ \A j \in 1..Len(p) : \E i \in 1..n : i \in I /\ p[j] = t[i]
    BY PickedRange
  <2>3. Picked(u, I) = p \/ Picked(u, I) = Append(p, e) BY PickedAppend
  <2> HIDE DEF u, n
  <2>4. Once(t, M) BY <2>1 DEF Once, n
  <2>5. Once(p, M) BY <1>2, <2>4
  <2> HIDE DEF p
  <2>6. e \in M => \A j \in 1..Len(p) : p[j] \notin M
    <3> SUFFICES ASSUME e \in M, NEW j \in 1..Len(p), p[j] \in M PROVE FALSE
      OBVIOUS
    <3>1. PICK i \in 1..n : p[j] = t[i] BY <2>2
    <3>2. u[i] \in M /\ u[n + 1] \in M BY <2>1, <3>1
    <3>3. i = n + 1 BY <2>1, <3>2 DEF Once
    <3> QED BY <2>1, <3>3
  <2>7. Once(Append(p, e), M)
    <3>1. /\ Len(Append(p, e)) = Len(p) + 1 /\ Append(p, e)[Len(p) + 1] = e
          /\ \A j \in 1..Len(p) : Append(p, e)[j] = p[j]
      BY <2>2
    <3> SUFFICES ASSUME NEW i \in 1..(Len(p) + 1), NEW j \in 1..(Len(p) + 1),
                        Append(p, e)[i] \in M, Append(p, e)[j] \in M
                 PROVE  i = j
      BY <3>1 DEF Once
    <3>2. i \in 1..Len(p) \/ i = Len(p) + 1 BY <2>2
    <3>3. j \in 1..Len(p) \/ j = Len(p) + 1 BY <2>2
    <3> QED BY <2>5, <2>6, <3>1, <3>2, <3>3 DEF Once
  <2> QED BY <2>3, <2>5, <2>7
<1> HIDE DEF T
<1>3. Seq(S) \subseteq T BY <1>1, <1>2, SeqInduct
<1>4. s \in T BY <1>3
<1> QED BY <1>4 DEF T

-----------------------------------------------------------------------------
LEMMA OnlyEmpty == ASSUME NEW M PROVE Only(<<>>, M) = <<>>
  BY PickedEmpty DEF Only

LEMMA OnlyAppend ==
  ASSUME NEW S, NEW s \in Seq(S), NEW e \in S, NEW M
  PROVE  Only(Append(s, e), M) = IF e \in M THEN Append(Only(s, M), e) ELSE Only(s, M)
<1> DEFINE u == Append(s, e)  I == {i \in DOMAIN s : s[i] \in M}  J == {i \in DOMAIN u : u[i] \in M}
<1>1. /\ Len(s) \in Nat /\ DOMAIN s = 1..Len(s) /\ DOMAIN u = 1..(Len(s) + 1)
      /\ u[Len(s) + 1] = e /\ \A i \in 1..Len(s) : u[i] = s[i]
  OBVIOUS
<1> HIDE DEF u
<1>2. (Len(s) + 1 \in J <=> e \in M) /\ \A i \in 1..Len(s) : i \in I <=> i \in J BY <1>1
<1> HIDE DEF I, J
<1>3. Picked(s, I) = Picked(s, J) BY <1>2, PickedAgrees
<1>4. Picked(u, J) = IF Len(s) + 1 \in J THEN Append(Picked(s, J), e) ELSE Picked(s, J)
  BY PickedAppend DEF u
<1> QED BY <1>2, <1>3, <1>4 DEF Only, I, J, u

LEMMA OnlyRange ==
  ASSUME NEW S, NEW s \in Seq(S), NEW M PROVE Only(s, M) \in Seq(S \cap M)
<1> DEFINE T == {t \in Seq(S) : Only(t, M) \in Seq(S \cap M)}
<1>1. <<>> \in T
  <2>1. <<>> \in Seq(S) /\ <<>> \in Seq(S \cap M) BY EmptySeq
  <2> QED BY <2>1, OnlyEmpty
<1>2. ASSUME NEW t \in Seq(S), NEW e \in S, t \in T PROVE Append(t, e) \in T
  <2>1. Only(Append(t, e), M) = IF e \in M THEN Append(Only(t, M), e) ELSE Only(t, M) BY OnlyAppend
  <2>2. Only(t, M) \in Seq(S \cap M) BY <1>2
  <2>3. CASE e \in M
    <3>1. Append(Only(t, M), e) \in Seq(S \cap M) BY <2>2, <2>3
    <3>2. Append(t, e) \in Seq(S) OBVIOUS
    <3> QED BY <2>1, <2>3, <3>1, <3>2
  <2>4. CASE e \notin M
    <3>1. Append(t, e) \in Seq(S) OBVIOUS
    <3> QED BY <2>1, <2>2, <2>4, <3>1
  <2> QED BY <2>3, <2>4
<1> HIDE DEF T
<1>3. Seq(S) \subseteq T BY <1>1, <1>2, SeqInduct
<1> QED BY <1>3 DEF T

LEMMA OnlyNone ==
  ASSUME NEW S, NEW s \in Seq(S), NEW M, S \cap M = {} PROVE Only(s, M) = <<>>
<1>1. Only(s, M) \in Seq({}) BY OnlyRange
<1> QED BY <1>1

LEMMA OnlyConcat ==
  ASSUME NEW S, NEW s \in Seq(S), NEW t \in Seq(S), NEW M
  PROVE  Only(s \o t, M) = Only(s, M) \o Only(t, M)
<1> DEFINE T == {u \in Seq(S) : Only(s \o u, M) = Only(s, M) \o Only(u, M)}
<1>0. Only(s, M) \in Seq(S \cap M) BY OnlyRange
<1>1. <<>> \in T
  <2>1. s \o <<>> = s /\ Only(s, M) \o <<>> = Only(s, M) BY <1>0, ConcatEmptySeq
  <2>2. <<>> \in Seq(S) /\ Only(<<>>, M) = <<>> BY EmptySeq, OnlyEmpty
  <2>3. Only(s \o <<>>, M) = Only(s, M) \o Only(<<>>, M) BY <2>1, <2>2
  <2> QED BY <2>2, <2>3
<1>2. ASSUME NEW u \in Seq(S), NEW e \in S, u \in T PROVE Append(u, e) \in T
  <2>1. s \o Append(u, e) = Append(s \o u, e) /\ s \o u \in Seq(S) OBVIOUS
  <2>2. Only(u, M) \in Seq(S \cap M) BY OnlyRange
  <2>3. Only(Append(s \o u, e), M) = IF e \in M THEN Append(Only(s \o u, M), e) ELSE Only(s \o u, M)
    BY <2>1, OnlyAppend
  <2>4. Only(Append(u, e), M) = IF e \in M THEN Append(Only(u, M), e) ELSE Only(u, M)
    BY OnlyAppend
  <2>5. e \in M => Only(s, M) \o Append(Only(u, M), e) = Append(Only(s, M) \o Only(u, M), e)
    BY <1>0, <2>2
  <2>6. Only(s \o u, M) = Only(s, M) \o Only(u, M) BY <1>2
  <2>7. Only(s \o Append(u, e), M) = Only(s, M) \o Only(Append(u, e), M)
    <3>1. CASE e \in M BY <2>1, <2>3, <2>4, <2>5, <2>6, <3>1
    <3>2. CASE e \notin M BY <2>1, <2>3, <2>4, <2>6, <3>2
    <3> QED BY <3>1, <3>2
  <2>8. Append(u, e) \in Seq(S) OBVIOUS
  <2> QED BY <2>7, <2>8
<1> HIDE DEF T
<1>3. Seq(S) \subseteq T BY <1>1, <1>2, SeqInduct
<1> QED BY <1>3 DEF T

(* Picking does not disturb the elements of M if it leaves none of them out. *)
LEMMA OnlyPicked ==
  ASSUME NEW S, NEW s \in Seq(S), NEW I, NEW M, \A i \in 1..Len(s) : s[i] \in M => i \in I
  PROVE  Only(Picked(s, I), M) = Only(s, M)
<1> DEFINE T == {t \in Seq(S) : (\A i \in 1..Len(t) : t[i] \in M => i \in I) =>
                                  Only(Picked(t, I), M) = Only(t, M)}
<1>1. <<>> \in T
  <2>1. Picked(<<>>, I) = <<>> /\ <<>> \in Seq(S) BY PickedEmpty, EmptySeq
  <2> QED BY <2>1
<1>2. ASSUME NEW t \in Seq(S), NEW e \in S, t \in T PROVE Append(t, e) \in T
  <2> DEFINE u == Append(t, e)
  <2> SUFFICES ASSUME \A i \in 1..Len(u) : u[i] \in M => i \in I
               PROVE  Only(Picked(u, I), M) = Only(u, M)
    <3>1. Append(t, e) \in Seq(S) OBVIOUS
    <3> QED BY <3>1
  <2>1. /\ u \in Seq(S) /\ Len(t) \in Nat /\ Len(u) = Len(t) + 1
        /\ u[Len(t) + 1] = e /\ \A i \in 1..Len(t) : u[i] = t[i]
    OBVIOUS
  <2>2. Picked(u, I) = IF Len(t) + 1 \in I THEN Append(Picked(t, I), e) ELSE Picked(t, I)
    BY PickedAppend
  <2>3. Only(u, M) = IF e \in M THEN Append(Only(t, M), e) ELSE Only(t, M)
    BY OnlyAppend
  <2> HIDE DEF u
  <2>4. (\A i \in 1..Len(t) : t[i] \in M => i \in I) /\ (e \in M => Len(t) + 1 \in I) BY <2>1
  <2>5. Only(Picked(t, I), M) = Only(t, M) BY <1>2, <2>4
  <2>6. Picked(t, I) \in Seq(S) BY PickedRange
  <2>7. Only(Append(Picked(t, I), e), M)
          = IF e \in M THEN Append(Only(Picked(t, I), M), e) ELSE Only(Picked(t, I), M)
    BY <2>6, OnlyAppend
  <2>8. CASE Len(t) + 1 \in I BY <2>2, <2>3, <2>5, <2>7, <2>8
  <2>9. CASE Len(t) + 1 \notin I BY <2>2, <2>3, <2>4, <2>5, <2>9
  <2> QED BY <2>8, <2>9
<1> HIDE DEF T
<1>3. Seq(S) \subseteq T BY <1>1, <1>2, SeqInduct
<1>4. s \in T BY <1>3
<1> QED BY <1>4 DEF T
================================================================================
