------------------------------ MODULE RecallProofs ------------------------------
(***************************************************************************)
(* What is remembered and recalled, for any commands, shells, directories    *)
(* and history files, however records, imports and resets interleave.        *)
(***************************************************************************)
EXTENDS RecallProperties, PicksFacts, FiniteSetTheorems

-----------------------------------------------------------------------------
(* Bags. *)

LEMMA BagPlus ==
  ASSUME NEW S, NEW B, BagOver(B, S), NEW C, BagOver(C, S)
  PROVE  /\ BagOver(B (+) C, S)
         /\ \A o : Copies(o, B (+) C) = Copies(o, B) + Copies(o, C)
<1> DEFINE D == B (+) C
<1>1. D = [e \in DOMAIN B \cup DOMAIN C |->
             (IF e \in DOMAIN B THEN B[e] ELSE 0) + (IF e \in DOMAIN C THEN C[e] ELSE 0)]
  BY DEF (+)
<1>2. /\ \A o \in DOMAIN B : B[o] \in Nat /\ B[o] > 0
      /\ \A o \in DOMAIN C : C[o] \in Nat /\ C[o] > 0
      /\ DOMAIN B \subseteq S /\ DOMAIN C \subseteq S
  BY DEF BagOver, IsABag
<1> HIDE DEF D
<1>3. DOMAIN D = DOMAIN B \cup DOMAIN C /\ \A o \in DOMAIN D : D[o] \in Nat /\ D[o] > 0
  BY <1>1, <1>2
<1>4. D = [o \in DOMAIN D |-> D[o]] BY <1>1
<1>5. BagOver(D, S) BY <1>2, <1>3, <1>4 DEF BagOver, IsABag
<1>6. \A o : Copies(o, D) = Copies(o, B) + Copies(o, C)
  BY <1>1, <1>2, <1>3 DEF Copies, BagIn, BagToSet
<1> QED BY <1>5, <1>6 DEF D

LEMMA CopiesType ==
  ASSUME NEW S, NEW B, BagOver(B, S)
  PROVE  \A o : Copies(o, B) \in Nat /\ (Copies(o, B) > 0 <=> o \in DOMAIN B)
  BY DEF BagOver, IsABag, Copies, BagIn, BagToSet

LEMMA SetBag ==
  ASSUME NEW S, NEW T \in SUBSET S
  PROVE  BagOver(SetToBag(T), S) /\ \A o : Copies(o, SetToBag(T)) = IF o \in T THEN 1 ELSE 0
<1> DEFINE D == SetToBag(T)
<1>1. D = [e \in T |-> 1] BY DEF SetToBag
<1> HIDE DEF D
<1>2. DOMAIN D = T /\ (\A o \in T : D[o] = 1) /\ D = [o \in DOMAIN D |-> D[o]] BY <1>1
<1>3. BagOver(D, S) BY <1>2 DEF BagOver, IsABag
<1>4. \A o : Copies(o, D) = IF o \in T THEN 1 ELSE 0 BY <1>2 DEF Copies, BagIn, BagToSet
<1> QED BY <1>3, <1>4 DEF D

LEMMA EmptyIs == \A S : BagOver(EmptyBag, S) /\ DOMAIN EmptyBag = {} /\ \A o : Copies(o, EmptyBag) = 0
  BY DEF BagOver, IsABag, EmptyBag, SetToBag, Copies, BagIn, BagToSet

(* A tally counts who has seen what. *)
LEMMA TallyIs ==
  ASSUME NEW I, IsFiniteSet(I), NEW S, NEW seen \in [I -> SUBSET S]
  PROVE  /\ BagOver(Tally(seen), S)
         /\ \A o : Copies(o, Tally(seen)) = Cardinality({i \in I : o \in seen[i]})
<1> DEFINE D == Tally(seen)  who(o) == {i \in I : o \in seen[i]}
<1>1. DOMAIN seen = I OBVIOUS
<1>2. D = [o \in UNION {seen[i] : i \in I} |-> Cardinality(who(o))]
  BY <1>1 DEF Tally
<1>3. ASSUME NEW o PROVE /\ Cardinality(who(o)) \in Nat
                         /\ Cardinality(who(o)) > 0 <=> o \in UNION {seen[i] : i \in I}
  <2>1. IsFiniteSet(who(o)) BY FS_Subset
  <2>2. Cardinality(who(o)) \in Nat /\ (Cardinality(who(o)) = 0 <=> who(o) = {})
    BY <2>1, FS_CardinalityType, FS_EmptySet
  <2>3. o \in UNION {seen[i] : i \in I} <=> who(o) # {} OBVIOUS
  <2> HIDE DEF who
  <2> QED BY <2>2, <2>3
<1> HIDE DEF D, who
<1>4. DOMAIN D = UNION {seen[i] : i \in I} /\ \A o \in DOMAIN D : D[o] = Cardinality(who(o))
  BY <1>2
<1>5. DOMAIN D \subseteq S BY <1>4
<1>6. D = [o \in DOMAIN D |-> D[o]] BY <1>2
<1>7. \A o \in DOMAIN D : D[o] \in Nat /\ D[o] > 0 BY <1>3, <1>4
<1>8. BagOver(D, S) BY <1>5, <1>6, <1>7 DEF BagOver, IsABag
<1>9. \A o : Copies(o, D) = Cardinality(who(o))
  <2> TAKE o
  <2>1. Cardinality(who(o)) \in Nat /\ (Cardinality(who(o)) > 0 <=> o \in DOMAIN D) BY <1>3, <1>4
  <2> QED BY <1>4, <2>1 DEF Copies, BagIn, BagToSet
<1> QED BY <1>8, <1>9 DEF D, who

LEMMA MergeIs ==
  ASSUME NEW S, NEW B, BagOver(B, S), NEW C, BagOver(C, S)
  PROVE  /\ BagOver(Merge(B, C), S)
         /\ \A o : Copies(o, Merge(B, C)) =
                     IF Copies(o, B) >= Copies(o, C) THEN Copies(o, B) ELSE Copies(o, C)
<1> DEFINE D == Merge(B, C)
<1>1. D = [o \in DOMAIN B \cup DOMAIN C |->
             IF Copies(o, B) >= Copies(o, C) THEN Copies(o, B) ELSE Copies(o, C)]
  BY DEF Merge
<1>2. \A o : /\ Copies(o, B) \in Nat /\ (Copies(o, B) > 0 <=> o \in DOMAIN B)
             /\ Copies(o, C) \in Nat /\ (Copies(o, C) > 0 <=> o \in DOMAIN C)
  BY CopiesType
<1> HIDE DEF D
<1>3. /\ DOMAIN D = DOMAIN B \cup DOMAIN C
      /\ \A o \in DOMAIN D : D[o] = IF Copies(o, B) >= Copies(o, C) THEN Copies(o, B) ELSE Copies(o, C)
      /\ D = [o \in DOMAIN D |-> D[o]]
  BY <1>1
<1>4. \A o \in DOMAIN D : D[o] \in Nat /\ D[o] > 0 BY <1>2, <1>3
<1>5. DOMAIN D \subseteq S BY <1>3 DEF BagOver
<1>6. BagOver(D, S) BY <1>3, <1>4, <1>5 DEF BagOver, IsABag
<1>7. \A o : Copies(o, D) = IF Copies(o, B) >= Copies(o, C) THEN Copies(o, B) ELSE Copies(o, C)
  <2> TAKE o
  <2>1. CASE o \in DOMAIN D BY <1>3, <2>1 DEF Copies, BagIn, BagToSet
  <2>2. CASE o \notin DOMAIN D
    <3>1. Copies(o, D) = 0 BY <2>2 DEF Copies, BagIn, BagToSet
    <3>2. Copies(o, B) = 0 /\ Copies(o, C) = 0
      BY <1>3, <2>2 DEF Copies, BagIn, BagToSet
    <3> QED BY <3>1, <3>2
  <2> QED BY <2>1, <2>2
<1> QED BY <1>6, <1>7 DEF D

-----------------------------------------------------------------------------
(* Contexts. *)
Templated == Templates \cup {Pad}
Windows == (Raws \cup {Pad}) \X (Raws \cup {Pad})

LEMMA TemplateType == \A r \in Raws \cup {Pad} : Template(r) \in Templated /\ (r # Pad => Template(r) \in Templates)
  BY RecallAssumption DEF Template, Templated

LEMMA TemplatesOfType ==
  ASSUME NEW s \in Seq(Raws \cup {Pad})
  PROVE  /\ TemplatesOf(s) \in Seq(Templated) /\ Len(TemplatesOf(s)) = Len(s)
         /\ \A i \in 1..Len(s) : TemplatesOf(s)[i] = Template(s[i])
<1>1. TemplatesOf(s) = [i \in 1..Len(s) |-> Template(s[i])] BY DEF TemplatesOf
<1>2. \A i \in 1..Len(s) : Template(s[i]) \in Templated BY TemplateType
<1>3. Len(s) \in Nat OBVIOUS
<1> QED BY <1>1, <1>2, <1>3

LEMMA PairTemplates ==
  ASSUME NEW w \in Windows
  PROVE  /\ w \in Seq(Raws \cup {Pad}) /\ Len(w) = 2
         /\ w[1] \in Raws \cup {Pad} /\ w[2] \in Raws \cup {Pad}
         /\ TemplatesOf(w) = <<Template(w[1]), Template(w[2])>>
<1>1. PICK a \in Raws \cup {Pad}, b \in Raws \cup {Pad} : w = <<a, b>> BY DEF Windows
<1>2. w \in Seq(Raws \cup {Pad}) /\ Len(w) = 2 /\ w[1] = a /\ w[2] = b BY <1>1
<1>3. TemplatesOf(w) = <<Template(w[1]), Template(w[2])>>
  <2> DEFINE t == TemplatesOf(w)  u == <<Template(w[1]), Template(w[2])>>
  <2>1. t \in Seq(Templated) /\ Len(t) = 2 /\ \A i \in 1..2 : t[i] = Template(w[i]) BY <1>2, TemplatesOfType
  <2>2. u \in Seq(Templated) /\ Len(u) = 2 /\ u[1] = Template(w[1]) /\ u[2] = Template(w[2])
    BY <1>2, TemplateType
  <2> HIDE DEF t, u
  <2>3. \A i \in 1..2 : t[i] = u[i]
    <3> SUFFICES ASSUME NEW i \in 1..2 PROVE t[i] = u[i] OBVIOUS
    <3>1. i = 1 \/ i = 2 OBVIOUS
    <3> QED BY <2>1, <2>2, <3>1
  <2>4. t = u BY <2>1, <2>2, <2>3, SeqEqual
  <2> QED BY <2>4 DEF t, u
<1> QED BY <1>2, <1>3

LEMMA CutIs ==
  ASSUME NEW r \in Raws \cup {Pad}
  PROVE  /\ Cut(r) \in Seq(Raws \cup {Pad}) /\ Len(Cut(r)) >= 1
         /\ ~HasComma(r) => Cut(r) = <<r>>
<1>1. CASE r = Pad
  BY <1>1 DEF Cut
<1>2. CASE r # Pad
  <2>1. r \in Raws /\ Cut(r) = Pieces[r] BY <1>2 DEF Cut
  <2>2. Pieces[r] \in Seq(Raws) /\ Pieces[r] # <<>> /\ (Len(Pieces[r]) = 1 => Pieces[r] = <<r>>)
    BY <2>1, RecallAssumption
  <2>3. Len(Pieces[r]) \in Nat /\ Len(Pieces[r]) >= 1 /\ Pieces[r] \in Seq(Raws \cup {Pad})
    BY <2>2
  <2>4. ~HasComma(r) => Len(Pieces[r]) = 1
    <3> SUFFICES ASSUME ~HasComma(r) PROVE Len(Pieces[r]) = 1 OBVIOUS
    <3> DEFINE n == Len(Pieces[r])
    <3>1. n \in Nat /\ n >= 1 /\ ~(n > 1) BY <1>2, <2>3 DEF HasComma
    <3> HIDE DEF n
    <3>2. n = 1 BY <3>1
    <3> QED BY <3>2 DEF n
  <2> QED BY <2>1, <2>2, <2>3, <2>4
<1> QED BY <1>1, <1>2

(* The history that a record is about. *)
History(q) == TemplatesOf(SplitState(q.window))
StatesOf(q) == BackoffStates(<<q.cwd>> \o History(q), TRUE)

LEMMA HistoryIs ==
  ASSUME NEW w \in Windows
  PROVE  /\ TemplatesOf(SplitState(w)) \in Seq(Templated) /\ Len(TemplatesOf(SplitState(w))) >= 2
         /\ WithoutComma(w) => TemplatesOf(SplitState(w)) = TemplatesOf(w)
<1>1. w \in Seq(Raws \cup {Pad}) /\ Len(w) = 2 /\ w[1] \in Raws \cup {Pad} /\ w[2] \in Raws \cup {Pad}
  BY PairTemplates
<1> DEFINE c == Cut(w[1])  e == Cut(w[2])
<1>2. c \in Seq(Raws \cup {Pad}) /\ e \in Seq(Raws \cup {Pad}) /\ Len(c) >= 1 /\ Len(e) >= 1
  BY <1>1, CutIs
<1>3. SplitState(w) = c \o e BY DEF SplitState
<1>4. WithoutComma(w) => c = <<w[1]>> /\ e = <<w[2]>>
  <2>1. WithoutComma(w) => ~HasComma(w[1]) /\ ~HasComma(w[2]) BY <1>1 DEF WithoutComma
  <2> QED BY <1>1, <2>1, CutIs
<1> HIDE DEF c, e
<1>5. SplitState(w) \in Seq(Raws \cup {Pad}) /\ Len(SplitState(w)) = Len(c) + Len(e)
  BY <1>2, <1>3
<1>6. Len(SplitState(w)) >= 2 BY <1>2, <1>5
<1>7. WithoutComma(w) => SplitState(w) = w
  <2> SUFFICES ASSUME WithoutComma(w) PROVE SplitState(w) = w OBVIOUS
  <2>1. SplitState(w) = <<w[1]>> \o <<w[2]>> BY <1>3, <1>4
  <2>2. PICK a \in Raws \cup {Pad}, b \in Raws \cup {Pad} : w = <<a, b>> BY DEF Windows
  <2>3. SplitState(w) = <<a>> \o <<b>> BY <2>1, <2>2
  <2>4. /\ SplitState(w) \in Seq(Raws \cup {Pad}) /\ Len(SplitState(w)) = 2
        /\ \A i \in 1..2 : SplitState(w)[i] = IF i <= 1 THEN <<a>>[i] ELSE <<b>>[i - 1]
    <3>1. <<a>> \in Seq(Raws \cup {Pad}) /\ <<b>> \in Seq(Raws \cup {Pad}) /\ Len(<<a>>) = 1 /\ Len(<<b>>) = 1
      OBVIOUS
    <3> QED BY <2>3, <3>1, ConcatProperties
  <2>5. w = <<a, b>> /\ \A i \in 1..2 : SplitState(w)[i] = w[i]
    <3> SUFFICES ASSUME NEW i \in 1..2 PROVE SplitState(w)[i] = w[i] BY <2>2
    <3>1. i = 1 \/ i = 2 OBVIOUS
    <3> QED BY <2>2, <2>4, <3>1
  <2> QED BY <1>1, <2>4, <2>5, SeqEqual
<1> QED BY <1>5, <1>6, <1>7, TemplatesOfType

LEMMA ConsIs ==
  ASSUME NEW S, NEW x \in S, NEW s \in Seq(S), NEW cons, cons = <<x>> \o s
  PROVE  /\ cons \in Seq(S) /\ Len(cons) = Len(s) + 1 /\ cons # <<>>
         /\ Head(cons) = x /\ Tail(cons) = s
<1>1. <<x>> \in Seq(S) /\ Len(<<x>>) = 1 /\ <<x>>[1] = x /\ Len(s) \in Nat OBVIOUS
<1>2. /\ cons \in Seq(S) /\ Len(cons) = Len(s) + 1
      /\ \A i \in 1..(Len(s) + 1) : cons[i] = IF i <= 1 THEN <<x>>[i] ELSE s[i - 1]
  BY <1>1, ConcatProperties
<1>3. cons # <<>> BY <1>1, <1>2
<1>4. Head(cons) = x
  <2>1. Head(cons) = cons[1] BY <1>2, <1>3, HeadTailProperties
  <2> QED BY <1>1, <1>2, <2>1
<1>5. Tail(cons) = s
  <2>1. Tail(cons) \in Seq(S) /\ Len(Tail(cons)) = Len(s) /\ \A i \in 1..Len(s) : Tail(cons)[i] = cons[i + 1]
    BY <1>1, <1>2, <1>3, HeadTailProperties
  <2>2. \A i \in 1..Len(s) : Tail(cons)[i] = s[i]
    <3> SUFFICES ASSUME NEW i \in 1..Len(s) PROVE Tail(cons)[i] = s[i] OBVIOUS
    <3>1. i + 1 \in 1..(Len(s) + 1) /\ ~(i + 1 <= 1) /\ (i + 1) - 1 = i BY <1>1
    <3> QED BY <1>2, <2>1, <3>1
  <2> QED BY <2>1, <2>2, SeqEqual
<1> QED BY <1>2, <1>3, <1>4, <1>5

LEMMA NotDirs == Templated \cap Dirs = {} /\ Pad \notin Dirs
  BY RecallAssumption, ContextsAssumption DEF Templated

(* What a record of a command run in d after t is learned under. *)
LEMMA StatesAre ==
  ASSUME NEW d \in Dirs, NEW t \in Seq(Templated), Len(t) >= 2, NEW state, state = <<d>> \o t
  PROVE  /\ BackoffStates(state, TRUE) = {state} \cup {s \in {t, Tail(t)} : Informative(s)}
         /\ state \in Seq(Element) /\ state # <<>> /\ Head(state) = d /\ Tail(state) = t
         /\ t # <<>> /\ Head(t) \in Templated
         /\ Tail(t) \in Seq(Templated) /\ Tail(t) # <<>> /\ Head(Tail(t)) \in Templated
         /\ Len(Tail(t)) = Len(t) - 1
<1>1. t \in Seq(Element) /\ d \in Element /\ Len(t) \in Nat
  <2>1. Templated \subseteq Element BY DEF Templated, Element
  <2> HIDE DEF Element
  <2> QED BY <2>1 DEF Element
<1>2. state \in Seq(Element) /\ state # <<>> /\ Head(state) = d /\ Tail(state) = t
  BY <1>1, ConsIs
<1>3. t # <<>> /\ Head(t) = t[1] /\ t[1] \in Templated BY <1>1, HeadTailProperties
<1>4. Tail(t) \in Seq(Templated) /\ Len(Tail(t)) = Len(t) - 1 BY <1>1, <1>3, HeadTailProperties
<1> DEFINE rest == Tail(t)
<1> HIDE DEF rest
<1>5. rest \in Seq(Templated) /\ Len(rest) = Len(t) - 1 BY <1>4 DEF rest
<1>6. rest # <<>> BY <1>1, <1>5
<1>7. Head(rest) \in Templated BY <1>5, <1>6, HeadTailProperties
<1>8. BackoffStates(state, TRUE) = {state} \cup {s \in {t, Tail(t)} : Informative(s)}
  <2>1. Len(t) > 1 BY <1>1
  <2>2. BackoffStates(state, TRUE) =
          {state} \cup {s \in {Tail(state)} \cup (IF Len(Tail(state)) > 1 THEN {Tail(Tail(state))} ELSE {}) : Informative(s)}
    BY DEF BackoffStates
  <2>3. {Tail(state)} \cup (IF Len(Tail(state)) > 1 THEN {Tail(Tail(state))} ELSE {}) = {t, Tail(t)}
    BY <1>2, <2>1
  <2> HIDE DEF Informative
  <2> QED BY <2>2, <2>3
<1> QED BY <1>2, <1>3, <1>5, <1>6, <1>7, <1>8 DEF rest

Context(q) == <<q.cwd>> \o History(q)

LEMMA RequestIs ==
  ASSUME NEW q \in Requests
  PROVE  /\ q.cwd \in Dirs /\ q.window \in Windows /\ q.nth \in Nat
         /\ q.next \in Commands /\ q.next \in Raws /\ q.next # Pad
         /\ Template(q.next) \in Templates
         /\ History(q) \in Seq(Templated) /\ Len(History(q)) >= 2
<1>1. q.cwd \in Dirs /\ q.window \in Windows /\ q.next \in Commands /\ q.nth \in Nat
  BY DEF Requests, Windows
<1>2. q.next \in Raws /\ q.next # Pad BY <1>1, RecallAssumption
<1>3. Template(q.next) \in Templates BY <1>2, TemplateType
<1>4. History(q) \in Seq(Templated) /\ Len(History(q)) >= 2 BY <1>1, HistoryIs DEF History
<1> QED BY <1>1, <1>2, <1>3, <1>4

LEMMA StateKinds ==
  ASSUME NEW q \in Requests
  PROVE  /\ IsFiniteSet(StatesOf(q)) /\ StatesOf(q) # {}
         /\ Context(q) \in StatesOf(q)
         /\ Informative(History(q)) => History(q) \in StatesOf(q)
         /\ Informative(Tail(History(q))) => Tail(History(q)) \in StatesOf(q)
         /\ \A k \in StatesOf(q) :
              /\ k \in Seq(Element) /\ k # <<>>
              /\ \/ k = Context(q) /\ Head(k) \in Dirs /\ Tail(k) = History(q)
                 \/ k \in {History(q), Tail(History(q))} /\ Head(k) \notin Dirs /\ Informative(k)
<1> DEFINE t == History(q)  c == Context(q)
<1>1. q.cwd \in Dirs /\ t \in Seq(Templated) /\ Len(t) >= 2 BY RequestIs
<1>2. c = <<q.cwd>> \o t /\ StatesOf(q) = BackoffStates(c, TRUE) BY DEF Context, StatesOf
<1> HIDE DEF t, c
<1>3. /\ StatesOf(q) = {c} \cup {s \in {t, Tail(t)} : Informative(s)}
      /\ c \in Seq(Element) /\ c # <<>> /\ Head(c) = q.cwd /\ Tail(c) = t
      /\ t # <<>> /\ Head(t) \in Templated
      /\ Tail(t) \in Seq(Templated) /\ Tail(t) # <<>> /\ Head(Tail(t)) \in Templated
  <2> DEFINE d == q.cwd
  <2>1. d \in Dirs /\ t \in Seq(Templated) /\ Len(t) >= 2 /\ c = <<d>> \o t BY <1>1, <1>2
  <2> HIDE DEF d
  <2>2. /\ BackoffStates(c, TRUE) = {c} \cup {s \in {t, Tail(t)} : Informative(s)}
        /\ c \in Seq(Element) /\ c # <<>> /\ Head(c) = d /\ Tail(c) = t
        /\ t # <<>> /\ Head(t) \in Templated
        /\ Tail(t) \in Seq(Templated) /\ Tail(t) # <<>> /\ Head(Tail(t)) \in Templated
    BY <2>1, StatesAre
  <2> HIDE DEF Informative
  <2> QED BY <1>2, <2>2 DEF d
<1> DEFINE rest == Tail(t)
<1>4. t \in Seq(Element) /\ rest \in Seq(Element)
  <2>1. Templated \subseteq Element BY DEF Templated, Element
  <2> HIDE DEF rest, Element, Templated
  <2>2. rest \in Seq(Templated) BY <1>3 DEF rest
  <2> QED BY <1>1, <2>1, <2>2
<1>5. Head(t) \notin Dirs /\ Head(rest) \notin Dirs BY <1>3, NotDirs
<1> HIDE DEF rest
<1>6. IsFiniteSet(StatesOf(q))
  <2>1. IsFiniteSet({c} \cup {t} \cup {rest})
    BY FS_Singleton, FS_Union
  <2>2. StatesOf(q) \subseteq {c} \cup {t} \cup {rest} BY <1>3 DEF rest
  <2> QED BY <2>1, <2>2, FS_Subset
<1> HIDE DEF Informative
<1>7. ASSUME NEW k \in StatesOf(q)
      PROVE  /\ k \in Seq(Element) /\ k # <<>>
             /\ \/ k = c /\ Head(k) \in Dirs /\ Tail(k) = t
                \/ k \in {t, rest} /\ Head(k) \notin Dirs /\ Informative(k)
  <2>1. k = c \/ (k \in {t, rest} /\ Informative(k)) BY <1>3 DEF rest
  <2>2. rest # <<>> BY <1>3 DEF rest
  <2> QED BY <1>1, <1>3, <1>4, <1>5, <2>1, <2>2
<1> QED BY <1>3, <1>6, <1>7 DEF t, c, rest

(* Without a comma it is the two commands as they were run. *)
LEMMA PlainHistory ==
  ASSUME NEW q \in Requests, WithoutComma(q.window)
  PROVE  /\ History(q) = TemplatesOf(q.window)
         /\ History(q) = <<Template(q.window[1]), Template(q.window[2])>>
         /\ Tail(History(q)) = <<Template(q.window[2])>>
<1>1. q.window \in Windows BY RequestIs
<1>2. History(q) = TemplatesOf(q.window) BY <1>1, HistoryIs DEF History
<1>3. History(q) = <<Template(q.window[1]), Template(q.window[2])>> BY <1>1, <1>2, PairTemplates
<1> QED BY <1>2, <1>3

(* What the import learns the i-th command of a history under. *)
LEMMA SeedKinds ==
  ASSUME NEW h \in Seq(Commands), NEW i \in DOMAIN h
  PROVE  /\ h[i] \in Raws /\ Template(h[i]) \in Templates
         /\ \E a, b \in Templated :
              /\ Before(h, i) = <<a, b>>
              /\ b # Pad => (\E j \in DOMAIN h : b = Template(h[j]))
              /\ States(h, i) = {<<a, b>>} \cup (IF b = Pad THEN {} ELSE {<<b>>})
         /\ \A k \in States(h, i) : k \in Seq(Templated) /\ k \in Seq(Element) /\ k # <<>> /\ Head(k) \notin Dirs
         /\ IsFiniteSet(States(h, i))
<1>1. Len(h) \in Nat /\ DOMAIN h = 1..Len(h) /\ \A j \in DOMAIN h : h[j] \in Raws /\ h[j] # Pad
  <2>1. \A j \in DOMAIN h : h[j] \in Commands BY ElementOfSeq
  <2>2. Commands \subseteq Raws /\ Pad \notin Raws BY RecallAssumption
  <2> QED BY <2>1, <2>2
<1>2. \A j \in DOMAIN h : Template(h[j]) \in Templates BY <1>1, TemplateType
<1> DEFINE a == IF i > 2 THEN Template(h[i - 2]) ELSE Pad
           b == IF i > 1 THEN Template(h[i - 1]) ELSE Pad
<1>3. a \in Templated
  <2>1. i > 2 => i - 2 \in DOMAIN h BY <1>1
  <2> QED BY <1>2, <2>1 DEF Templated
<1>4. b \in Templated /\ (b # Pad => \E j \in DOMAIN h : b = Template(h[j]))
  <2>1. i > 1 => i - 1 \in DOMAIN h BY <1>1
  <2> QED BY <1>2, <2>1 DEF Templated
<1>5. Before(h, i) = <<a, b>> BY DEF Before
<1> HIDE DEF a, b
<1>6. Tail(<<a, b>>) = <<b>> /\ Len(<<a, b>>) = 2 OBVIOUS
<1>7. Informative(<<b>>) <=> b # Pad BY DEF Informative
<1>8. b # Pad => Informative(<<a, b>>)
  <2>1. <<a, b>>[2] = b /\ 2 \in DOMAIN <<a, b>> OBVIOUS
  <2> QED BY <2>1 DEF Informative
<1>9. States(h, i) = {<<a, b>>} \cup (IF b = Pad THEN {} ELSE {<<b>>})
  <2>1. States(h, i) = {<<a, b>>} \cup {s \in {<<a, b>>, <<b>>} : Informative(s)}
    BY <1>5, <1>6 DEF States, BackoffStates
  <2> HIDE DEF Informative
  <2> QED BY <1>7, <2>1
<1>10. <<a, b>> \in Seq(Templated) /\ <<b>> \in Seq(Templated) BY <1>3, <1>4
<1>11. Head(<<a, b>>) \notin Dirs /\ Head(<<b>>) \notin Dirs BY <1>3, <1>4, NotDirs
<1>12. \A k \in Seq(Templated) : k \in Seq(Element)
  <2>1. Templated \subseteq Element BY DEF Templated, Element
  <2> HIDE DEF Templated, Element
  <2> QED BY <2>1
<1>13. \A k \in States(h, i) : k \in Seq(Templated) /\ k \in Seq(Element) /\ k # <<>> /\ Head(k) \notin Dirs
  <2> TAKE k \in States(h, i)
  <2>1. k = <<a, b>> \/ k = <<b>> BY <1>9
  <2>2. CASE k = <<a, b>>
    <3>1. k \in Seq(Templated) /\ k # <<>> BY <1>10, <2>2
    <3> QED BY <1>11, <1>12, <2>2, <3>1
  <2>3. CASE k = <<b>>
    <3>1. k \in Seq(Templated) /\ k # <<>> BY <1>10, <2>3
    <3> QED BY <1>11, <1>12, <2>3, <3>1
  <2> QED BY <2>1, <2>2, <2>3
<1>14. IsFiniteSet(States(h, i))
  <2>1. IsFiniteSet({<<a, b>>} \cup {<<b>>}) BY FS_Singleton, FS_Union
  <2> QED BY <1>9, <2>1, FS_Subset
<1> QED BY <1>1, <1>2, <1>3, <1>4, <1>5, <1>9, <1>13, <1>14

-----------------------------------------------------------------------------
(* What a record and an import add to the graph and to the raw examples. *)
Observed == [key : Seq(Element), next : Templates]
Exampled == [key : Seq(Element \ {Pad}), next : Templates, raw : Raws]

LEMMA NonEmptyType == ASSUME NEW s \in Seq(Element) PROVE NonEmpty(s) \in Seq(Element \ {Pad})
<1> DEFINE I == {i \in DOMAIN s : s[i] # Pad}  p == Picked(s, I)
<1>1. /\ p \in Seq(Element)
      /\ \A j \in 1..Len(p) : \E i \in 1..Len(s) : i \in I /\ p[j] = s[i]
  <2> HIDE DEF I
  <2> QED BY PickedRange
<1>2. \A i \in I : s[i] # Pad OBVIOUS
<1> HIDE DEF I, p
<1>3. \A j \in 1..Len(p) : p[j] \in Element \ {Pad} BY <1>1, <1>2, ElementOfSeq
<1>4. p \in Seq(Element \ {Pad}) BY <1>1, <1>3, SeqDef
<1> QED BY <1>4 DEF NonEmpty, I, p

LEMMA ObserveIs ==
  ASSUME NEW B, BagOver(B, Observed), NEW states \in SUBSET Seq(Element), NEW n \in Templates
  PROVE  /\ BagOver(Observe(B, states, n), Observed)
         /\ \A k, m : Copies([key |-> k, next |-> m], Observe(B, states, n)) =
                        Copies([key |-> k, next |-> m], B) + (IF m = n /\ k \in states THEN 1 ELSE 0)
<1> DEFINE T == {[key |-> s, next |-> n] : s \in states}
<1>1. T \in SUBSET Observed BY DEF Observed
<1>2. \A k, m : [key |-> k, next |-> m] \in T <=> (m = n /\ k \in states) OBVIOUS
<1>3. Observe(B, states, n) = B (+) SetToBag(T) BY DEF Observe
<1> HIDE DEF T
<1>4. BagOver(SetToBag(T), Observed) /\ \A o : Copies(o, SetToBag(T)) = IF o \in T THEN 1 ELSE 0
  BY <1>1, SetBag
<1>5. /\ BagOver(B (+) SetToBag(T), Observed)
      /\ \A o : Copies(o, B (+) SetToBag(T)) = Copies(o, B) + Copies(o, SetToBag(T))
  BY <1>4, BagPlus
<1> QED BY <1>2, <1>3, <1>4, <1>5

LEMMA RecordAdds ==
  ASSUME BagOver(graph, Observed), BagOver(raws, Exampled), NEW q \in Requests,
         Recorded(q, <<q.cwd>> \o TemplatesOf(SplitState(q.window)))
  PROVE  /\ BagOver(graph', Observed) /\ BagOver(raws', Exampled)
         /\ \A k, n : Count(k, n)' = Count(k, n) + (IF n = Template(q.next) /\ k \in StatesOf(q) THEN 1 ELSE 0)
         /\ \A o : Copies(o, raws') >= Copies(o, raws)
         /\ \A s \in StatesOf(q) :
              Copies([key |-> NonEmpty(s), next |-> Template(q.next), raw |-> q.next], raws') > 0
<1> DEFINE states == StatesOf(q)  m == Template(q.next)
           seen == [s \in states |-> {[key |-> RawKey(s), next |-> m, raw |-> q.next]}]
<1>1. BackoffStates(<<q.cwd>> \o TemplatesOf(SplitState(q.window)), TRUE) = states
  BY DEF StatesOf, History
<1>2. graph' = Observe(graph, states, m) /\ raws' = raws (+) Tally(seen)
  BY <1>1 DEF Recorded
<1>3. /\ IsFiniteSet(states) /\ m \in Templates /\ q.next \in Raws
      /\ \A k \in states : k \in Seq(Element) /\ k # <<>>
  BY StateKinds, RequestIs
<1> HIDE DEF states, m
<1>4. /\ BagOver(graph', Observed)
      /\ \A k, n : Count(k, n)' = Count(k, n) + (IF n = m /\ k \in states THEN 1 ELSE 0)
  <2>1. states \in SUBSET Seq(Element) BY <1>3
  <2> QED BY <1>2, <1>3, <2>1, ObserveIs DEF Count
<1>5. seen \in [states -> SUBSET Exampled]
  <2>1. \A s \in states : RawKey(s) \in Seq(Element \ {Pad}) BY <1>3, NonEmptyType DEF RawKey
  <2>2. \A s \in states : [key |-> RawKey(s), next |-> m, raw |-> q.next] \in Exampled
    BY <1>3, <2>1 DEF Exampled
  <2> QED BY <2>2
<1>6. \A s \in states : [key |-> NonEmpty(s), next |-> m, raw |-> q.next] \in seen[s] BY DEF RawKey
<1> HIDE DEF seen
<1>7. /\ BagOver(Tally(seen), Exampled)
      /\ \A o : Copies(o, Tally(seen)) = Cardinality({i \in states : o \in seen[i]})
  <2>1. IsFiniteSet(states) BY <1>3
  <2> HIDE DEF Exampled
  <2> QED BY <2>1, <1>5, TallyIs
<1>8. /\ BagOver(raws', Exampled)
      /\ \A o : Copies(o, raws') = Copies(o, raws) + Copies(o, Tally(seen))
  BY <1>2, <1>7, BagPlus
<1>9. \A o : Copies(o, raws) \in Nat /\ Copies(o, Tally(seen)) \in Nat BY <1>7, CopiesType
<1>10. \A o : Copies(o, raws') >= Copies(o, raws)
  <2> TAKE o
  <2>1. /\ Copies(o, raws') = Copies(o, raws) + Copies(o, Tally(seen))
        /\ Copies(o, raws) \in Nat /\ Copies(o, Tally(seen)) \in Nat
    BY <1>8, <1>9
  <2> QED BY <2>1
<1>11. ASSUME NEW s \in states
       PROVE  Copies([key |-> NonEmpty(s), next |-> m, raw |-> q.next], raws') > 0
  <2> DEFINE o == [key |-> NonEmpty(s), next |-> m, raw |-> q.next]  who == {i \in states : o \in seen[i]}
  <2>1. s \in who BY <1>6
  <2>2. IsFiniteSet(who) BY <1>3, FS_Subset
  <2>3. Copies(o, Tally(seen)) = Cardinality(who) BY <1>7
  <2> HIDE DEF o, who
  <2>4. Cardinality(who) \in Nat /\ Cardinality(who) # 0 BY <2>1, <2>2, FS_CardinalityType, FS_EmptySet
  <2>5. Copies(o, raws') = Copies(o, raws) + Copies(o, Tally(seen)) /\ Copies(o, raws) \in Nat
    BY <1>8, <1>9
  <2>6. Copies(o, raws') > 0 BY <2>3, <2>4, <2>5
  <2> QED BY <2>6 DEF o
<1> QED BY <1>4, <1>8, <1>10, <1>11 DEF states, m

Seen(h, k, n) == {i \in DOMAIN h : n = Template(h[i]) /\ k \in States(h, i)}

LEMMA ImportAdds ==
  ASSUME NEW h \in Seq(Commands)
  PROVE  /\ BagOver(Seed(h), Observed) /\ BagOver(RawMappings(h), Exampled)
         /\ \A k, n : /\ IsFiniteSet(Seen(h, k, n))
                      /\ Copies([key |-> k, next |-> n], Seed(h)) = Cardinality(Seen(h, k, n))
         /\ \A i \in DOMAIN h : \A s \in States(h, i) :
              Copies([key |-> NonEmpty(s), next |-> Template(h[i]), raw |-> h[i]], RawMappings(h)) > 0
<1> DEFINE I == DOMAIN h
           seed == [i \in DOMAIN h |-> {[key |-> s, next |-> Template(h[i])] : s \in States(h, i)}]
           ex(i, s) == [key |-> NonEmpty(s), next |-> Template(h[i]), raw |-> h[i]]
           maps == [i \in DOMAIN h |->
                     {[key |-> NonEmpty(s), next |-> Template(h[i]), raw |-> h[i]] : s \in States(h, i)}]
<1>1. IsFiniteSet(I)
  <2>1. I = 1..Len(h) /\ Len(h) \in Nat OBVIOUS
  <2> QED BY <2>1, FS_Interval
<1>2. \A i \in I : /\ h[i] \in Raws /\ Template(h[i]) \in Templates
                   /\ \A k \in States(h, i) : k \in Seq(Element)
  BY SeedKinds
<1>3. seed \in [I -> SUBSET Observed]
  <2>1. \A i \in I : \A s \in States(h, i) : [key |-> s, next |-> Template(h[i])] \in Observed
    BY <1>2 DEF Observed
  <2> QED BY <2>1
<1>4. maps \in [I -> SUBSET Exampled]
  <2>1. \A i \in I : \A s \in States(h, i) :
          [key |-> NonEmpty(s), next |-> Template(h[i]), raw |-> h[i]] \in Exampled
    BY <1>2, NonEmptyType DEF Exampled
  <2> QED BY <2>1
<1>5. \A k, n : \A i \in I : [key |-> k, next |-> n] \in seed[i] <=> n = Template(h[i]) /\ k \in States(h, i)
  OBVIOUS
<1>6. \A i \in I : \A s \in States(h, i) : ex(i, s) \in maps[i] OBVIOUS
<1>7. Seed(h) = Tally(seed) /\ RawMappings(h) = Tally(maps) BY DEF Seed, RawMappings
<1> HIDE DEF seed, maps
<1>8. /\ BagOver(Seed(h), Observed)
      /\ \A o : Copies(o, Seed(h)) = Cardinality({i \in I : o \in seed[i]})
  BY <1>1, <1>3, <1>7, TallyIs
<1>9. /\ BagOver(RawMappings(h), Exampled)
      /\ \A o : Copies(o, RawMappings(h)) = Cardinality({i \in I : o \in maps[i]})
  BY <1>1, <1>4, <1>7, TallyIs
<1>10. ASSUME NEW k, NEW n
       PROVE  /\ IsFiniteSet(Seen(h, k, n))
              /\ Copies([key |-> k, next |-> n], Seed(h)) = Cardinality(Seen(h, k, n))
  <2>1. Seen(h, k, n) = {i \in I : [key |-> k, next |-> n] \in seed[i]} BY <1>5 DEF Seen
  <2>2. IsFiniteSet(Seen(h, k, n)) BY <1>1, <2>1, FS_Subset
  <2> QED BY <1>8, <2>1, <2>2
<1>11. ASSUME NEW i \in I, NEW s \in States(h, i) PROVE Copies(ex(i, s), RawMappings(h)) > 0
  <2> DEFINE who == {j \in I : ex(i, s) \in maps[j]}
  <2>1. i \in who BY <1>6
  <2>2. IsFiniteSet(who) BY <1>1, FS_Subset
  <2>3. Copies(ex(i, s), RawMappings(h)) = Cardinality(who) BY <1>9
  <2> HIDE DEF who
  <2>4. Cardinality(who) \in Nat /\ Cardinality(who) # 0 BY <2>1, <2>2, FS_CardinalityType, FS_EmptySet
  <2> QED BY <2>3, <2>4
<1> QED BY <1>8, <1>9, <1>10, <1>11

-----------------------------------------------------------------------------
(* Types. *)

LEMMA TypeBags ==
  TypeOK => /\ BagOver(graph, Observed) /\ BagOver(raws, Exampled) /\ BagOver(examples, Exampled)
            /\ \A q \in sent \cup learned \cup overtaken : q \in Requests
            /\ file \in Seq(Commands)
            /\ \A sh \in Shells : dir[sh] \in Dirs /\ prev[sh] \in Windows
  BY DEF TypeOK, Observed, Exampled, Windows

LEMMA UseType ==
  ASSUME used \in [Bounds -> Nat], NEW b, NEW max, Use(b, max)
  PROVE  used' \in [Bounds -> Nat]
<1>1. used' = [used EXCEPT ![b] = @ + 1] BY DEF Use
<1>2. \A c \in Bounds : used[c] \in Nat /\ used[c] + 1 \in Nat OBVIOUS
<1> QED BY <1>1, <1>2

LEMMA InitType == Init => TypeOK
<1> SUFFICES ASSUME Init PROVE TypeOK OBVIOUS
<1>1. prev \in [Shells -> (Raws \cup {Pad}) \X (Raws \cup {Pad})] BY DEF Init
<1>2. file \in Seq(Commands) BY RecallAssumption DEF Init
<1>3. dir \in [Shells -> Dirs] /\ used \in [Bounds -> Nat] BY DEF Init
<1>4. \A S : BagOver(graph, S) /\ BagOver(raws, S) /\ BagOver(examples, S) BY EmptyIs DEF Init
<1>5. sent \cup learned \cup overtaken \subseteq Requests /\ partial \in BOOLEAN BY DEF Init
<1> HIDE DEF Element
<1> QED BY <1>1, <1>2, <1>3, <1>4, <1>5 DEF TypeOK

LEMMA RunIs ==
  ASSUME TypeOK, NEW sh \in Shells, NEW r \in Commands, Run(sh, r)
  PROVE  LET q == [nth |-> Len(file) + 1, from |-> dir[sh], cwd |-> dir'[sh], window |-> prev[sh], next |-> r]
         IN  /\ q \in Requests /\ sent' = sent \cup {q}
             /\ dir' \in [Shells -> Dirs]
             /\ prev' = [prev EXCEPT ![sh] = <<prev[sh][2], r>>]
             /\ prev' \in [Shells -> (Raws \cup {Pad}) \X (Raws \cup {Pad})]
             /\ file' = Append(file, r) /\ file' \in Seq(Commands)
             /\ used' \in [Bounds -> Nat]
             /\ UNCHANGED <<graph, raws, examples, past>>
<1> DEFINE q == [nth |-> Len(file) + 1, from |-> dir[sh], cwd |-> dir'[sh], window |-> prev[sh], next |-> r]
<1>1. /\ dir \in [Shells -> Dirs] /\ prev \in [Shells -> (Raws \cup {Pad}) \X (Raws \cup {Pad})]
      /\ file \in Seq(Commands) /\ used \in [Bounds -> Nat]
  BY DEF TypeOK
<1>2. /\ dir' = [dir EXCEPT ![sh] = Goes[r][@]] /\ prev' = [prev EXCEPT ![sh] = <<@[2], r>>]
      /\ file' = Append(file, r) /\ Use("runs", MaxRuns)
      /\ sent' = sent \cup {q} /\ UNCHANGED <<graph, raws, examples, past>>
  BY DEF Run
<1>3. r \in Raws BY RecallAssumption
<1>4. dir' \in [Shells -> Dirs] BY <1>1, <1>2, <1>3, RecallAssumption
<1>5. prev[sh] \in (Raws \cup {Pad}) \X (Raws \cup {Pad}) BY <1>1
<1>6. <<prev[sh][2], r>> \in (Raws \cup {Pad}) \X (Raws \cup {Pad}) BY <1>3, <1>5
<1>7. prev' = [prev EXCEPT ![sh] = <<prev[sh][2], r>>] BY <1>2
<1>8. prev' \in [Shells -> (Raws \cup {Pad}) \X (Raws \cup {Pad})] BY <1>1, <1>6, <1>7
<1>9. Len(file) + 1 \in Nat /\ dir[sh] \in Dirs /\ dir'[sh] \in Dirs BY <1>1, <1>4
<1>10. q \in Requests BY <1>5, <1>9 DEF Requests
<1>11. file' \in Seq(Commands) BY <1>1, <1>2
<1>12. used' \in [Bounds -> Nat] BY <1>1, <1>2, UseType
<1> QED BY <1>2, <1>4, <1>7, <1>8, <1>10, <1>11, <1>12

LEMMA StepType == TypeOK /\ [Next]_vars => TypeOK'
<1> SUFFICES ASSUME TypeOK, [Next]_vars PROVE TypeOK'
  OBVIOUS
<1> DEFINE Bagged == BagOver(graph, Observed) /\ BagOver(raws, Exampled) /\ BagOver(examples, Exampled)
           Kept == /\ dir \in [Shells -> Dirs]
                   /\ prev \in [Shells -> (Raws \cup {Pad}) \X (Raws \cup {Pad})]
                   /\ file \in Seq(Commands)
                   /\ sent \cup learned \cup overtaken \subseteq Requests /\ partial \in BOOLEAN
                   /\ used \in [Bounds -> Nat]
<1>1. Bagged /\ Kept BY TypeBags DEF TypeOK
<1>2. TypeOK' <=> Bagged' /\ Kept' BY DEF TypeOK, Observed, Exampled
<1> SUFFICES Bagged' /\ Kept'
  <2> HIDE DEF Bagged, Kept
  <2> QED BY <1>2
<1>3. ASSUME NEW sh \in Shells, Open(sh) PROVE Bagged' /\ Kept'
  <2>1. used' \in [Bounds -> Nat] BY <1>1, <1>3, UseType DEF Open
  <2>2. UNCHANGED <<file, sent, graph, raws, examples, past>> BY <1>3 DEF Open
  <2>3. dir' \in [Shells -> Dirs] /\ prev' \in [Shells -> (Raws \cup {Pad}) \X (Raws \cup {Pad})]
    BY <1>1, <1>3 DEF Open
  <2>4. Bagged' BY <1>1, <2>2
  <2>5. Kept' BY <1>1, <2>1, <2>2, <2>3 DEF past
  <2> QED BY <2>4, <2>5
<1>4. ASSUME NEW sh \in Shells, NEW r \in Commands, Run(sh, r) PROVE Bagged' /\ Kept'
  <2>1. UNCHANGED <<graph, raws, examples, past>> BY <1>4 DEF Run
  <2>2. Bagged' BY <1>1, <2>1
  <2>3. sent' \subseteq Requests BY <1>1, <1>4, RunIs
  <2>4. /\ dir' \in [Shells -> Dirs] /\ file' \in Seq(Commands) /\ used' \in [Bounds -> Nat]
        /\ prev' \in [Shells -> (Raws \cup {Pad}) \X (Raws \cup {Pad})]
    BY <1>4, RunIs
  <2>5. Kept' BY <1>1, <2>1, <2>3, <2>4 DEF past
  <2> QED BY <2>2, <2>5
<1>5. ASSUME NEW q \in sent, Deliver(q) PROVE Bagged' /\ Kept'
  <2>1. /\ Recorded(q, <<q.cwd>> \o TemplatesOf(SplitState(q.window)))
        /\ sent' = sent \ {q} /\ learned' = learned \cup {q}
        /\ UNCHANGED <<shell, file, examples, overtaken, partial, used>>
    BY <1>5 DEF Deliver
  <2>2. q \in Requests BY <1>1
  <2>3. Bagged' BY <1>1, <2>1, <2>2, RecordAdds
  <2>4. Kept' BY <1>1, <2>1, <2>2 DEF shell
  <2> QED BY <2>3, <2>4
<1>6. ASSUME NEW q \in sent, Lose(q) PROVE Bagged' /\ Kept'
  <2>1. /\ Use("others", MaxOthers) /\ sent' = sent \ {q}
        /\ UNCHANGED <<shell, file, graph, raws, examples, past>>
    BY <1>6 DEF Lose
  <2>2. used' \in [Bounds -> Nat] BY <1>1, <2>1, UseType
  <2>3. Bagged' BY <1>1, <2>1
  <2>4. Kept' BY <1>1, <2>1, <2>2 DEF shell, past
  <2> QED BY <2>3, <2>4
<1>7. CASE ImportSeed
  <2>1. /\ Use("imports", MaxImports)
        /\ graph' = Merge(graph, Seed(file)) /\ examples' = RawMappings(file)
        /\ overtaken' = overtaken \cup sent /\ partial' = TRUE
        /\ UNCHANGED <<shell, file, sent, raws, learned>>
    BY <1>7 DEF ImportSeed
  <2>2. used' \in [Bounds -> Nat] BY <1>1, <2>1, UseType
  <2>3. BagOver(Seed(file), Observed) /\ BagOver(RawMappings(file), Exampled) BY <1>1, ImportAdds
  <2>4. BagOver(Merge(graph, Seed(file)), Observed) BY <1>1, <2>3, MergeIs
  <2>5. Bagged' BY <1>1, <2>1, <2>3, <2>4
  <2>6. Kept' BY <1>1, <2>1, <2>2 DEF shell
  <2> QED BY <2>5, <2>6
<1>8. CASE ImportRaws
  <2>1. /\ examples' = EmptyBag /\ raws' = raws (+) examples /\ partial' = FALSE
        /\ UNCHANGED <<shell, file, sent, graph, learned, overtaken, used>>
    BY <1>8 DEF ImportRaws
  <2>2. BagOver(raws (+) examples, Exampled) BY <1>1, BagPlus
  <2>3. BagOver(EmptyBag, Exampled) BY EmptyIs
  <2>4. Bagged' BY <1>1, <2>1, <2>2, <2>3
  <2>5. Kept' BY <1>1, <2>1 DEF shell
  <2> QED BY <2>4, <2>5
<1>9. CASE ImportDies
  <2>1. examples' = EmptyBag /\ UNCHANGED <<shell, file, sent, graph, raws, past, used>>
    BY <1>9 DEF ImportDies
  <2>2. BagOver(EmptyBag, Exampled) BY EmptyIs
  <2>3. Bagged' BY <1>1, <2>1, <2>2
  <2>4. Kept' BY <1>1, <2>1 DEF shell, past
  <2> QED BY <2>3, <2>4
<1>10. CASE Reset
  <2>1. /\ Use("others", MaxOthers)
        /\ graph' = EmptyBag /\ raws' = EmptyBag /\ learned' = {} /\ partial' = FALSE
        /\ UNCHANGED <<shell, file, sent, examples, overtaken>>
    BY <1>10 DEF Reset
  <2>2. used' \in [Bounds -> Nat] BY <1>1, <2>1, UseType
  <2>3. BagOver(EmptyBag, Exampled) /\ BagOver(EmptyBag, Observed) BY EmptyIs
  <2>4. Bagged' BY <1>1, <2>1, <2>3
  <2>5. Kept' BY <1>1, <2>1, <2>2 DEF shell
  <2> QED BY <2>4, <2>5
<1>11. CASE UNCHANGED vars
  <2>1. Bagged' BY <1>1, <1>11 DEF vars
  <2>2. Kept' BY <1>1, <1>11 DEF vars, shell, past
  <2> QED BY <2>1, <2>2
<1> HIDE DEF Bagged, Kept
<1> QED BY <1>3, <1>4, <1>5, <1>6, <1>7, <1>8, <1>9, <1>10, <1>11 DEF Next

(* Every variable keeps its type, and no raw example is stored under padding,
   whatever is run, recorded, lost, imported and reset. *)
THEOREM TypeTheorem == Spec => []TypeOK
<1>1. Init => TypeOK BY InitType
<1>2. TypeOK /\ [Next]_vars => TypeOK' BY StepType
<1> QED BY <1>1, <1>2, PTL DEF Spec

-----------------------------------------------------------------------------
(* What each step does to what is counted. *)

LEMMA CountType ==
  ASSUME TypeOK
  PROVE  \A k, n : /\ Count(k, n) \in Nat
                   /\ Count(k, n) > 0 <=> [key |-> k, next |-> n] \in DOMAIN graph
  BY TypeBags, CopiesType DEF Count

LEMMA CountSteps ==
  ASSUME TypeOK, [Next]_vars
  PROVE  /\ \A q \in sent : Deliver(q) =>
              /\ q \in Requests
              /\ \A k, n : Count(k, n)' = Count(k, n) + (IF n = Template(q.next) /\ k \in StatesOf(q) THEN 1 ELSE 0)
         /\ ImportSeed =>
              \A k, n : Count(k, n)' = IF Count(k, n) >= Cardinality(Seen(file, k, n))
                                      THEN Count(k, n) ELSE Cardinality(Seen(file, k, n))
         /\ Reset => \A k, n : Count(k, n)' = 0
         /\ (\E q \in sent : Deliver(q)) \/ ImportSeed \/ Reset \/ \A k, n : Count(k, n)' = Count(k, n)
<1>1. BagOver(graph, Observed) /\ BagOver(raws, Exampled) /\ file \in Seq(Commands) BY TypeBags
<1>2. ASSUME NEW q \in sent, Deliver(q)
      PROVE  /\ q \in Requests
             /\ \A k, n : Count(k, n)' = Count(k, n) + (IF n = Template(q.next) /\ k \in StatesOf(q) THEN 1 ELSE 0)
  <2>1. q \in Requests BY TypeBags
  <2>2. Recorded(q, <<q.cwd>> \o TemplatesOf(SplitState(q.window))) BY <1>2 DEF Deliver
  <2> QED BY <1>1, <2>1, <2>2, RecordAdds
<1>3. ASSUME ImportSeed
      PROVE  \A k, n : Count(k, n)' = IF Count(k, n) >= Cardinality(Seen(file, k, n))
                                     THEN Count(k, n) ELSE Cardinality(Seen(file, k, n))
  <2>1. graph' = Merge(graph, Seed(file)) BY <1>3 DEF ImportSeed
  <2>2. BagOver(Seed(file), Observed) BY <1>1, ImportAdds
  <2>3. \A o : Copies(o, Merge(graph, Seed(file))) =
                 IF Copies(o, graph) >= Copies(o, Seed(file)) THEN Copies(o, graph) ELSE Copies(o, Seed(file))
    BY <1>1, <2>2, MergeIs
  <2>4. \A k, n : Copies([key |-> k, next |-> n], Seed(file)) = Cardinality(Seen(file, k, n))
    BY <1>1, ImportAdds
  <2>5. \A k, n : Count(k, n)' = IF Count(k, n) >= Cardinality(Seen(file, k, n))
                                 THEN Count(k, n) ELSE Cardinality(Seen(file, k, n))
    BY <2>1, <2>3, <2>4 DEF Count
  <2> QED BY <2>5
<1>4. ASSUME Reset PROVE \A k, n : Count(k, n)' = 0
  <2>1. graph' = EmptyBag BY <1>4 DEF Reset
  <2>2. \A k, n : Count(k, n)' = 0 BY <2>1, EmptyIs DEF Count
  <2> QED BY <2>2
<1>5. ASSUME UNCHANGED graph PROVE \A k, n : Count(k, n)' = Count(k, n)
  BY <1>5 DEF Count
<1>6. ASSUME NEW sh \in Shells, Open(sh) \/ \E r \in Commands : Run(sh, r) PROVE UNCHANGED graph
  BY <1>6 DEF Open, Run
<1>7. ASSUME NEW q \in sent, Lose(q) PROVE UNCHANGED graph
  BY <1>7 DEF Lose
<1>8. ImportRaws \/ ImportDies \/ UNCHANGED vars => UNCHANGED graph
  BY DEF ImportRaws, ImportDies, vars
<1>9. \/ \E sh \in Shells : Open(sh) \/ \E r \in Commands : Run(sh, r)
      \/ \E q \in sent : Deliver(q) \/ Lose(q)
      \/ ImportSeed \/ ImportRaws \/ ImportDies \/ Reset \/ UNCHANGED vars
  BY DEF Next
<1> QED BY <1>2, <1>3, <1>4, <1>5, <1>6, <1>7, <1>8, <1>9

(* The file grows only at its end; and it is what an import reads. *)
LEMMA FileSteps ==
  ASSUME TypeOK, [Next]_vars
  PROVE  /\ Len(file) \in Nat /\ DOMAIN file \subseteq DOMAIN file'
         /\ \A i \in DOMAIN file : file'[i] = file[i]
         /\ ~(\E sh \in Shells : \E r \in Commands : Run(sh, r)) => UNCHANGED file
<1>1. file \in Seq(Commands) BY TypeBags
<1>2. ASSUME NEW sh \in Shells, NEW r \in Commands, Run(sh, r)
      PROVE  DOMAIN file \subseteq DOMAIN file' /\ \A i \in DOMAIN file : file'[i] = file[i]
  <2>1. file' = Append(file, r) BY <1>2 DEF Run
  <2> QED BY <1>1, <2>1
<1>3. (\E sh \in Shells : \E r \in Commands : Run(sh, r)) \/ UNCHANGED file
  BY DEF Next, Open, Deliver, Lose, ImportSeed, ImportRaws, ImportDies, Reset, vars
<1> QED BY <1>1, <1>2, <1>3

-----------------------------------------------------------------------------
(* Generalizations know more.  A record sees through the window of a shell, the
   import through the file: they agree on commands without a comma, because what
   a shell has run is in the file. *)
Quiet == \A i \in DOMAIN file : ~HasComma(file[i])
Named(w, h) == \A i \in 1..2 : w[i] = Pad \/ \E j \in DOMAIN h : h[j] = w[i]
Logged ==
  /\ \A sh \in Shells : Named(prev[sh], file)
  /\ \A q \in sent : Named(q.window, file)

LEMMA LoggedStep == TypeOK /\ Logged /\ [Next]_vars => Logged'
<1> SUFFICES ASSUME TypeOK, Logged, [Next]_vars PROVE Logged'
  OBVIOUS
<1>1. ASSUME NEW w, Named(w, file) PROVE Named(w, file')
  BY <1>1, FileSteps DEF Named
<1>2. ASSUME NEW sh \in Shells, NEW r \in Commands, Run(sh, r) PROVE Logged'
  <2> DEFINE q == [nth |-> Len(file) + 1, from |-> dir[sh], cwd |-> dir'[sh], window |-> prev[sh], next |-> r]
  <2>1. /\ file' = Append(file, r) /\ file \in Seq(Commands)
        /\ prev' = [prev EXCEPT ![sh] = <<prev[sh][2], r>>] /\ sent' = sent \cup {q}
    BY <1>2, RunIs, TypeBags
  <2>2. Len(file) + 1 \in DOMAIN file' /\ file'[Len(file) + 1] = r BY <2>1
  <2>3. prev \in [Shells -> Windows] BY DEF TypeOK, Windows
  <2>4. Named(<<prev[sh][2], r>>, file')
    <3>1. Named(prev[sh], file') BY <1>1 DEF Logged
    <3> DEFINE v == <<prev[sh][2], r>>
    <3>2. v[1] = prev[sh][2] /\ v[2] = r OBVIOUS
    <3> HIDE DEF v
    <3>3. ASSUME NEW i \in 1..2 PROVE v[i] = Pad \/ \E j \in DOMAIN file' : file'[j] = v[i]
      <4>1. i = 1 \/ i = 2 OBVIOUS
      <4> QED BY <2>2, <3>1, <3>2, <4>1 DEF Named
    <3> QED BY <3>3 DEF Named, v
  <2>5. \A s \in Shells : Named(prev'[s], file')
    <3> TAKE s \in Shells
    <3>1. prev'[s] = IF s = sh THEN <<prev[sh][2], r>> ELSE prev[s] BY <2>1, <2>3
    <3>2. Named(prev[s], file') BY <1>1 DEF Logged
    <3> QED BY <2>4, <3>1, <3>2
  <2>6. \A p \in sent' : Named(p.window, file')
    <3> TAKE p \in sent'
    <3>1. p \in sent \/ p.window = prev[sh] BY <2>1
    <3> QED BY <1>1, <3>1 DEF Logged
  <2> QED BY <2>5, <2>6 DEF Logged
<1>3. ASSUME NEW sh \in Shells, Open(sh) PROVE Logged'
  <2>1. prev' = [prev EXCEPT ![sh] = <<Pad, Pad>>] /\ UNCHANGED <<file, sent>> BY <1>3 DEF Open
  <2>2. prev \in [Shells -> Windows] BY DEF TypeOK, Windows
  <2>3. Named(<<Pad, Pad>>, file)
    <3>1. ASSUME NEW i \in 1..2 PROVE <<Pad, Pad>>[i] = Pad
      <4>1. i = 1 \/ i = 2 OBVIOUS
      <4> QED BY <4>1
    <3> QED BY <3>1 DEF Named
  <2>4. \A s \in Shells : prev'[s] = prev[s] \/ prev'[s] = <<Pad, Pad>> BY <2>1, <2>2
  <2> QED BY <2>1, <2>3, <2>4 DEF Logged
<1>4. ASSUME UNCHANGED <<prev, file>>, sent' \subseteq sent PROVE Logged'
  BY <1>4 DEF Logged
<1>5. \/ \E sh \in Shells : Open(sh) \/ \E r \in Commands : Run(sh, r)
      \/ UNCHANGED <<prev, file>> /\ sent' \subseteq sent
  BY DEF Next, Deliver, Lose, ImportSeed, ImportRaws, ImportDies, Reset, vars, shell
<1> QED BY <1>2, <1>3, <1>4, <1>5

KnowMore ==
  \A k \in Seq(Element), n \in Templates :
    /\ Head(k) \in Dirs /\ Informative(Tail(k)) => Count(Tail(k), n) >= Count(k, n)
    /\ Len(k) = 2 /\ Head(k) \notin Dirs /\ k[2] # Pad /\ Quiet => Count(Tail(k), n) >= Count(k, n)

LEMMA RecordedKnows ==
  ASSUME NEW q \in Requests, NEW k \in StatesOf(q)
  PROVE  /\ Head(k) \in Dirs /\ Informative(Tail(k)) => Tail(k) \in StatesOf(q)
         /\ Len(k) = 2 /\ Head(k) \notin Dirs /\ k[2] # Pad /\ WithoutComma(q.window) => Tail(k) \in StatesOf(q)
<1>1. /\ Informative(History(q)) => History(q) \in StatesOf(q)
      /\ Informative(Tail(History(q))) => Tail(History(q)) \in StatesOf(q)
      /\ \/ k = Context(q) /\ Head(k) \in Dirs /\ Tail(k) = History(q)
         \/ k \in {History(q), Tail(History(q))} /\ Head(k) \notin Dirs /\ Informative(k)
  BY StateKinds
<1>2. ASSUME Len(k) = 2, Head(k) \notin Dirs, k[2] # Pad, WithoutComma(q.window)
      PROVE  Tail(k) \in StatesOf(q)
  <2> DEFINE a == Template(q.window[1])  b == Template(q.window[2])
  <2>1. History(q) = <<a, b>> /\ Tail(History(q)) = <<b>> BY <1>2, PlainHistory
  <2> HIDE DEF a, b
  <2>2. Len(<<b>>) = 1 /\ <<a, b>>[2] = b OBVIOUS
  <2>3. k = History(q)
    <3>1. k = History(q) \/ k = <<b>> BY <1>1, <1>2, <2>1
    <3>2. k # <<b>> BY <1>2, <2>2
    <3> QED BY <3>1, <3>2
  <2>4. b # Pad BY <1>2, <2>1, <2>2, <2>3
  <2>5. Informative(<<b>>) BY <2>4 DEF Informative
  <2> QED BY <1>1, <2>1, <2>3, <2>5
<1> HIDE DEF Informative
<1> QED BY <1>1, <1>2

LEMMA ImportedKnows ==
  ASSUME NEW h \in Seq(Commands), NEW k \in Seq(Element), NEW n
  PROVE  /\ Head(k) \in Dirs => Cardinality(Seen(h, k, n)) = 0
         /\ Len(k) = 2 /\ k[2] # Pad => Cardinality(Seen(h, Tail(k), n)) >= Cardinality(Seen(h, k, n))
<1>1. ASSUME Head(k) \in Dirs PROVE Cardinality(Seen(h, k, n)) = 0
  <2>1. Seen(h, k, n) = {} BY <1>1, SeedKinds DEF Seen
  <2> QED BY <2>1, FS_EmptySet
<1>2. ASSUME Len(k) = 2, k[2] # Pad PROVE Cardinality(Seen(h, Tail(k), n)) >= Cardinality(Seen(h, k, n))
  <2>1. Seen(h, k, n) \subseteq Seen(h, Tail(k), n)
    <3> SUFFICES ASSUME NEW i \in DOMAIN h, k \in States(h, i) PROVE Tail(k) \in States(h, i)
      BY DEF Seen
    <3>1. PICK a, b \in Templated : States(h, i) = {<<a, b>>} \cup (IF b = Pad THEN {} ELSE {<<b>>})
      BY SeedKinds
    <3>2. Len(<<b>>) = 1 /\ <<a, b>>[2] = b /\ Tail(<<a, b>>) = <<b>> OBVIOUS
    <3>3. k = <<a, b>>
      <4>1. k = <<a, b>> \/ k = <<b>> BY <3>1
      <4>2. k # <<b>> BY <1>2, <3>2
      <4> QED BY <4>1, <4>2
    <3> QED BY <1>2, <3>1, <3>2, <3>3
  <2>2. IsFiniteSet(Seen(h, Tail(k), n)) /\ IsFiniteSet(Seen(h, k, n)) BY ImportAdds
  <2>3. /\ Cardinality(Seen(h, k, n)) <= Cardinality(Seen(h, Tail(k), n))
        /\ Cardinality(Seen(h, k, n)) \in Nat /\ Cardinality(Seen(h, Tail(k), n)) \in Nat
    BY <2>1, <2>2, FS_Subset, FS_CardinalityType
  <2> QED BY <2>3
<1> QED BY <1>1, <1>2

LEMMA KnowStep == TypeOK /\ Logged /\ KnowMore /\ [Next]_vars => KnowMore'
<1> SUFFICES ASSUME TypeOK, Logged, KnowMore, [Next]_vars, NEW k \in Seq(Element), NEW n \in Templates
             PROVE  /\ Head(k) \in Dirs /\ Informative(Tail(k)) => Count(Tail(k), n)' >= Count(k, n)'
                    /\ Len(k) = 2 /\ Head(k) \notin Dirs /\ k[2] # Pad /\ Quiet' =>
                         Count(Tail(k), n)' >= Count(k, n)'
  BY DEF KnowMore
<1>1. Quiet' => Quiet BY FileSteps DEF Quiet
<1>2. Count(k, n) \in Nat /\ Count(Tail(k), n) \in Nat /\ file \in Seq(Commands) BY CountType, TypeBags
<1> DEFINE Sub == \/ Head(k) \in Dirs /\ Informative(Tail(k))
                  \/ Len(k) = 2 /\ Head(k) \notin Dirs /\ k[2] # Pad /\ Quiet'
<1> SUFFICES ASSUME Sub PROVE Count(Tail(k), n)' >= Count(k, n)'
  OBVIOUS
<1>3. Count(Tail(k), n) >= Count(k, n) BY <1>1 DEF KnowMore
<1>4. CASE \A j, m : Count(j, m)' = Count(j, m) BY <1>3, <1>4
<1>5. ASSUME NEW q \in sent, Deliver(q), q \in Requests,
             \A j, m : Count(j, m)' = Count(j, m) + (IF m = Template(q.next) /\ j \in StatesOf(q) THEN 1 ELSE 0)
      PROVE  Count(Tail(k), n)' >= Count(k, n)'
  <2>1. Quiet' => WithoutComma(q.window)
    <3>1. Named(q.window, file) BY DEF Logged
    <3>2. q.window \in Windows BY <1>5, RequestIs
    <3>3. DOMAIN q.window = 1..2 BY <3>2, PairTemplates
    <3> QED BY <1>1, <3>1, <3>3 DEF Named, WithoutComma, Quiet, HasComma
  <2>2. k \in StatesOf(q) => Tail(k) \in StatesOf(q) BY <1>5, <2>1, RecordedKnows
  <2>3. /\ Count(k, n)' = Count(k, n) + (IF n = Template(q.next) /\ k \in StatesOf(q) THEN 1 ELSE 0)
        /\ Count(Tail(k), n)' = Count(Tail(k), n) + (IF n = Template(q.next) /\ Tail(k) \in StatesOf(q) THEN 1 ELSE 0)
    BY <1>5
  <2> QED BY <1>2, <1>3, <2>2, <2>3
<1>6. CASE \A j, m : Count(j, m)' = IF Count(j, m) >= Cardinality(Seen(file, j, m))
                                    THEN Count(j, m) ELSE Cardinality(Seen(file, j, m))
  <2> DEFINE c == Cardinality(Seen(file, k, n))  g == Cardinality(Seen(file, Tail(k), n))
  <2>1. c \in Nat /\ g \in Nat BY <1>2, ImportAdds, FS_CardinalityType
  <2>2. Head(k) \in Dirs => c = 0 BY <1>2, ImportedKnows
  <2>3. Len(k) = 2 /\ k[2] # Pad => g >= c BY <1>2, ImportedKnows
  <2>4. g >= c BY <2>1, <2>2, <2>3
  <2>5. /\ Count(k, n)' = IF Count(k, n) >= c THEN Count(k, n) ELSE c
        /\ Count(Tail(k), n)' = IF Count(Tail(k), n) >= g THEN Count(Tail(k), n) ELSE g
    BY <1>6
  <2> HIDE DEF c, g
  <2> QED BY <1>2, <1>3, <2>1, <2>4, <2>5
<1>7. CASE \A j, m : Count(j, m)' = 0 BY <1>7
<1> QED BY <1>4, <1>5, <1>6, <1>7, CountSteps

LEMMA KnowInit == Init => Logged /\ KnowMore
<1> SUFFICES ASSUME Init PROVE Logged /\ KnowMore OBVIOUS
<1>1. graph = EmptyBag /\ sent = {} /\ prev = [sh \in Shells |-> <<Pad, Pad>>] BY DEF Init
<1>2. \A k, n : Count(k, n) = 0 BY <1>1, EmptyIs DEF Count
<1>3. KnowMore BY <1>2 DEF KnowMore
<1>4. ASSUME NEW i \in 1..2 PROVE <<Pad, Pad>>[i] = Pad
  <2>1. i = 1 \/ i = 2 OBVIOUS
  <2> QED BY <2>1
<1>5. Logged BY <1>1, <1>4 DEF Logged, Named
<1> QED BY <1>3, <1>5

LEMMA KnowImplies == TypeOK /\ KnowMore => GeneralizationsKnowMore
<1> SUFFICES ASSUME TypeOK, KnowMore, NEW o \in DOMAIN graph
             PROVE  /\ Head(o.key) \in Dirs /\ Informative(Tail(o.key)) => Count(Tail(o.key), o.next) >= Count(o.key, o.next)
                    /\ (Len(o.key) = 2 /\ Head(o.key) \notin Dirs /\ o.key[2] # Pad
                        /\ \A i \in DOMAIN file : ~HasComma(file[i])) =>
                         Count(Tail(o.key), o.next) >= Count(o.key, o.next)
  BY DEF GeneralizationsKnowMore, BagToSet
<1>1. o \in Observed BY TypeBags DEF BagOver
<1>2. o.key \in Seq(Element) /\ o.next \in Templates BY <1>1 DEF Observed
<1> QED BY <1>2 DEF KnowMore, Quiet

(* The fallbacks never know less than what they stand for, whatever records,
   imports and resets interleave: a context counts no more than the one without
   its directory or its older command. *)
THEOREM KnowMoreTheorem == Spec => []GeneralizationsKnowMore
<1>1. Init => TypeOK /\ Logged /\ KnowMore BY InitType, KnowInit
<1>2. TypeOK /\ Logged /\ KnowMore /\ [Next]_vars => TypeOK' /\ Logged' /\ KnowMore'
  BY StepType, LoggedStep, KnowStep
<1>3. TypeOK /\ KnowMore => GeneralizationsKnowMore BY KnowImplies
<1> QED BY <1>1, <1>2, <1>3, PTL DEF Spec

-----------------------------------------------------------------------------
(* Counts are observations. *)
Finite == IsFiniteSet(sent) /\ IsFiniteSet(learned) /\ IsFiniteSet(overtaken)

LEMMA FiniteStep == Finite /\ [Next]_vars => Finite'
<1> SUFFICES ASSUME Finite, [Next]_vars PROVE Finite' OBVIOUS
<1>1. IsFiniteSet(sent')
  <2>1. \/ sent' \subseteq sent
        \/ \E sh \in Shells, r \in Commands : \E e : sent' = sent \cup {e}
    BY DEF Next, Open, Run, Deliver, Lose, ImportSeed, ImportRaws, ImportDies, Reset, vars
  <2> QED BY <2>1, FS_Subset, FS_AddElement DEF Finite
<1>2. IsFiniteSet(learned')
  <2>1. learned' \in {learned, {}} \/ \E q \in sent : learned' = learned \cup {q}
    BY DEF Next, Open, Run, Deliver, Lose, ImportSeed, ImportRaws, ImportDies, Reset, vars, past
  <2>2. IsFiniteSet(learned) /\ IsFiniteSet({}) BY FS_EmptySet DEF Finite
  <2>3. \A q \in sent : IsFiniteSet(learned \cup {q}) BY <2>2, FS_AddElement
  <2> QED BY <2>1, <2>2, <2>3
<1>3. IsFiniteSet(overtaken')
  <2>1. overtaken' = overtaken \/ overtaken' = overtaken \cup sent
    BY DEF Next, Open, Run, Deliver, Lose, ImportSeed, ImportRaws, ImportDies, Reset, vars, past
  <2> QED BY <2>1, FS_Union DEF Finite
<1> QED BY <1>1, <1>2, <1>3 DEF Finite

LEMMA AskingIs ==
  ASSUME NEW S, IsFiniteSet(S), NEW n
  PROVE  /\ Asking(S, n) \in Nat
         /\ \A q : /\ Asking(S \cup {q}, n) <= Asking(S, n) + 1
                   /\ Template(q.next) # n => Asking(S \cup {q}, n) = Asking(S, n)
                   /\ q \in S /\ Template(q.next) = n => Asking(S \ {q}, n) = Asking(S, n) - 1
         /\ \A T : T \subseteq S => Asking(T, n) \in Nat /\ Asking(T, n) <= Asking(S, n)
<1> DEFINE A(X) == {q \in X : Template(q.next) = n}
<1>1. IsFiniteSet(A(S)) BY FS_Subset
<1>2. \A X : Asking(X, n) = Cardinality(A(X)) BY DEF Asking
<1>3. Cardinality(A(S)) \in Nat BY <1>1, FS_CardinalityType
<1>4. ASSUME NEW T, T \subseteq S PROVE Cardinality(A(T)) \in Nat /\ Cardinality(A(T)) <= Cardinality(A(S))
  <2>1. A(T) \subseteq A(S) BY <1>4
  <2> HIDE DEF A
  <2> QED BY <1>1, <2>1, FS_Subset, FS_CardinalityType
<1>5. ASSUME NEW q
      PROVE  /\ Asking(S \cup {q}, n) <= Asking(S, n) + 1
             /\ Template(q.next) # n => Asking(S \cup {q}, n) = Asking(S, n)
             /\ q \in S /\ Template(q.next) = n => Asking(S \ {q}, n) = Asking(S, n) - 1
  <2>1. CASE Template(q.next) = n
    <3>1. A(S \cup {q}) = A(S) \cup {q} /\ A(S \ {q}) = A(S) \ {q} /\ (q \in S => q \in A(S)) BY <2>1
    <3> HIDE DEF A
    <3>2. Cardinality(A(S) \cup {q}) <= Cardinality(A(S)) + 1
      <4>1. Cardinality(A(S) \cup {q}) = IF q \in A(S) THEN Cardinality(A(S)) ELSE Cardinality(A(S)) + 1
        BY <1>1, FS_AddElement
      <4> QED BY <1>3, <4>1
    <3>3. q \in A(S) => Cardinality(A(S) \ {q}) = Cardinality(A(S)) - 1
      BY <1>1, FS_RemoveElement
    <3> QED BY <1>2, <2>1, <3>1, <3>2, <3>3
  <2>2. CASE Template(q.next) # n
    <3>1. A(S \cup {q}) = A(S) BY <2>2
    <3> HIDE DEF A
    <3> QED BY <1>2, <1>3, <2>2, <3>1
  <2> QED BY <2>1, <2>2
<1> HIDE DEF A
<1> QED BY <1>2, <1>3, <1>4, <1>5

LEMMA TimesIs ==
  ASSUME NEW h \in Seq(Commands), NEW n
  PROVE  /\ IsFiniteSet({i \in DOMAIN h : Template(h[i]) = n})
         /\ Cardinality({i \in DOMAIN h : Template(h[i]) = n}) \in Nat
         /\ \A r \in Commands :
              Cardinality({i \in DOMAIN Append(h, r) : Template(Append(h, r)[i]) = n})
                = Cardinality({i \in DOMAIN h : Template(h[i]) = n}) + (IF Template(r) = n THEN 1 ELSE 0)
         /\ \A k : Cardinality(Seen(h, k, n)) <= Cardinality({i \in DOMAIN h : Template(h[i]) = n})
<1> DEFINE T == {i \in DOMAIN h : Template(h[i]) = n}
<1>1. IsFiniteSet(T)
  <2>1. DOMAIN h = 1..Len(h) /\ Len(h) \in Nat OBVIOUS
  <2>2. IsFiniteSet(DOMAIN h) BY <2>1, FS_Interval
  <2> QED BY <2>2, FS_Subset
<1>2. Cardinality(T) \in Nat BY <1>1, FS_CardinalityType
<1>3. ASSUME NEW r \in Commands
      PROVE  Cardinality({i \in DOMAIN Append(h, r) : Template(Append(h, r)[i]) = n})
               = Cardinality(T) + (IF Template(r) = n THEN 1 ELSE 0)
  <2> DEFINE g == Append(h, r)  U == {i \in DOMAIN g : Template(g[i]) = n}  m == Len(h) + 1
  <2>1. /\ DOMAIN g = 1..m /\ g[m] = r /\ m \in Nat /\ m \notin DOMAIN h /\ DOMAIN g = DOMAIN h \cup {m}
        /\ \A i \in DOMAIN h : g[i] = h[i]
    OBVIOUS
  <2> HIDE DEF g, m
  <2>2. U = IF Template(r) = n THEN T \cup {m} ELSE T BY <2>1
  <2>3. m \notin T BY <2>1
  <2> HIDE DEF T, U
  <2>4. Cardinality(T \cup {m}) = Cardinality(T) + 1 BY <1>1, <2>3, FS_AddElement
  <2>5. Cardinality(U) = Cardinality(T) + (IF Template(r) = n THEN 1 ELSE 0) BY <1>2, <2>2, <2>4
  <2> QED BY <2>5 DEF U, g
<1>4. ASSUME NEW k PROVE Cardinality(Seen(h, k, n)) <= Cardinality(T)
  <2>1. Seen(h, k, n) \subseteq T BY DEF Seen
  <2> HIDE DEF T
  <2> QED BY <1>1, <2>1, FS_Subset
<1> QED BY <1>1, <1>2, <1>3, <1>4

(* What is still under way is owed: it may be counted later, on top of what an
   import has counted already. *)
CountsOwed ==
  \A k \in Seq(Element), n \in Templates :
    /\ Asking(sent, n) <= TimesRun(n)
    /\ Count(k, n) + Asking(sent, n) <= TimesRun(n) + Asking(overtaken, n)

LEMMA OwedNumbers ==
  ASSUME TypeOK, Finite
  PROVE  \A k, n : /\ Count(k, n) \in Nat /\ TimesRun(n) \in Nat
                   /\ Asking(sent, n) \in Nat /\ Asking(overtaken, n) \in Nat
<1>1. file \in Seq(Commands) BY TypeBags
<1>2. \A n : TimesRun(n) \in Nat BY <1>1, TimesIs DEF TimesRun
<1>3. \A n : Asking(sent, n) \in Nat /\ Asking(overtaken, n) \in Nat BY AskingIs DEF Finite
<1>4. \A k, n : Count(k, n) \in Nat BY CountType
<1> QED BY <1>2, <1>3, <1>4

LEMMA OwedStep == TypeOK /\ Finite /\ CountsOwed /\ [Next]_vars => CountsOwed'
<1> SUFFICES ASSUME TypeOK, Finite, CountsOwed, [Next]_vars, NEW k \in Seq(Element), NEW n \in Templates
             PROVE  /\ Asking(sent', n) <= TimesRun(n)'
                    /\ Count(k, n)' + Asking(sent', n) <= TimesRun(n)' + Asking(overtaken', n)
  <2>1. \A m : Asking(sent, m)' = Asking(sent', m) /\ Asking(overtaken, m)' = Asking(overtaken', m)
    BY DEF Asking, Template
  <2> QED BY <2>1 DEF CountsOwed
<1> DEFINE c == Count(k, n)  t == TimesRun(n)  a == Asking(sent, n)  o == Asking(overtaken, n)
<1>1. c \in Nat /\ t \in Nat /\ a \in Nat /\ o \in Nat /\ a <= t /\ c + a <= t + o
  BY OwedNumbers DEF CountsOwed
<1>2. file \in Seq(Commands) /\ Finite BY TypeBags
<1>3. ASSUME NEW T, T \subseteq sent PROVE Asking(T, n) \in Nat /\ Asking(T, n) <= a
  BY <1>2, <1>3, AskingIs DEF Finite
<1>4. UNCHANGED file => TimesRun(n)' = t BY DEF TimesRun, Template
<1>5. ASSUME UNCHANGED graph PROVE Count(k, n)' = c BY <1>5 DEF Count
<1> HIDE DEF c, t, a, o
<1>6. ASSUME NEW sh \in Shells, Open(sh)
      PROVE  Asking(sent', n) <= TimesRun(n)' /\ Count(k, n)' + Asking(sent', n) <= TimesRun(n)' + Asking(overtaken', n)
  <2>1. UNCHANGED <<file, sent, graph, overtaken>> BY <1>6 DEF Open, past
  <2> QED BY <1>1, <1>4, <1>5, <2>1 DEF a, o
<1>7. ASSUME NEW sh \in Shells, NEW r \in Commands, Run(sh, r)
      PROVE  Asking(sent', n) <= TimesRun(n)' /\ Count(k, n)' + Asking(sent', n) <= TimesRun(n)' + Asking(overtaken', n)
  <2>1. PICK q : sent' = sent \cup {q} /\ q.next = r /\ file' = Append(file, r) /\ UNCHANGED <<graph, overtaken>>
    <3> DEFINE q == [nth |-> Len(file) + 1, from |-> dir[sh], cwd |-> dir'[sh], window |-> prev[sh], next |-> r]
    <3>1. sent' = sent \cup {q} /\ q.next = r /\ file' = Append(file, r) /\ UNCHANGED <<graph, overtaken>>
      BY <1>7, RunIs DEF past
    <3> QED BY <3>1
  <2>2. TimesRun(n)' = t + (IF Template(r) = n THEN 1 ELSE 0)
    <3>1. TimesRun(n)' = Cardinality({i \in DOMAIN Append(file, r) : Template(Append(file, r)[i]) = n})
      BY <2>1 DEF TimesRun, Template
    <3> QED BY <1>2, <3>1, TimesIs DEF t, TimesRun
  <2>3. Asking(sent', n) <= a + (IF Template(r) = n THEN 1 ELSE 0)
    <3>1. /\ Asking(sent \cup {q}, n) <= a + 1
          /\ Template(q.next) # n => Asking(sent \cup {q}, n) = a
      BY <1>2, AskingIs DEF Finite, a
    <3> QED BY <1>1, <2>1, <3>1
  <2>4. Asking(sent', n) \in Nat
    <3>1. IsFiniteSet(sent') BY <2>1, FS_AddElement DEF Finite
    <3> QED BY <3>1, AskingIs
  <2>5. Count(k, n)' = c /\ Asking(overtaken', n) = o BY <1>5, <2>1 DEF o
  <2> QED BY <1>1, <2>2, <2>3, <2>4, <2>5
<1>8. ASSUME NEW q \in sent, Deliver(q), q \in Requests,
             \A j, m : Count(j, m)' = Count(j, m) + (IF m = Template(q.next) /\ j \in StatesOf(q) THEN 1 ELSE 0)
      PROVE  Asking(sent', n) <= TimesRun(n)' /\ Count(k, n)' + Asking(sent', n) <= TimesRun(n)' + Asking(overtaken', n)
  <2>1. sent' = sent \ {q} /\ UNCHANGED <<file, overtaken>> BY <1>8 DEF Deliver
  <2>2. Asking(sent', n) \in Nat /\ Asking(sent', n) <= a BY <1>3, <2>1
  <2>3. Template(q.next) = n => Asking(sent', n) = a - 1
    BY <1>2, <1>8, <2>1, AskingIs DEF Finite, a
  <2>4. Count(k, n)' = c + (IF n = Template(q.next) /\ k \in StatesOf(q) THEN 1 ELSE 0) BY <1>8 DEF c
  <2>5. TimesRun(n)' = t /\ Asking(overtaken', n) = o BY <1>4, <2>1 DEF o
  <2> QED BY <1>1, <2>2, <2>3, <2>4, <2>5
<1>9. ASSUME NEW q \in sent, Lose(q)
      PROVE  Asking(sent', n) <= TimesRun(n)' /\ Count(k, n)' + Asking(sent', n) <= TimesRun(n)' + Asking(overtaken', n)
  <2>1. sent' = sent \ {q} /\ UNCHANGED <<file, graph, overtaken>> BY <1>9 DEF Lose, past
  <2>2. Asking(sent', n) \in Nat /\ Asking(sent', n) <= a BY <1>3, <2>1
  <2> QED BY <1>1, <1>4, <1>5, <2>1, <2>2 DEF o
<1>10. ASSUME ImportSeed,
              \A j, m : Count(j, m)' = IF Count(j, m) >= Cardinality(Seen(file, j, m))
                                       THEN Count(j, m) ELSE Cardinality(Seen(file, j, m))
       PROVE  Asking(sent', n) <= TimesRun(n)' /\ Count(k, n)' + Asking(sent', n) <= TimesRun(n)' + Asking(overtaken', n)
  <2>1. UNCHANGED <<file, sent>> /\ overtaken' = overtaken \cup sent BY <1>10 DEF ImportSeed
  <2>2. Cardinality(Seen(file, k, n)) \in Nat /\ Cardinality(Seen(file, k, n)) <= t
    BY <1>2, TimesIs, ImportAdds, FS_CardinalityType DEF t, TimesRun
  <2>3. IsFiniteSet(overtaken') BY <1>2, <2>1, FS_Union DEF Finite
  <2>4. Asking(overtaken', n) \in Nat /\ o <= Asking(overtaken', n) /\ a <= Asking(overtaken', n)
    <3>1. \A T : T \subseteq overtaken' => Asking(T, n) <= Asking(overtaken', n) BY <2>3, AskingIs
    <3>2. Asking(overtaken', n) \in Nat BY <2>3, AskingIs
    <3> QED BY <2>1, <3>1, <3>2 DEF a, o
  <2>5. Count(k, n)' = IF c >= Cardinality(Seen(file, k, n)) THEN c ELSE Cardinality(Seen(file, k, n))
    BY <1>10 DEF c
  <2>6. TimesRun(n)' = t /\ Asking(sent', n) = a BY <1>4, <2>1 DEF a
  <2> QED BY <1>1, <2>2, <2>4, <2>5, <2>6
<1>11. ASSUME Reset, \A j, m : Count(j, m)' = 0
       PROVE  Asking(sent', n) <= TimesRun(n)' /\ Count(k, n)' + Asking(sent', n) <= TimesRun(n)' + Asking(overtaken', n)
  <2>1. UNCHANGED <<file, sent, overtaken>> BY <1>11 DEF Reset
  <2>2. TimesRun(n)' = t /\ Asking(sent', n) = a /\ Asking(overtaken', n) = o /\ Count(k, n)' = 0
    BY <1>4, <1>11, <2>1 DEF a, o
  <2> QED BY <1>1, <2>2
<1>12. ASSUME ImportRaws \/ ImportDies \/ UNCHANGED vars
       PROVE  Asking(sent', n) <= TimesRun(n)' /\ Count(k, n)' + Asking(sent', n) <= TimesRun(n)' + Asking(overtaken', n)
  <2>1. UNCHANGED <<file, sent, graph, overtaken>> BY <1>12 DEF ImportRaws, ImportDies, vars, past
  <2> QED BY <1>1, <1>4, <1>5, <2>1 DEF a, o
<1> QED BY <1>6, <1>7, <1>8, <1>9, <1>10, <1>11, <1>12, CountSteps DEF Next

LEMMA OwedInit == Init => Finite /\ CountsOwed
<1> SUFFICES ASSUME Init PROVE Finite /\ CountsOwed OBVIOUS
<1>1. graph = EmptyBag /\ sent = {} /\ learned = {} /\ overtaken = {} BY DEF Init
<1>2. Finite BY <1>1, FS_EmptySet DEF Finite
<1>3. \A k, n : Count(k, n) = 0 BY <1>1, EmptyIs DEF Count
<1>4. \A n : Asking(sent, n) = 0 /\ Asking(overtaken, n) = 0
  <2>1. \A n : {q \in {} : Template(q.next) = n} = {} OBVIOUS
  <2> QED BY <1>1, <2>1, FS_EmptySet DEF Asking
<1>5. \A n : TimesRun(n) \in Nat BY <1>2, InitType, OwedNumbers
<1> QED BY <1>2, <1>3, <1>4, <1>5 DEF CountsOwed

LEMMA OwedImplies == TypeOK /\ Finite /\ CountsOwed => CountsAreObservations
<1> SUFFICES ASSUME TypeOK, Finite, CountsOwed, NEW o \in DOMAIN graph
             PROVE  Count(o.key, o.next) <= TimesRun(o.next) + Asking(overtaken, o.next)
  BY DEF CountsAreObservations, BagToSet
<1>1. o \in Observed BY TypeBags DEF BagOver
<1>2. o.key \in Seq(Element) /\ o.next \in Templates BY <1>1 DEF Observed
<1> DEFINE c == Count(o.key, o.next)  t == TimesRun(o.next)
           a == Asking(sent, o.next)  b == Asking(overtaken, o.next)
<1>3. c \in Nat /\ t \in Nat /\ a \in Nat /\ b \in Nat BY OwedNumbers
<1>4. c + a <= t + b BY <1>2 DEF CountsOwed
<1> HIDE DEF c, t, a, b
<1>5. c <= t + b BY <1>3, <1>4
<1> QED BY <1>5 DEF c, t, b

(* No transition counts more observations than the command was run, but for
   the records an import has overtaken, however often the history is imported
   and in whatever order with the records of the commands it holds. *)
THEOREM CountsTheorem == Spec => []CountsAreObservations
<1>1. Init => TypeOK /\ Finite /\ CountsOwed BY InitType, OwedInit
<1>2. TypeOK /\ Finite /\ CountsOwed /\ [Next]_vars => TypeOK' /\ Finite' /\ CountsOwed'
  BY StepType, FiniteStep, OwedStep
<1>3. TypeOK /\ Finite /\ CountsOwed => CountsAreObservations BY OwedImplies
<1> QED BY <1>1, <1>2, <1>3, PTL DEF Spec

-----------------------------------------------------------------------------
(* What was learned is still known. *)
LearnedUnder(S, k, n) == {q \in S : Template(q.next) = n /\ k \in StatesOf(q)}
LearnedKnown ==
  \A k \in Seq(Element), n \in Templates : Cardinality(LearnedUnder(learned, k, n)) <= Count(k, n)

LEMMA KnownStep == TypeOK /\ Finite /\ LearnedKnown /\ [Next]_vars => LearnedKnown'
<1> SUFFICES ASSUME TypeOK, Finite, LearnedKnown, [Next]_vars, NEW k \in Seq(Element), NEW n \in Templates
             PROVE  Cardinality(LearnedUnder(learned', k, n)) <= Count(k, n)'
  <2>1. \A j, m : LearnedUnder(learned, j, m)' = LearnedUnder(learned', j, m)
    BY DEF LearnedUnder, StatesOf, History, Template, TemplatesOf, SplitState, Cut, BackoffStates, Informative
  <2> QED BY <2>1 DEF LearnedKnown
<1> DEFINE known == LearnedUnder(learned, k, n)
<1>1. IsFiniteSet(known)
  <2>1. known \subseteq learned BY DEF LearnedUnder
  <2> HIDE DEF known
  <2> QED BY <2>1, FS_Subset DEF Finite
<1>2. Cardinality(known) \in Nat BY <1>1, FS_CardinalityType
<1>3. Count(k, n) \in Nat /\ Cardinality(known) <= Count(k, n) BY CountType DEF LearnedKnown
<1>4. ASSUME NEW q \in sent, Deliver(q) PROVE Cardinality(LearnedUnder(learned', k, n)) <= Count(k, n)'
  <2>1. Count(k, n)' = Count(k, n) + (IF n = Template(q.next) /\ k \in StatesOf(q) THEN 1 ELSE 0)
    BY <1>4, CountSteps
  <2>2. learned' = learned \cup {q} BY <1>4 DEF Deliver
  <2>3. LearnedUnder(learned', k, n) =
          IF n = Template(q.next) /\ k \in StatesOf(q) THEN known \cup {q} ELSE known
    BY <2>2 DEF LearnedUnder
  <2> HIDE DEF known
  <2>4. Cardinality(known \cup {q}) = IF q \in known THEN Cardinality(known) ELSE Cardinality(known) + 1
    BY <1>1, FS_AddElement
  <2> QED BY <1>2, <1>3, <2>1, <2>3, <2>4
<1>5. ASSUME Reset PROVE Cardinality(LearnedUnder(learned', k, n)) <= Count(k, n)'
  <2>1. LearnedUnder(learned', k, n) = {} BY <1>5 DEF Reset, LearnedUnder
  <2>2. Count(k, n)' = 0 BY <1>5, CountSteps
  <2> QED BY <2>1, <2>2, FS_EmptySet
<1>6. ASSUME UNCHANGED learned, Count(k, n)' >= Count(k, n), Count(k, n)' \in Nat
      PROVE  Cardinality(LearnedUnder(learned', k, n)) <= Count(k, n)'
  BY <1>2, <1>3, <1>6
<1>7. ASSUME ImportSeed PROVE UNCHANGED learned /\ Count(k, n)' >= Count(k, n)
  <2>1. UNCHANGED learned BY <1>7 DEF ImportSeed
  <2>2. Count(k, n)' = IF Count(k, n) >= Cardinality(Seen(file, k, n))
                       THEN Count(k, n) ELSE Cardinality(Seen(file, k, n))
    BY <1>7, CountSteps
  <2>3. Cardinality(Seen(file, k, n)) \in Nat BY TypeBags, ImportAdds, FS_CardinalityType
  <2> QED BY <1>3, <2>1, <2>2, <2>3
<1>8. Count(k, n)' \in Nat
  <2>1. BagOver(graph', Observed) BY StepType DEF TypeOK, Observed
  <2> HIDE DEF Observed
  <2>2. Copies([key |-> k, next |-> n], graph') \in Nat BY <2>1, CopiesType
  <2> QED BY <2>2 DEF Count
<1>9. \/ \E q \in sent : Deliver(q)
      \/ ImportSeed \/ Reset
      \/ UNCHANGED <<learned, graph>>
  BY DEF Next, Open, Run, Lose, ImportRaws, ImportDies, vars, past
<1>10. UNCHANGED graph => Count(k, n)' = Count(k, n) BY DEF Count
<1> QED BY <1>3, <1>4, <1>5, <1>6, <1>7, <1>8, <1>9, <1>10

LEMMA KnownInit == Init => LearnedKnown
<1> SUFFICES ASSUME Init, NEW k, NEW n PROVE Cardinality(LearnedUnder(learned, k, n)) <= Count(k, n)
  BY DEF LearnedKnown
<1>1. LearnedUnder(learned, k, n) = {} BY DEF Init, LearnedUnder
<1>2. Count(k, n) = 0 BY EmptyIs DEF Init, Count
<1> QED BY <1>1, <1>2, FS_EmptySet

LEMMA OftenKnown ==
  ASSUME TypeOK, Finite, LearnedKnown, NEW k \in Seq(Element), NEW n \in Templates,
         NEW S, S \subseteq LearnedUnder(learned, k, n), Often(Cardinality(S))
  PROVE  n \in Candidates(k)
<1> DEFINE known == LearnedUnder(learned, k, n)
<1>1. known \subseteq learned BY DEF LearnedUnder
<1>2. Cardinality(known) <= Count(k, n) /\ Count(k, n) \in Nat BY CountType DEF LearnedKnown
<1> HIDE DEF known
<1>3. IsFiniteSet(known) BY <1>1, FS_Subset DEF Finite
<1>4. S \subseteq known BY DEF known
<1>5. /\ Cardinality(S) <= Cardinality(known)
      /\ Cardinality(S) \in Nat /\ Cardinality(known) \in Nat
  BY <1>3, <1>4, FS_Subset, FS_CardinalityType
<1>6. MinCount \in Nat BY RecallAssumption
<1>7. Often(Count(k, n)) BY <1>2, <1>5, <1>6 DEF Often
<1> QED BY <1>7 DEF Candidates

-----------------------------------------------------------------------------
(* The ladder. *)

HasParts(L, x, B, C) ==
  /\ 1 \in DOMAIN L /\ L[1] = x
  /\ \A i \in DOMAIN L : L[i] = x \/ (\E j \in DOMAIN B : L[i] = B[j]) \/ (\E j \in DOMAIN C : L[i] = C[j])
  /\ \A j \in DOMAIN C : \E i \in DOMAIN L : L[i] = C[j]

LEMMA ThreeParts ==
  ASSUME NEW U, NEW x \in U, NEW B \in Seq(U), NEW C \in Seq(U), NEW L, L = (<<x>> \o B) \o C
  PROVE  HasParts(L, x, B, C)
<1> DEFINE A == <<x>>  D == A \o B
<1>1. A \in Seq(U) /\ Len(A) = 1 /\ A[1] = x OBVIOUS
<1>2. Len(B) \in Nat /\ DOMAIN B = 1..Len(B) /\ Len(C) \in Nat /\ DOMAIN C = 1..Len(C) OBVIOUS
<1> HIDE DEF A
<1>3. /\ D \in Seq(U) /\ Len(D) = 1 + Len(B)
      /\ \A i \in 1..(1 + Len(B)) : D[i] = IF i <= 1 THEN A[i] ELSE B[i - 1]
  <2>1. /\ A \o B \in Seq(U) /\ Len(A \o B) = Len(A) + Len(B)
        /\ \A i \in 1..(Len(A) + Len(B)) : (A \o B)[i] = IF i <= Len(A) THEN A[i] ELSE B[i - Len(A)]
    BY <1>1, ConcatProperties
  <2> QED BY <1>1, <2>1
<1>4. L = D \o C BY DEF A
<1> HIDE DEF D
<1>5. /\ L \in Seq(U) /\ Len(L) = Len(D) + Len(C)
      /\ \A i \in 1..(Len(D) + Len(C)) : L[i] = IF i <= Len(D) THEN D[i] ELSE C[i - Len(D)]
  BY <1>3, <1>4, ConcatProperties
<1>6. DOMAIN L = 1..(1 + Len(B) + Len(C)) BY <1>2, <1>3, <1>5
<1>7. 1 \in DOMAIN L /\ L[1] = x
  <2>1. 1 \in 1..(Len(D) + Len(C)) /\ 1 <= Len(D) /\ 1 \in 1..(1 + Len(B)) BY <1>2, <1>3
  <2> QED BY <1>1, <1>3, <1>5, <1>6, <2>1
<1>8. ASSUME NEW i \in DOMAIN L
      PROVE  L[i] = x \/ (\E j \in DOMAIN B : L[i] = B[j]) \/ (\E j \in DOMAIN C : L[i] = C[j])
  <2>1. CASE i = 1 BY <1>7, <2>1
  <2>2. CASE i # 1 /\ i <= Len(D)
    <3>1. i \in 1..(1 + Len(B)) /\ ~(i <= 1) /\ i - 1 \in DOMAIN B BY <1>2, <1>3, <1>6, <2>2
    <3>2. L[i] = B[i - 1] BY <1>3, <1>5, <1>6, <2>2, <3>1
    <3> QED BY <3>1, <3>2
  <2>3. CASE ~(i <= Len(D))
    <3>1. i - Len(D) \in DOMAIN C /\ i \in 1..(Len(D) + Len(C)) BY <1>2, <1>3, <1>6, <2>3
    <3>2. L[i] = C[i - Len(D)] BY <1>5, <2>3, <3>1
    <3> QED BY <3>1, <3>2
  <2> QED BY <2>1, <2>2, <2>3
<1>9. ASSUME NEW j \in DOMAIN C PROVE \E i \in DOMAIN L : L[i] = C[j]
  <2> DEFINE i == Len(D) + j
  <2>1. i \in 1..(Len(D) + Len(C)) /\ ~(i <= Len(D)) /\ i - Len(D) = j /\ i \in DOMAIN L
    BY <1>2, <1>3, <1>6
  <2>2. L[i] = C[j] BY <1>5, <2>1
  <2> QED BY <2>1, <2>2
<1> QED BY <1>7, <1>8, <1>9 DEF HasParts

HasRungs(L, d, t, b) ==
  /\ 1 \in DOMAIN L /\ L[1] = <<d>> \o t
  /\ \A i \in DOMAIN L : (\E e \in Dirs : L[i] = <<e>> \o t) \/ L[i] \in {t, <<b>>, <<>>}
  /\ \E i \in DOMAIN L : L[i] = <<b>>

LEMMA LadderIs ==
  ASSUME NEW d \in Dirs, NEW a \in Templated, NEW b \in Templated, NEW t, t = <<a, b>>
  PROVE  HasRungs(Ladder(d, t), d, t, b)
<1> DEFINE U == Seq(Element)  up == Above[d]
           B == [i \in DOMAIN up |-> <<up[i]>> \o t]
           C == [i \in 1..(Len(t) + 1) |-> SubSeq(t, i, Len(t))]
           L == Ladder(d, t)
<1>1. t \in Seq(Element) /\ Len(t) = 2 /\ t[1] = a /\ t[2] = b
  <2>1. a \in Element /\ b \in Element BY DEF Templated, Element
  <2> HIDE DEF Element
  <2> QED BY <2>1
<1>2. ASSUME NEW e \in Dirs PROVE <<e>> \o t \in U /\ e # Pad /\ InDir(e, t) = <<e>> \o t
  <2>1. e \in Element BY DEF Element
  <2>2. e # Pad BY NotDirs
  <2>3. <<e>> \o t \in U BY <1>1, <2>1, ConsIs
  <2> QED BY <2>2, <2>3 DEF InDir
<1>3. up \in Seq(Dirs) /\ \A i \in DOMAIN up : up[i] \in Dirs
  <2>1. up \in Seq(Dirs) BY ContextsAssumption
  <2> QED BY <2>1, ElementOfSeq
<1>4. B \in Seq(U)
  <2>1. DOMAIN up = 1..Len(up) /\ Len(up) \in Nat BY <1>3
  <2>2. \A i \in DOMAIN up : <<up[i]>> \o t \in U BY <1>2, <1>3
  <2> HIDE DEF up, U
  <2> QED BY <2>1, <2>2
<1>5. SubSeq(t, 1, 2) = t /\ SubSeq(t, 2, 2) = <<b>> /\ SubSeq(t, 3, 2) = <<>>
  <2>1. \A i \in 1..2 : t[i] \in Element BY <1>1, ElementOfSeq
  <2>2. SubSeq(t, 1, 2) = t
    <3>1. /\ SubSeq(t, 1, 2) \in Seq(Element) /\ Len(SubSeq(t, 1, 2)) = 2
          /\ \A i \in 1..2 : SubSeq(t, 1, 2)[i] = t[i]
      BY <2>1, SubSeqProperties
    <3> QED BY <1>1, <3>1, SeqEqual
  <2>3. SubSeq(t, 2, 2) = <<b>>
    <3>1. /\ SubSeq(t, 2, 2) \in Seq(Element) /\ Len(SubSeq(t, 2, 2)) = 1
          /\ SubSeq(t, 2, 2)[1] = b
      BY <1>1, <2>1, SubSeqProperties
    <3>2. <<b>> \in Seq(Element) /\ Len(<<b>>) = 1 /\ <<b>>[1] = b BY <1>1, <2>1
    <3>3. \A i \in 1..1 : SubSeq(t, 2, 2)[i] = <<b>>[i]
      <4> SUFFICES ASSUME NEW i \in 1..1 PROVE SubSeq(t, 2, 2)[i] = <<b>>[i] OBVIOUS
      <4>1. i = 1 OBVIOUS
      <4> QED BY <3>1, <3>2, <4>1
    <3> QED BY <3>1, <3>2, <3>3, SeqEqual
  <2>4. SubSeq(t, 3, 2) = <<>> BY SubSeqEmpty
  <2> QED BY <2>2, <2>3, <2>4
<1>6. DOMAIN C = 1..3 /\ C[1] = t /\ C[2] = <<b>> /\ C[3] = <<>> BY <1>1, <1>5
<1>7. C \in Seq(U)
  <2>1. \A i \in 1..(Len(t) + 1) : SubSeq(t, i, Len(t)) \in U BY <1>1
  <2>2. Len(t) + 1 \in Nat BY <1>1
  <2> HIDE DEF U
  <2> QED BY <2>1, <2>2
<1>8. L = (<<<<d>> \o t>> \o B) \o C
  <2>1. Ancestors(d) = up /\ InDir(d, t) = <<d>> \o t BY <1>2 DEF Ancestors
  <2>2. [i \in DOMAIN up |-> InDir(up[i], t)] = B BY <1>2, <1>3
  <2>3. L = (<<InDir(d, t)>> \o [i \in DOMAIN Ancestors(d) |-> InDir(Ancestors(d)[i], t)]) \o C
    BY DEF Ladder
  <2> HIDE DEF B, C, L, up
  <2> QED BY <2>1, <2>2, <2>3
<1> DEFINE x == <<d>> \o t
<1>9. x \in U BY <1>2
<1>10. \A j \in DOMAIN B : \E e \in Dirs : B[j] = <<e>> \o t BY <1>3
<1>11. \A j \in DOMAIN C : C[j] \in {t, <<b>>, <<>>}
  <2> TAKE j \in DOMAIN C
  <2>1. j \in 1..3 BY <1>6
  <2>2. j = 1 \/ j = 2 \/ j = 3 BY <2>1
  <2> HIDE DEF C
  <2> QED BY <1>6, <2>2
<1> HIDE DEF B, C, L, U
<1>12. L = (<<x>> \o B) \o C BY <1>8
<1> HIDE DEF x
<1>13. /\ 1 \in DOMAIN L /\ L[1] = x
       /\ \A i \in DOMAIN L : L[i] = x \/ (\E j \in DOMAIN B : L[i] = B[j]) \/ (\E j \in DOMAIN C : L[i] = C[j])
       /\ \A j \in DOMAIN C : \E i \in DOMAIN L : L[i] = C[j]
  <2>1. x \in U /\ B \in Seq(U) /\ C \in Seq(U) BY <1>4, <1>7, <1>9
  <2> HIDE DEF U
  <2>2. HasParts(L, x, B, C) BY <1>12, <2>1, ThreeParts
  <2> QED BY <2>2 DEF HasParts
<1>14. 2 \in DOMAIN C BY <1>6
<1>15. \A i \in DOMAIN L : (\E e \in Dirs : L[i] = <<e>> \o t) \/ L[i] \in {t, <<b>>, <<>>}
  <2> TAKE i \in DOMAIN L
  <2>1. CASE L[i] = x BY <2>1 DEF x
  <2>2. CASE \E j \in DOMAIN B : L[i] = B[j] BY <1>10, <2>2
  <2>3. CASE \E j \in DOMAIN C : L[i] = C[j] BY <1>11, <2>3
  <2> QED BY <1>13, <2>1, <2>2, <2>3
<1>16. \E i \in DOMAIN L : L[i] = <<b>> BY <1>6, <1>13, <1>14
<1> QED BY <1>13, <1>15, <1>16 DEF L, x, HasRungs

(* Nothing is suppressed before there is a raw command; hydrating keeps the
   template. *)
LEMMA SuggestionsAre ==
  ASSUME NEW d, NEW t, NEW i
  PROVE  /\ \A n \in Candidates(Ladder(d, t)[i]) : \E s \in Suggestions(d, t, i) : s.template = n
         /\ \A s \in Suggestions(d, t, i) : \E n \in Candidates(Ladder(d, t)[i]) :
              Examples(t, n) # {} => s.raw \in Examples(t, n)
<1> DEFINE C == Candidates(Ladder(d, t)[i])
           S == {[template |-> n, raw |-> Pad] : n \in C}
           H(s) == IF Examples(t, s.template) = {} THEN {s}
                   ELSE {[s EXCEPT !.raw = r] : r \in Examples(t, s.template)}
<1>1. Suppress(S, d) = S BY DEF Suppress
<1>2. Suggestions(d, t, i) = UNION {H(s) : s \in S}
  <2>1. Suggestions(d, t, i) = Hydrate(Suppress(S, d), t) BY DEF Suggestions
  <2>2. Hydrate(S, t) = UNION {H(s) : s \in S} BY DEF Hydrate
  <2> HIDE DEF S, H
  <2> QED BY <1>1, <2>1, <2>2
<1> HIDE DEF C
<1>3. ASSUME NEW n \in C PROVE \E s \in UNION {H(s) : s \in S} : s.template = n
  <2> DEFINE s == [template |-> n, raw |-> Pad]
  <2>1. s \in S /\ s.template = n OBVIOUS
  <2>2. \E u \in H(s) : u.template = n
    <3>1. CASE Examples(t, n) = {} BY <3>1
    <3>2. CASE Examples(t, n) # {}
      <4>1. PICK r : r \in Examples(t, n) BY <3>2
      <4>2. [s EXCEPT !.raw = r] \in H(s) BY <3>2, <4>1
      <4>3. [s EXCEPT !.raw = r].template = n OBVIOUS
      <4> QED BY <4>2, <4>3
    <3> QED BY <3>1, <3>2
  <2> HIDE DEF S, H, s
  <2> QED BY <2>1, <2>2
<1>4. ASSUME NEW u \in UNION {H(s) : s \in S}
      PROVE  \E n \in C : Examples(t, n) # {} => u.raw \in Examples(t, n)
  <2>1. PICK n \in C : u \in H([template |-> n, raw |-> Pad]) OBVIOUS
  <2>2. Examples(t, n) # {} => u.raw \in Examples(t, n)
    <3> SUFFICES ASSUME Examples(t, n) # {} PROVE u.raw \in Examples(t, n) OBVIOUS
    <3>1. PICK r \in Examples(t, n) : u = [[template |-> n, raw |-> Pad] EXCEPT !.raw = r] BY <2>1
    <3> QED BY <3>1
  <2> QED BY <2>1, <2>2
<1> HIDE DEF S, H
<1> QED BY <1>2, <1>3, <1>4 DEF C

LEMMA RoutineImplied == TypeOK /\ Finite /\ LearnedKnown => RecallsRoutine
<1> SUFFICES ASSUME TypeOK, Finite, LearnedKnown, NEW sh \in Shells, NEW n \in Templates, NEW t,
                    t = TemplatesOf(prev[sh]),
                    Often(Cardinality({q \in learned : /\ q.from = dir[sh] /\ q.cwd = dir[sh] /\ Template(q.next) = n
                                                       /\ WithoutComma(q.window) /\ TemplatesOf(q.window) = t}))
             PROVE  /\ Answering(dir[sh], t) = {1}
                    /\ \E s \in Suggestions(dir[sh], t, 1) : s.template = n
  BY DEF RecallsRoutine
<1> DEFINE d == dir[sh]  k == <<d>> \o t
           S == {q \in learned : /\ q.from = d /\ q.cwd = d /\ Template(q.next) = n
                                 /\ WithoutComma(q.window) /\ TemplatesOf(q.window) = t}
<1>1. d \in Dirs /\ prev[sh] \in Windows BY TypeBags
<1>2. PICK a \in Templated, b \in Templated : t = <<a, b>>
  BY <1>1, PairTemplates, TemplateType
<1>3. k \in Seq(Element)
  <2>1. Templated \subseteq Element /\ d \in Element BY <1>1 DEF Templated, Element
  <2> HIDE DEF Element, Templated
  <2>2. t \in Seq(Element) BY <1>2, <2>1
  <2> QED BY <2>1, <2>2, ConsIs
<1>4. S \subseteq LearnedUnder(learned, k, n)
  <2> SUFFICES ASSUME NEW q \in S PROVE k \in StatesOf(q) BY DEF LearnedUnder
  <2>1. q \in Requests BY TypeBags
  <2>2. History(q) = t BY <2>1, PlainHistory
  <2>3. Context(q) = k BY <2>2 DEF Context
  <2> QED BY <2>1, <2>3, StateKinds
<1>5. Often(Cardinality(S)) OBVIOUS
<1> HIDE DEF S, k
<1>6. n \in Candidates(k) BY <1>3, <1>4, <1>5, OftenKnown
<1> HIDE DEF d
<1>7. 1 \in DOMAIN Ladder(d, t) /\ Ladder(d, t)[1] = k
  <2>1. 1 \in DOMAIN Ladder(d, t) /\ Ladder(d, t)[1] = <<d>> \o t
    <3>1. HasRungs(Ladder(d, t), d, t, b) BY <1>1, <1>2, LadderIs
    <3> QED BY <3>1 DEF HasRungs
  <2> QED BY <2>1 DEF k
<1>8. Answering(d, t) = {1} BY <1>6, <1>7 DEF Answering
<1>9. \E s \in Suggestions(d, t, 1) : s.template = n
  <2>1. \A m \in Candidates(Ladder(d, t)[1]) : \E s \in Suggestions(d, t, 1) : s.template = m
    BY SuggestionsAre
  <2> QED BY <1>6, <1>7, <2>1
<1> QED BY <1>8, <1>9 DEF d

LEMMA FallbackImplied == TypeOK /\ Finite /\ LearnedKnown => FallbackReaches
<1> SUFFICES ASSUME TypeOK, Finite, LearnedKnown, NEW sh \in Shells, NEW n \in Templates, NEW t,
                    t = TemplatesOf(prev[sh]), t[2] # Pad,
                    Often(Cardinality({q \in learned : /\ Template(q.next) = n /\ WithoutComma(q.window)
                                                       /\ Template(q.window[2]) = t[2]}))
             PROVE  /\ Answering(dir[sh], t) # {}
                    /\ \E i \in DOMAIN Ladder(dir[sh], t) : n \in Candidates(Ladder(dir[sh], t)[i])
  BY DEF FallbackReaches
<1> DEFINE d == dir[sh]
           S == {q \in learned : /\ Template(q.next) = n /\ WithoutComma(q.window)
                                 /\ Template(q.window[2]) = t[2]}
<1>1. d \in Dirs /\ prev[sh] \in Windows BY TypeBags
<1>2. PICK a \in Templated, b \in Templated : t = <<a, b>>
  BY <1>1, PairTemplates, TemplateType
<1>3. <<b>> \in Seq(Element) /\ t[2] = b /\ b # Pad
  <2>1. b \in Element BY DEF Templated, Element
  <2> QED BY <1>2, <2>1
<1>4. S \subseteq LearnedUnder(learned, <<b>>, n)
  <2> SUFFICES ASSUME NEW q \in S PROVE <<b>> \in StatesOf(q) BY DEF LearnedUnder
  <2>1. q \in Requests BY TypeBags
  <2>2. Tail(History(q)) = <<b>> BY <1>3, <2>1, PlainHistory
  <2>3. Informative(<<b>>) BY <1>3 DEF Informative
  <2> HIDE DEF Informative
  <2> QED BY <2>1, <2>2, <2>3, StateKinds
<1>5. Often(Cardinality(S)) OBVIOUS
<1> HIDE DEF S
<1>6. n \in Candidates(<<b>>) BY <1>3, <1>4, <1>5, OftenKnown
<1> HIDE DEF d
<1>7. PICK i \in DOMAIN Ladder(d, t) : Ladder(d, t)[i] = <<b>>
  <2>1. \E i \in DOMAIN Ladder(d, t) : Ladder(d, t)[i] = <<b>>
    <3>1. HasRungs(Ladder(d, t), d, t, b) BY <1>1, <1>2, LadderIs
    <3> QED BY <3>1 DEF HasRungs
  <2> QED BY <2>1
<1>8. Answering(d, t) # {} BY <1>6, <1>7 DEF Answering
<1> QED BY <1>6, <1>7, <1>8 DEF d

LEMMA KnownAlways == Spec => [](TypeOK /\ Finite /\ LearnedKnown)
<1>1. Init => TypeOK /\ Finite /\ LearnedKnown BY InitType, OwedInit, KnownInit
<1>2. TypeOK /\ Finite /\ LearnedKnown /\ [Next]_vars => TypeOK' /\ Finite' /\ LearnedKnown'
  BY StepType, FiniteStep, KnownStep
<1> QED BY <1>1, <1>2, PTL DEF Spec

(* What has been recorded often enough in a directory after two commands is
   suggested there after them, whatever else was learned, imported or lost. *)
THEOREM RoutineTheorem == Spec => []RecallsRoutine
  BY KnownAlways, RoutineImplied, PTL

(* What has been recorded often enough after a command is a candidate of some
   rung, wherever and after whatever else it ran. *)
THEOREM FallbackTheorem == Spec => []FallbackReaches
  BY KnownAlways, FallbackImplied, PTL

-----------------------------------------------------------------------------
(* Every suggestion can be run.  For what the graph knows under a context there
   is a raw example under what that context shares with the history: among the
   raw examples, or, while an import is half done, still to be sent; and if the
   import has died, the next one reads the same commands from the file. *)
Bare(k) == IF Head(k) \in Dirs THEN Tail(k) ELSE k
Covered(k, n, B) ==
  \E r \in Raws : Copies([key |-> NonEmpty(Bare(k)), next |-> n, raw |-> r], B) > 0
Imported(k, n, h) == \E i \in DOMAIN h : n = Template(h[i]) /\ k \in States(h, i)
Findable ==
  \A k \in Seq(Element), n \in Templates :
    Count(k, n) > 0 =>
      /\ k # <<>>
      /\ Informative(Bare(k)) =>
           /\ Covered(k, n, raws) \/ (partial /\ Imported(k, n, file))
           /\ examples # EmptyBag => Covered(k, n, raws) \/ Covered(k, n, examples)

LEMMA ImportedStays ==
  ASSUME NEW h \in Seq(Commands), NEW r \in Commands, NEW k, NEW n, Imported(k, n, h)
  PROVE  Imported(k, n, Append(h, r))
<1> DEFINE g == Append(h, r)
<1>1. PICK i \in DOMAIN h : n = Template(h[i]) /\ k \in States(h, i) BY DEF Imported
<1>2. Len(h) \in Nat /\ DOMAIN h = 1..Len(h) /\ i \in DOMAIN g /\ \A j \in DOMAIN h : g[j] = h[j]
  OBVIOUS
<1> HIDE DEF g
<1>3. Before(g, i) = Before(h, i)
  <2>1. (i > 1 => i - 1 \in DOMAIN h) /\ (i > 2 => i - 2 \in DOMAIN h) BY <1>2
  <2> QED BY <1>2, <2>1 DEF Before
<1>4. n = Template(g[i]) /\ k \in States(g, i) BY <1>1, <1>2, <1>3 DEF States
<1> QED BY <1>2, <1>4 DEF Imported, g

LEMMA ImportedCovered ==
  ASSUME NEW h \in Seq(Commands), NEW k, NEW n, Imported(k, n, h)
  PROVE  Covered(k, n, RawMappings(h)) /\ k # <<>>
<1>1. PICK i \in DOMAIN h : n = Template(h[i]) /\ k \in States(h, i) BY DEF Imported
<1>2. h[i] \in Raws /\ k # <<>> /\ Head(k) \notin Dirs BY <1>1, SeedKinds
<1>3. Bare(k) = k BY <1>2 DEF Bare
<1>4. Copies([key |-> NonEmpty(k), next |-> Template(h[i]), raw |-> h[i]], RawMappings(h)) > 0
  BY <1>1, ImportAdds
<1> QED BY <1>1, <1>2, <1>3, <1>4 DEF Covered

LEMMA RecordedCovered ==
  ASSUME BagOver(graph, Observed), BagOver(raws, Exampled), NEW q \in Requests,
         Recorded(q, <<q.cwd>> \o TemplatesOf(SplitState(q.window))),
         NEW k \in StatesOf(q), Informative(Bare(k))
  PROVE  Covered(k, Template(q.next), raws') /\ k # <<>>
<1>1. /\ Informative(History(q)) => History(q) \in StatesOf(q)
      /\ k # <<>>
      /\ \/ k = Context(q) /\ Head(k) \in Dirs /\ Tail(k) = History(q)
         \/ k \in {History(q), Tail(History(q))} /\ Head(k) \notin Dirs
  BY StateKinds
<1>2. Bare(k) \in StatesOf(q)
  <2> HIDE DEF Informative
  <2>1. CASE Head(k) \in Dirs BY <1>1, <2>1 DEF Bare
  <2>2. CASE Head(k) \notin Dirs BY <2>2 DEF Bare
  <2> QED BY <2>1, <2>2
<1>3. Copies([key |-> NonEmpty(Bare(k)), next |-> Template(q.next), raw |-> q.next], raws') > 0
  BY <1>2, RecordAdds
<1>4. q.next \in Raws BY RequestIs
<1> QED BY <1>1, <1>3, <1>4 DEF Covered

LEMMA CoveredStays ==
  ASSUME NEW S, NEW B, BagOver(B, S), NEW C, BagOver(C, S), \A o : Copies(o, C) >= Copies(o, B),
         NEW k, NEW n, Covered(k, n, B)
  PROVE  Covered(k, n, C)
<1>1. PICK r \in Raws : Copies([key |-> NonEmpty(Bare(k)), next |-> n, raw |-> r], B) > 0 BY DEF Covered
<1> DEFINE o == [key |-> NonEmpty(Bare(k)), next |-> n, raw |-> r]
<1>2. Copies(o, B) \in Nat /\ Copies(o, C) \in Nat BY CopiesType
<1>3. Copies(o, C) >= Copies(o, B) /\ Copies(o, B) > 0 BY <1>1
<1> HIDE DEF o
<1>4. Copies(o, C) > 0 BY <1>2, <1>3
<1> QED BY <1>4 DEF Covered, o

LEMMA FindableStep == TypeOK /\ Findable /\ [Next]_vars => Findable'
<1> SUFFICES ASSUME TypeOK, Findable, [Next]_vars, NEW k \in Seq(Element), NEW n \in Templates, Count(k, n)' > 0
             PROVE  /\ k # <<>>
                    /\ Informative(Bare(k)) =>
                         /\ Covered(k, n, raws') \/ (partial' /\ Imported(k, n, file'))
                         /\ examples' # EmptyBag => Covered(k, n, raws') \/ Covered(k, n, examples')
  <2>1. \A j, m : /\ Covered(j, m, raws)' = Covered(j, m, raws')
                  /\ Covered(j, m, examples)' = Covered(j, m, examples')
                  /\ Imported(j, m, file)' = Imported(j, m, file')
                  /\ Informative(Bare(j))' = Informative(Bare(j))
    BY DEF Covered, Imported, Informative, Bare, NonEmpty, Template, States, BackoffStates, Before
  <2> QED BY <2>1 DEF Findable
<1> DEFINE known == Covered(k, n, raws)  owed == Imported(k, n, file)  coming == Covered(k, n, examples)
           Goal == /\ k # <<>>
                   /\ Informative(Bare(k)) =>
                        /\ Covered(k, n, raws') \/ (partial' /\ Imported(k, n, file'))
                        /\ examples' # EmptyBag => Covered(k, n, raws') \/ Covered(k, n, examples')
<1>1. Count(k, n) > 0 =>
        /\ k # <<>>
        /\ Informative(Bare(k)) => (known \/ (partial /\ owed)) /\ (examples # EmptyBag => known \/ coming)
  BY DEF Findable
<1>2. /\ BagOver(graph, Observed) /\ BagOver(raws, Exampled) /\ BagOver(examples, Exampled)
      /\ file \in Seq(Commands) /\ Count(k, n) \in Nat
  BY TypeBags, CountType
<1>3. owed => Imported(k, n, file')
  <2>1. UNCHANGED file \/ \E r \in Commands : file' = Append(file, r)
    BY DEF Next, Open, Run, Deliver, Lose, ImportSeed, ImportRaws, ImportDies, Reset, vars
  <2> QED BY <1>2, <2>1, ImportedStays
<1> HIDE DEF known, owed, coming
<1>4. ASSUME UNCHANGED <<graph, raws, examples, partial>> PROVE Goal
  <2>1. Count(k, n) > 0 BY <1>4 DEF Count
  <2>2. Covered(k, n, raws') = known /\ Covered(k, n, examples') = coming
    BY <1>4 DEF known, coming
  <2> HIDE DEF Informative
  <2> QED BY <1>1, <1>3, <1>4, <2>1, <2>2
<1>5. ASSUME NEW q \in sent, Deliver(q) PROVE Goal
  <2>1. q \in Requests /\ Recorded(q, <<q.cwd>> \o TemplatesOf(SplitState(q.window)))
    BY <1>5, TypeBags DEF Deliver
  <2>2. UNCHANGED <<file, examples, partial>> BY <1>5 DEF Deliver
  <2>3. BagOver(raws', Exampled) /\ \A o : Copies(o, raws') >= Copies(o, raws)
    BY <1>2, <2>1, RecordAdds
  <2>4. known => Covered(k, n, raws') BY <1>2, <2>3, CoveredStays DEF known
  <2>5. Covered(k, n, examples') = coming BY <2>2 DEF coming
  <2>6. Count(k, n)' = Count(k, n) + (IF n = Template(q.next) /\ k \in StatesOf(q) THEN 1 ELSE 0)
    BY <1>5, CountSteps
  <2> HIDE DEF Informative
  <2>7. CASE n = Template(q.next) /\ k \in StatesOf(q)
    <3>1. Informative(Bare(k)) => Covered(k, n, raws') BY <1>2, <2>1, <2>7, RecordedCovered
    <3>2. k # <<>> BY <2>1, <2>7, StateKinds
    <3> QED BY <3>1, <3>2
  <2>8. CASE ~(n = Template(q.next) /\ k \in StatesOf(q))
    <3>1. Count(k, n) > 0 BY <1>2, <2>6, <2>8
    <3> QED BY <1>1, <1>3, <2>2, <2>4, <2>5, <3>1
  <2> QED BY <2>7, <2>8
<1>6. ASSUME ImportSeed PROVE Goal
  <2>1. UNCHANGED <<file, raws>> /\ examples' = RawMappings(file) /\ partial' = TRUE
    BY <1>6 DEF ImportSeed
  <2>2. owed => Covered(k, n, examples') /\ k # <<>> BY <1>2, <2>1, ImportedCovered DEF owed
  <2>3. Covered(k, n, raws') = known BY <2>1 DEF known
  <2>4. Count(k, n) > 0 \/ owed
    <3>1. Count(k, n)' = IF Count(k, n) >= Cardinality(Seen(file, k, n))
                         THEN Count(k, n) ELSE Cardinality(Seen(file, k, n))
      BY <1>6, CountSteps
    <3>2. Seen(file, k, n) = {} => Cardinality(Seen(file, k, n)) = 0 BY FS_EmptySet
    <3>3. Seen(file, k, n) # {} => owed BY DEF Seen, Imported, owed
    <3> QED BY <1>2, <3>1, <3>2, <3>3
  <2> HIDE DEF Informative
  <2> QED BY <1>1, <1>3, <2>1, <2>2, <2>3, <2>4
<1>7. ASSUME ImportRaws PROVE Goal
  <2>1. examples # EmptyBag /\ examples' = EmptyBag /\ raws' = raws (+) examples /\ UNCHANGED graph
    BY <1>7 DEF ImportRaws
  <2>2. /\ BagOver(raws (+) examples, Exampled)
        /\ \A o : Copies(o, raws (+) examples) = Copies(o, raws) + Copies(o, examples)
    BY <1>2, BagPlus
  <2>3. \A o : Copies(o, raws') >= Copies(o, raws) /\ Copies(o, raws') >= Copies(o, examples)
    <3> TAKE o
    <3>1. Copies(o, raws) \in Nat /\ Copies(o, examples) \in Nat BY <1>2, CopiesType
    <3>2. Copies(o, raws') = Copies(o, raws) + Copies(o, examples) BY <2>1, <2>2
    <3> QED BY <3>1, <3>2
  <2>4. BagOver(raws', Exampled) BY <2>1, <2>2
  <2>5. known => Covered(k, n, raws') BY <1>2, <2>3, <2>4, CoveredStays DEF known
  <2>6. coming => Covered(k, n, raws') BY <1>2, <2>3, <2>4, CoveredStays DEF coming
  <2>7. Count(k, n) > 0 BY <2>1 DEF Count
  <2> HIDE DEF Informative
  <2> QED BY <1>1, <2>1, <2>5, <2>6, <2>7
<1>8. ASSUME ImportDies PROVE Goal
  <2>1. examples' = EmptyBag /\ UNCHANGED <<graph, raws, file, partial>>
    BY <1>8 DEF ImportDies, past
  <2>2. Count(k, n) > 0 BY <2>1 DEF Count
  <2>3. Covered(k, n, raws') = known BY <2>1 DEF known
  <2> HIDE DEF Informative
  <2> QED BY <1>1, <1>3, <2>1, <2>2, <2>3
<1>9. ~Reset
  <2> SUFFICES ASSUME Reset PROVE FALSE OBVIOUS
  <2>1. Count(k, n)' = 0 BY CountSteps
  <2> QED BY <2>1
<1>10. \/ \E q \in sent : Deliver(q)
       \/ ImportSeed \/ ImportRaws \/ ImportDies \/ Reset
       \/ UNCHANGED <<graph, raws, examples, partial>>
  BY DEF Next, Open, Run, Lose, vars, past
<1> HIDE DEF Goal
<1>11. Goal BY <1>4, <1>5, <1>6, <1>7, <1>8, <1>9, <1>10
<1> QED BY <1>11 DEF Goal

(* Without its padding a history is one or two commands. *)
LEMMA NonEmptyOne == ASSUME NEW b \in Templated, b # Pad PROVE NonEmpty(<<b>>) = <<b>>
<1> DEFINE s == <<b>>  I == {i \in DOMAIN s : s[i] # Pad}
<1>1. 1 \in I BY DEF Templated
<1> DEFINE none == <<>>
<1>2. none \in Seq(Templated) /\ Append(none, b) = s /\ Len(none) + 1 = 1 OBVIOUS
<1>4. Picked(none, I) = none BY PickedEmpty
<1> HIDE DEF I, s, none
<1>3. Picked(Append(none, b), I) = IF Len(none) + 1 \in I THEN Append(Picked(none, I), b) ELSE Picked(none, I)
  <2>1. none \in Seq(Templated) BY <1>2
  <2> QED BY <2>1, PickedAppend
<1>5. Picked(s, I) = s BY <1>1, <1>2, <1>3, <1>4
<1> QED BY <1>5 DEF NonEmpty, I, s

LEMMA NonEmptyTwo ==
  ASSUME NEW a \in Templated, NEW b \in Templated, b # Pad
  PROVE  NonEmpty(<<a, b>>) = IF a = Pad THEN <<b>> ELSE <<a, b>>
<1> DEFINE s == <<a, b>>  I == {i \in DOMAIN s : s[i] # Pad}  one == <<a>>
<1>1. 2 \in I /\ (1 \in I <=> a # Pad) OBVIOUS
<1> DEFINE none == <<>>
<1>2. none \in Seq(Templated) /\ one \in Seq(Templated) /\ Len(none) + 1 = 1 /\ Len(one) + 1 = 2
  OBVIOUS
<1>3. Append(none, a) = one /\ Append(none, b) = <<b>> OBVIOUS
<1>4. Append(one, b) = s
  <2>1. /\ Append(one, b) \in Seq(Templated) /\ Len(Append(one, b)) = 2
        /\ Append(one, b)[1] = a /\ Append(one, b)[2] = b
    <3>1. Len(one) = 1 /\ one[1] = a OBVIOUS
    <3> HIDE DEF one
    <3>2. /\ Append(one, b) \in Seq(Templated) /\ Len(Append(one, b)) = Len(one) + 1
          /\ Append(one, b)[Len(one) + 1] = b /\ \A i \in 1..Len(one) : Append(one, b)[i] = one[i]
      BY <1>2, AppendProperties
    <3> QED BY <3>1, <3>2
  <2>2. s \in Seq(Templated) /\ Len(s) = 2 /\ s[1] = a /\ s[2] = b OBVIOUS
  <2> HIDE DEF s, one
  <2>3. \A i \in 1..2 : Append(one, b)[i] = s[i]
    <3> SUFFICES ASSUME NEW i \in 1..2 PROVE Append(one, b)[i] = s[i] OBVIOUS
    <3>1. i = 1 \/ i = 2 OBVIOUS
    <3> QED BY <2>1, <2>2, <3>1
  <2> QED BY <2>1, <2>2, <2>3, SeqEqual
<1>5. Picked(none, I) = none BY PickedEmpty
<1> HIDE DEF I, s, one, none
<1>6. Picked(one, I) = IF 1 \in I THEN one ELSE none
  <2>1. Picked(Append(none, a), I) = IF Len(none) + 1 \in I THEN Append(Picked(none, I), a) ELSE Picked(none, I)
    BY <1>2, PickedAppend
  <2> QED BY <1>2, <1>3, <1>5, <2>1
<1>7. Picked(Append(one, b), I) = IF Len(one) + 1 \in I THEN Append(Picked(one, I), b) ELSE Picked(one, I)
  BY <1>2, PickedAppend
<1>8. Picked(s, I) = IF a = Pad THEN <<b>> ELSE s BY <1>1, <1>2, <1>3, <1>4, <1>6, <1>7
<1> QED BY <1>8 DEF NonEmpty, I, s

(* An example under the whole history or its last command is found. *)
LEMMA ExamplesFound ==
  ASSUME NEW a \in Templated, NEW b \in Templated, b # Pad, NEW t, t = <<a, b>>, NEW n,
         NEW k \in {t, <<b>>}, NEW r \in Raws, Copies([key |-> NonEmpty(k), next |-> n, raw |-> r], raws) > 0
  PROVE  Examples(t, n) # {} /\ Examples(t, n) \subseteq Raws
<1> DEFINE w == NonEmpty(t)
           B(i) == Bucket(SubSeq(w, i, Len(w)), n)
           filled == {i \in 1..(Len(w) + 1) : B(i) # {}}
           first == {j \in filled : \A m \in filled : j <= m}
<1>1. w = (IF a = Pad THEN <<b>> ELSE <<a, b>>) BY NonEmptyTwo
<1>2. NonEmpty(k) = w \/ NonEmpty(k) = <<b>> BY NonEmptyOne
<1>3. w \in Seq(Templated) /\ Len(w) \in Nat /\ Len(w) >= 1 /\ SubSeq(w, 1, Len(w)) = w
      /\ SubSeq(w, Len(w), Len(w)) = <<b>>
  <2>1. CASE a = Pad
    <3>1. w = <<b>> BY <1>1, <2>1
    <3> HIDE DEF w
    <3>2. w \in Seq(Templated) /\ Len(w) = 1 /\ w[1] = b BY <3>1
    <3>3. SubSeq(w, 1, 1) = w
      <4>1. SubSeq(w, 1, 1) \in Seq(Templated) /\ Len(SubSeq(w, 1, 1)) = 1
            /\ \A i \in 1..1 : SubSeq(w, 1, 1)[i] = w[i]
        <5>1. \A i \in 1..1 : w[i] \in Templated BY <3>2
        <5> QED BY <5>1, SubSeqProperties
      <4> QED BY <3>2, <4>1, SeqEqual
    <3> QED BY <3>1, <3>2, <3>3
  <2>2. CASE a # Pad
    <3>1. w = <<a, b>> BY <1>1, <2>2
    <3> HIDE DEF w
    <3>2. w \in Seq(Templated) /\ Len(w) = 2 /\ w[1] = a /\ w[2] = b BY <3>1
    <3>3. \A i \in 1..2 : w[i] \in Templated BY <3>2, ElementOfSeq
    <3>4. SubSeq(w, 1, 2) = w
      <4>1. SubSeq(w, 1, 2) \in Seq(Templated) /\ Len(SubSeq(w, 1, 2)) = 2
            /\ \A i \in 1..2 : SubSeq(w, 1, 2)[i] = w[i]
        BY <3>3, SubSeqProperties
      <4> QED BY <3>2, <4>1, SeqEqual
    <3>5. SubSeq(w, 2, 2) = <<b>>
      <4>1. SubSeq(w, 2, 2) \in Seq(Templated) /\ Len(SubSeq(w, 2, 2)) = 1 /\ SubSeq(w, 2, 2)[1] = b
        BY <3>2, <3>3, SubSeqProperties
      <4>2. <<b>> \in Seq(Templated) /\ Len(<<b>>) = 1 /\ <<b>>[1] = b OBVIOUS
      <4>3. \A i \in 1..1 : SubSeq(w, 2, 2)[i] = <<b>>[i]
        <5> SUFFICES ASSUME NEW i \in 1..1 PROVE SubSeq(w, 2, 2)[i] = <<b>>[i] OBVIOUS
        <5>1. i = 1 OBVIOUS
        <5> QED BY <4>1, <4>2, <5>1
      <4> QED BY <4>1, <4>2, <4>3, SeqEqual
    <3> QED BY <3>2, <3>4, <3>5
  <2> QED BY <2>1, <2>2
<1>4. filled # {}
  <2>1. r \in Bucket(NonEmpty(k), n) BY DEF Bucket
  <2> HIDE DEF w
  <2>2. CASE NonEmpty(k) = w
    <3>1. 1 \in 1..(Len(w) + 1) BY <1>3
    <3>2. r \in Bucket(SubSeq(w, 1, Len(w)), n) BY <1>3, <2>1, <2>2
    <3> QED BY <3>1, <3>2
  <2>3. CASE NonEmpty(k) = <<b>>
    <3>1. Len(w) \in 1..(Len(w) + 1) /\ B(Len(w)) # {} BY <1>3, <2>1, <2>3
    <3> QED BY <3>1
  <2> QED BY <1>2, <2>2, <2>3
<1>5. Examples(t, n) = UNION {B(i) : i \in first} BY DEF Examples
<1>6. filled \subseteq Nat BY <1>3
<1>7. \A i \in filled : B(i) # {} OBVIOUS
<1>8. \A i \in filled : B(i) \subseteq Raws BY DEF Bucket
<1> HIDE DEF B, filled, w
<1>9. PICK j \in filled : \A m \in filled : j <= m BY <1>4, <1>6, Least
<1>10. j \in first /\ first \subseteq filled BY <1>9
<1> HIDE DEF first
<1> QED BY <1>5, <1>7, <1>8, <1>10

LEMMA RunnableImplied == TypeOK /\ Findable => Runnable
<1> SUFFICES ASSUME TypeOK, Findable, NEW sh \in Shells, NEW t, t = TemplatesOf(prev[sh]),
                    t[2] # Pad, ~partial,
                    NEW i \in Answering(dir[sh], t), NEW s \in Suggestions(dir[sh], t, i)
             PROVE  DisplayCommand(s) # Pad
  BY DEF Runnable
<1> DEFINE d == dir[sh]  k == Ladder(d, t)[i]
<1>1. d \in Dirs /\ prev[sh] \in Windows BY TypeBags
<1>2. PICK a \in Templated, b \in Templated : t = <<a, b>>
  BY <1>1, PairTemplates, TemplateType
<1>3. t[2] = b /\ b # Pad BY <1>2
<1>4. i \in DOMAIN Ladder(d, t) BY DEF Answering
<1>5. PICK n \in Candidates(k) : Examples(t, n) # {} => s.raw \in Examples(t, n) BY SuggestionsAre
<1> HIDE DEF d
<1>6. (\E e \in Dirs : k = <<e>> \o t) \/ k \in {t, <<b>>, <<>>}
  <2>1. HasRungs(Ladder(d, t), d, t, b) BY <1>1, <1>2, LadderIs
  <2> QED BY <1>4, <2>1 DEF HasRungs
<1> HIDE DEF k
<1>7. n \in Templates /\ Count(k, n) > 0 BY DEF Candidates, Often
<1>8. k \in Seq(Element) /\ k # <<>>
  <2>1. [key |-> k, next |-> n] \in DOMAIN graph BY <1>7, CountType
  <2>2. [key |-> k, next |-> n] \in Observed BY <2>1, TypeBags DEF BagOver
  <2>3. k \in Seq(Element) BY <2>2 DEF Observed
  <2> QED BY <1>7, <2>3 DEF Findable
<1>9. Bare(k) \in {t, <<b>>}
  <2>1. ASSUME NEW e \in Dirs, k = <<e>> \o t PROVE Bare(k) = t
    <3>1. t \in Seq(Templated \cup Dirs) /\ e \in Templated \cup Dirs BY <1>2
    <3>2. Head(k) = e /\ Tail(k) = t BY <2>1, <3>1, ConsIs
    <3> QED BY <3>2 DEF Bare
  <2>2. ASSUME k \in {t, <<b>>} PROVE Bare(k) = k
    <3>1. Head(t) = a /\ Head(<<b>>) = b BY <1>2
    <3>2. Head(k) \notin Dirs BY <2>2, <3>1, NotDirs
    <3> QED BY <3>2 DEF Bare
  <2> QED BY <1>6, <1>8, <2>1, <2>2
<1>10. Informative(Bare(k))
  <2>1. 2 \in DOMAIN t /\ 1 \in DOMAIN <<b>> /\ <<b>>[1] = b BY <1>2
  <2> QED BY <1>3, <1>9, <2>1 DEF Informative
<1>11. Covered(k, n, raws) BY <1>7, <1>8, <1>10 DEF Findable
<1>12. PICK r \in Raws : Copies([key |-> NonEmpty(Bare(k)), next |-> n, raw |-> r], raws) > 0
  BY <1>11 DEF Covered
<1>13. Examples(t, n) # {} /\ Examples(t, n) \subseteq Raws
  BY <1>2, <1>3, <1>9, <1>12, ExamplesFound
<1>14. s.raw \in Raws BY <1>5, <1>13
<1> QED BY <1>14, RecallAssumption DEF DisplayCommand

LEMMA FindableInit == Init => Findable
<1> SUFFICES ASSUME Init, NEW k, NEW n PROVE ~(Count(k, n) > 0) BY DEF Findable
<1>1. Count(k, n) = 0 BY EmptyIs DEF Init, Count
<1> QED BY <1>1

(* Once the session has a command and no import is half done, every suggestion,
   from whatever rung, has a concrete command to show. *)
THEOREM RunnableTheorem == Spec => []Runnable
<1>1. Init => TypeOK /\ Findable BY InitType, FindableInit
<1>2. TypeOK /\ Findable /\ [Next]_vars => TypeOK' /\ Findable' BY StepType, FindableStep
<1> QED BY <1>1, <1>2, RunnableImplied, PTL DEF Spec
================================================================================
