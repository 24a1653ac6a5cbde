------------------------------ MODULE ReplayProofs ------------------------------
(***************************************************************************)
(* The numbers of hunch eval, for every history and every choice of depths.  *)
(***************************************************************************)
EXTENDS FiniteSetTheorems, SequenceTheorems, ReplayProperties, TLAPS

Commands == [template : Templates \cup {Pad}, cwd : Dirs \cup {Pad}]
Results == [scored : Nat, offered : Nat, baseline : Nat, top : [DOMAIN Tops -> Nat]]

Counting == past \in Seq(Commands) /\ result \in Results /\ freq \in [Templates -> Nat]
Asked == {i \in DOMAIN past : i > Warmup /\ past[i].template # Pad}

-----------------------------------------------------------------------------
LEMMA TopsFacts ==
  /\ Len(Tops) \in DOMAIN Tops /\ MaxRank = Tops[Len(Tops)]
  /\ \A i \in DOMAIN Tops : Tops[i] \in Nat /\ Tops[i] <= MaxRank
  /\ \A i, j \in DOMAIN Tops : i < j => Tops[i] < Tops[j]
<1>1. /\ Tops \in Seq(Nat \ {0}) /\ Tops # <<>>
      /\ \A i, j \in DOMAIN Tops : i < j => Tops[i] < Tops[j]
  BY ReplayAssumption
<1>2. Len(Tops) \in Nat /\ DOMAIN Tops = 1..Len(Tops) /\ Len(Tops) # 0
  BY <1>1
<1>3. MaxRank = Tops[Len(Tops)]
  BY DEF MaxRank, Last
<1>4. \A i \in DOMAIN Tops : Tops[i] \in Nat
  BY <1>1
<1>5. \A i \in DOMAIN Tops : i = Len(Tops) \/ i < Len(Tops)
  BY <1>2
<1> QED BY <1>1, <1>2, <1>3, <1>4, <1>5

(* The sets of places that are counted grow by the command that is replayed. *)
LEMMA PlacesGrow ==
  ASSUME Counting, NEW cmd \in Commands, past' = Append(past, cmd)
  PROVE  /\ past' \in Seq(Commands)
         /\ \A n \in Templates :
              /\ IsFiniteSet(Places(n)) /\ Cardinality(Places(n)) \in Nat
              /\ Cardinality(Places(n)') = Cardinality(Places(n)) + (IF cmd.template = n THEN 1 ELSE 0)
         /\ IsFiniteSet(Asked) /\ Cardinality(Asked) \in Nat
         /\ Cardinality(Asked') = Cardinality(Asked)
                                  + (IF Len(past) < Warmup \/ cmd.template = Pad THEN 0 ELSE 1)
<1>1. past \in Seq(Commands) /\ Len(past) \in Nat /\ DOMAIN past = 1..Len(past)
  BY DEF Counting
<1>2. /\ past' \in Seq(Commands) /\ DOMAIN past' = DOMAIN past \cup {Len(past) + 1}
      /\ \A i \in DOMAIN past : past'[i] = past[i]
      /\ past'[Len(past) + 1] = cmd /\ Len(past) + 1 \notin DOMAIN past
  BY <1>1
<1>3. IsFiniteSet(DOMAIN past)
  BY <1>1, FS_Interval
<1>4. ASSUME NEW n \in Templates
      PROVE  /\ IsFiniteSet(Places(n)) /\ Cardinality(Places(n)) \in Nat
             /\ Cardinality(Places(n)') = Cardinality(Places(n)) + (IF cmd.template = n THEN 1 ELSE 0)
  <2>1. IsFiniteSet(Places(n)) /\ Cardinality(Places(n)) \in Nat
    <3>1. Places(n) \in SUBSET DOMAIN past BY DEF Places
    <3> QED BY <1>3, <3>1, FS_Subset, FS_CardinalityType
  <2>2. Places(n)' = IF cmd.template = n THEN Places(n) \cup {Len(past) + 1} ELSE Places(n)
    BY <1>2 DEF Places
  <2>3. Len(past) + 1 \notin Places(n) BY <1>2 DEF Places
  <2>4. Cardinality(Places(n) \cup {Len(past) + 1}) = Cardinality(Places(n)) + 1
    BY <2>1, <2>3, FS_AddElement
  <2>5. CASE cmd.template = n
    <3>1. Places(n)' = Places(n) \cup {Len(past) + 1} BY <2>2, <2>5
    <3> QED BY <2>1, <2>4, <2>5, <3>1
  <2>6. CASE cmd.template # n
    <3>1. Places(n)' = Places(n) BY <2>2, <2>6
    <3> QED BY <2>1, <2>6, <3>1
  <2> QED BY <2>5, <2>6
<1>5. IsFiniteSet(Asked) /\ Cardinality(Asked) \in Nat
  <2>1. Asked \in SUBSET DOMAIN past BY DEF Asked
  <2> QED BY <1>3, <2>1, FS_Subset, FS_CardinalityType
<1>6. Cardinality(Asked') = Cardinality(Asked)
                            + (IF Len(past) < Warmup \/ cmd.template = Pad THEN 0 ELSE 1)
  <2>1. Warmup \in Nat BY ReplayAssumption
  <2>2. Asked' = IF Len(past) < Warmup \/ cmd.template = Pad THEN Asked ELSE Asked \cup {Len(past) + 1}
    BY <1>1, <1>2, <2>1 DEF Asked
  <2>3. Len(past) + 1 \notin Asked BY <1>2 DEF Asked
  <2>4. Cardinality(Asked \cup {Len(past) + 1}) = Cardinality(Asked) + 1
    BY <1>5, <2>3, FS_AddElement
  <2>5. CASE Len(past) < Warmup \/ cmd.template = Pad
    <3>1. Asked' = Asked BY <2>2, <2>5
    <3> QED BY <1>5, <2>5, <3>1
  <2>6. CASE ~(Len(past) < Warmup \/ cmd.template = Pad)
    <3>1. Asked' = Asked \cup {Len(past) + 1} BY <2>2, <2>6
    <3> QED BY <1>5, <2>4, <2>6, <3>1
  <2> QED BY <2>5, <2>6
<1> QED BY <1>2, <1>4, <1>5, <1>6

-----------------------------------------------------------------------------
(* The rates of a result, whatever was asked. *)
Rates(res) ==
  /\ \A i, j \in DOMAIN Tops : i < j => res.top[i] <= res.top[j]
  /\ res.top[Len(Tops)] <= res.offered /\ res.offered <= res.scored
  /\ res.baseline <= res.scored

(* The result once a command is put to the model and to the baseline. *)
Put(res, b) == [res EXCEPT !.scored = @ + 1, !.baseline = @ + b]

LEMMA ScoreKeeps ==
  ASSUME NEW res \in Results, Rates(res), NEW S, NEW actual, NEW rank \in Ranks(S, actual),
         NEW b \in {0, 1}
  PROVE  /\ Score(Put(res, b), S, rank) \in Results /\ Rates(Score(Put(res, b), S, rank))
         /\ Score(Put(res, b), S, rank).scored = res.scored + 1
         /\ Score(Put(res, b), S, rank).top[Len(Tops)]
              \in {res.top[Len(Tops)], res.top[Len(Tops)] + (IF actual \in S THEN 1 ELSE 0)}
<1> DEFINE asked == Put(res, b)
           new == Score(asked, S, rank)
           bonus(i) == IF rank <= Tops[i] THEN 1 ELSE 0
<1>1. /\ res.scored \in Nat /\ res.offered \in Nat /\ res.baseline \in Nat
      /\ \A i \in DOMAIN Tops : res.top[i] \in Nat
  BY DEF Results
<1>2. asked = [scored |-> res.scored + 1, offered |-> res.offered,
               baseline |-> res.baseline + b, top |-> res.top]
  <2>1. res \in [scored : Nat, offered : Nat, baseline : Nat, top : [DOMAIN Tops -> Nat]]
    BY DEF Results
  <2>2. Put(res, b) = [res EXCEPT !.scored = res.scored + 1, !.baseline = res.baseline + b]
    BY DEF Put
  <2> QED BY <2>1, <2>2
<1> HIDE DEF asked
<1>3. new = [scored |-> res.scored + 1, offered |-> res.offered + (IF S = {} THEN 0 ELSE 1),
             baseline |-> res.baseline + b, top |-> [i \in DOMAIN Tops |-> res.top[i] + bonus(i)]]
  <2>1. asked.offered = res.offered /\ asked.top = res.top BY <1>2
  <2>2. new = [asked EXCEPT !.offered = res.offered + (IF S = {} THEN 0 ELSE 1),
                            !.top = [i \in DOMAIN Tops |-> res.top[i] + bonus(i)]]
    BY <2>1 DEF Score, Offered
  <2> HIDE DEF new, bonus
  <2> QED BY <1>2, <2>2
<1> HIDE DEF new
<1>4. rank \in Int /\ (S = {} => rank = MaxRank + 1)
  <2>1. MaxRank \in Nat BY TopsFacts
  <2>2. CASE actual \in S BY <2>2 DEF Ranks
  <2>3. CASE actual \notin S BY <2>1, <2>3 DEF Ranks
  <2> QED BY <2>2, <2>3
<1>5. /\ new.scored = res.scored + 1 /\ new.baseline = res.baseline + b
      /\ new.offered = res.offered + (IF S = {} THEN 0 ELSE 1)
      /\ new.top = [i \in DOMAIN Tops |-> res.top[i] + bonus(i)]
  BY <1>3
<1>6. \A i \in DOMAIN Tops : new.top[i] = res.top[i] + bonus(i) /\ bonus(i) \in {0, 1}
  BY <1>5
<1>7. new \in Results
  <2>1. new.top \in [DOMAIN Tops -> Nat] BY <1>1, <1>5, <1>6
  <2>2. (IF S = {} THEN 0 ELSE 1) \in Nat OBVIOUS
  <2> QED BY <1>1, <1>3, <1>5, <2>1, <2>2 DEF Results
<1>8. ASSUME NEW i \in DOMAIN Tops, NEW j \in DOMAIN Tops, i < j
      PROVE  new.top[i] <= new.top[j]
  <2>1. res.top[i] <= res.top[j] BY <1>8 DEF Rates
  <2>2. Tops[i] \in Nat /\ Tops[j] \in Nat /\ Tops[i] < Tops[j] BY <1>8, TopsFacts
  <2>3. bonus(i) <= bonus(j) BY <1>4, <2>2
  <2> HIDE DEF bonus
  <2> QED BY <1>1, <1>6, <2>1, <2>3
<1>9. new.top[Len(Tops)] <= new.offered
  <2>1. /\ res.top[Len(Tops)] <= res.offered /\ Len(Tops) \in DOMAIN Tops
        /\ Tops[Len(Tops)] \in Nat /\ MaxRank = Tops[Len(Tops)]
    BY TopsFacts DEF Rates
  <2>2. S = {} => bonus(Len(Tops)) = 0 BY <1>4, <2>1
  <2> HIDE DEF bonus
  <2> QED BY <1>1, <1>5, <1>6, <2>1, <2>2
<1>10. new.offered <= new.scored /\ new.baseline <= new.scored
  BY <1>1, <1>5 DEF Rates
<1>11. new.top[Len(Tops)] \in {res.top[Len(Tops)], res.top[Len(Tops)] + (IF actual \in S THEN 1 ELSE 0)}
  <2>1. Len(Tops) \in DOMAIN Tops /\ Tops[Len(Tops)] = MaxRank /\ MaxRank \in Nat BY TopsFacts
  <2>2. actual \notin S => bonus(Len(Tops)) = 0 BY <2>1 DEF Ranks
  <2> HIDE DEF bonus
  <2> QED BY <1>1, <1>6, <2>1, <2>2
<1> QED BY <1>5, <1>7, <1>8, <1>9, <1>10, <1>11 DEF Rates, new, asked

RatesInv == Counting /\ Rates(result) /\ result.scored = Cardinality(Asked)

LEMMA RatesInit == Init => RatesInv
<1> SUFFICES ASSUME Init PROVE RatesInv
  OBVIOUS
<1>1. past = <<>> /\ Asked = {} BY DEF Init, Asked
<1>2. result \in Results /\ freq \in [Templates -> Nat] BY DEF Init, Results
<1>3. Rates(result) BY TopsFacts DEF Init, Rates
<1>4. result.scored = 0 BY DEF Init
<1>5. past \in Seq(Commands) BY <1>1
<1>6. Cardinality(Asked) = 0 BY <1>1, FS_EmptySet
<1> QED BY <1>2, <1>3, <1>4, <1>5, <1>6 DEF RatesInv, Counting

LEMMA RatesStep == RatesInv /\ [Next]_vars => RatesInv'
<1> SUFFICES ASSUME RatesInv, [Next]_vars PROVE RatesInv'
  OBVIOUS
<1>1. CASE UNCHANGED vars
  BY <1>1 DEF vars, RatesInv, Counting, Asked
<1>2. CASE Next
  <2>1. PICK cmd \in Commands : Replay(cmd)
    BY <1>2 DEF Next, Commands
  <2>2. past' = Append(past, cmd) /\ Predicted(cmd) /\ Remember(cmd)
    BY <2>1 DEF Replay
  <2>3. freq' \in [Templates -> Nat]
    BY <2>2 DEF Remember, Commands, RatesInv, Counting
  <2>4. result' \in Results /\ Rates(result')
        /\ result'.scored = result.scored + (IF Len(past) < Warmup \/ cmd.template = Pad THEN 0 ELSE 1)
    <3>1. CASE Len(past) < Warmup \/ cmd.template = Pad
      BY <2>2, <3>1 DEF Predicted, RatesInv, Counting, Results
    <3>2. CASE ~(Len(past) < Warmup \/ cmd.template = Pad)
      <4> DEFINE more == IF mostFrequent = cmd.template THEN 1 ELSE 0
      <4>1. PICK S \in Offers(cmd.cwd, prev) :
              \E rank \in Ranks(S, cmd.template) : result' = Score(Put(result, more), S, rank)
        BY <2>2, <3>2 DEF Predicted, Put
      <4>2. PICK rank \in Ranks(S, cmd.template) : result' = Score(Put(result, more), S, rank)
        BY <4>1
      <4>3. more \in {0, 1} OBVIOUS
      <4>4. result \in Results /\ Rates(result) BY DEF RatesInv, Counting
      <4> HIDE DEF more
      <4>5. /\ Score(Put(result, more), S, rank) \in Results /\ Rates(Score(Put(result, more), S, rank))
            /\ Score(Put(result, more), S, rank).scored = result.scored + 1
        BY <4>2, <4>3, <4>4, ScoreKeeps
      <4> QED BY <3>2, <4>2, <4>5
    <3> QED BY <3>1, <3>2
  <2>5. past' \in Seq(Commands)
        /\ Cardinality(Asked') = Cardinality(Asked)
                                 + (IF Len(past) < Warmup \/ cmd.template = Pad THEN 0 ELSE 1)
    BY <2>2, PlacesGrow DEF RatesInv
  <2> QED BY <2>3, <2>4, <2>5 DEF RatesInv, Counting
<1> QED BY <1>1, <1>2

(* Whatever is replayed, and whatever the model answers, a hit at one depth is one at
   every deeper one, and hits, offers and guesses are fractions of the commands that
   were scored, which are all the nonempty ones after the warm-up. *)
THEOREM RatesTheorem == Spec => []RatesCompare
<1>1. RatesInv => RatesCompare
  BY DEF RatesInv, Rates, RatesCompare, Asked
<1> QED BY <1>1, RatesInit, RatesStep, PTL DEF Spec

-----------------------------------------------------------------------------
(* The baseline. *)
ModeInv == Counting /\ mostFrequent \in Templates \cup {Pad} /\ BaselineIsMode

LEMMA LeaderLeads ==
  ASSUME ModeInv, NEW n \in Templates, freq' = [freq EXCEPT ![n] = @ + 1], mostFrequent' = Leader(n)
  PROVE  mostFrequent' \in Templates /\ freq'[n] > 0 /\ \A m \in Templates : freq'[m] <= freq'[mostFrequent']
<1>1. /\ \A m \in Templates : freq[m] \in Nat /\ freq'[m] = freq[m] + (IF m = n THEN 1 ELSE 0)
      /\ Pad \notin Templates
  BY ReplayAssumption DEF ModeInv, Counting
<1>2. CASE mostFrequent = Pad
  BY <1>1, <1>2 DEF Leader, ModeInv, BaselineIsMode
<1>3. CASE mostFrequent # Pad
  BY <1>1, <1>3 DEF Leader, ModeInv, BaselineIsMode
<1> QED BY <1>2, <1>3

LEMMA ModeInit == Init => ModeInv
<1> SUFFICES ASSUME Init PROVE ModeInv
  OBVIOUS
<1>1. past = <<>> /\ \A n \in Templates : Places(n) = {} /\ freq[n] = 0 BY DEF Init, Places
<1>2. result \in Results /\ freq \in [Templates -> Nat] /\ mostFrequent = Pad BY DEF Init, Results
<1>3. past \in Seq(Commands) BY <1>1
<1>4. \A n \in Templates : Cardinality(Places(n)) = 0 BY <1>1, FS_EmptySet
<1> QED BY <1>1, <1>2, <1>3, <1>4 DEF ModeInv, Counting, BaselineIsMode

LEMMA ModeStep == ModeInv /\ Counting' /\ [Next]_vars => ModeInv'
<1> SUFFICES ASSUME ModeInv, Counting', [Next]_vars PROVE ModeInv'
  OBVIOUS
<1>1. CASE UNCHANGED vars
  BY <1>1 DEF vars, ModeInv, BaselineIsMode, Places
<1>2. CASE Next
  <2>1. PICK cmd \in Commands : past' = Append(past, cmd) /\ Remember(cmd)
    BY <1>2 DEF Next, Commands, Replay
  <2>2. \A n \in Templates :
          Cardinality(Places(n)') = Cardinality(Places(n)) + (IF cmd.template = n THEN 1 ELSE 0)
    BY <2>1, PlacesGrow DEF ModeInv
  <2>3. Pad \notin Templates BY ReplayAssumption
  <2>4. CASE cmd.template = Pad
    <3>1. freq' = freq /\ mostFrequent' = mostFrequent BY <2>1, <2>4 DEF Remember
    <3>2. \A n \in Templates : Cardinality(Places(n)') = freq'[n]
      BY <2>2, <2>3, <2>4, <3>1 DEF ModeInv, BaselineIsMode, Counting
    <3> QED BY <3>1, <3>2 DEF ModeInv, BaselineIsMode
  <2>5. CASE cmd.template # Pad
    <3>1. /\ cmd.template \in Templates
          /\ freq' = [freq EXCEPT ![cmd.template] = @ + 1] /\ mostFrequent' = Leader(cmd.template)
      BY <2>1, <2>5 DEF Remember, Commands
    <3>2. \A n \in Templates : Cardinality(Places(n)') = freq'[n]
      BY <2>2, <3>1 DEF ModeInv, BaselineIsMode, Counting
    <3>3. /\ mostFrequent' \in Templates /\ freq'[cmd.template] > 0
          /\ \A m \in Templates : freq'[m] <= freq'[mostFrequent']
      BY <3>1, LeaderLeads
    <3> QED BY <2>3, <3>1, <3>2, <3>3 DEF ModeInv, BaselineIsMode
  <2> QED BY <2>4, <2>5
<1> QED BY <1>1, <1>2

(* The baseline always guesses a command that none has outrun in the history so far. *)
THEOREM BaselineTheorem == Spec => []BaselineIsMode
<1>1. RatesInv => Counting BY DEF RatesInv
<1>2. RatesInv /\ ModeInv /\ [Next]_vars => (RatesInv /\ ModeInv)'
  BY RatesStep, ModeStep, <1>1 DEF RatesInv
<1>3. ModeInv => BaselineIsMode BY DEF ModeInv
<1> QED BY <1>2, <1>3, RatesInit, ModeInit, PTL DEF Spec

-----------------------------------------------------------------------------
(* No command is predicted from itself or from later ones.  What the graph knows was
   learned from some command of the past, under contexts that end in the one
   before it; and a query asks for contexts that end in the last command, or for
   the empty one, which is never learned. *)
Names == Dirs \cup Templates \cup {Pad}
EndsIn(n) == {key \in Seq(Names) : key # <<>> /\ key[Len(key)] = n}

LEMMA TailEnds ==
  ASSUME NEW n, NEW key \in EndsIn(n), Len(key) > 1 PROVE Tail(key) \in EndsIn(n)
<1>1. key \in Seq(Names) /\ key # <<>> /\ key[Len(key)] = n /\ Len(key) \in Nat BY DEF EndsIn
<1>2. /\ Tail(key) \in Seq(Names) /\ Len(Tail(key)) = Len(key) - 1
      /\ \A i \in 1..Len(Tail(key)) : Tail(key)[i] = key[i + 1]
  BY <1>1
<1>3. Tail(key)[Len(Tail(key))] = n /\ Tail(key) # <<>> BY <1>1, <1>2
<1> QED BY <1>2, <1>3 DEF EndsIn

LEMMA InDirEnds ==
  ASSUME NEW d \in Dirs \cup {Pad}, NEW a \in Templates \cup {Pad}, NEW b \in Templates \cup {Pad}
  PROVE  InDir(d, <<a, b>>) \in EndsIn(b) /\ Len(InDir(d, <<a, b>>)) = IF d = Pad THEN 2 ELSE 3
<1>1. CASE d = Pad
  BY <1>1 DEF InDir, EndsIn, Names
<1>2. CASE d # Pad
  <2>1. InDir(d, <<a, b>>) = <<d>> \o <<a, b>> BY <1>2 DEF InDir
  <2>2. <<d>> \in Seq(Names) /\ <<a, b>> \in Seq(Names) BY DEF Names
  <2>3. Len(<<d>>) = 1 /\ Len(<<a, b>>) = 2 /\ <<a, b>>[2] = b OBVIOUS
  <2> DEFINE key == <<d>> \o <<a, b>>
  <2>4. key \in Seq(Names) /\ Len(key) = 3 /\ key[3] = b
    <3>1. /\ key \in Seq(Names) /\ Len(key) = 1 + 2
          /\ \A i \in 1..(1 + 2) : key[i] = IF i <= 1 THEN <<d>>[i] ELSE <<a, b>>[i - 1]
      BY <2>2, <2>3, ConcatProperties
    <3> QED BY <2>3, <3>1
  <2> HIDE DEF key
  <2>5. key # <<>>
    <3>1. Len(key) = 3 /\ Len(<<>>) = 0 /\ 3 # 0 BY <2>4
    <3> QED BY <3>1, Zenon
  <2> QED BY <1>2, <2>1, <2>4, <2>5 DEF EndsIn, key
<1> QED BY <1>1, <1>2

LEMMA LadderEnds ==
  ASSUME NEW d \in Dirs \cup {Pad}, NEW a \in Templates \cup {Pad}, NEW b \in Templates \cup {Pad}
  PROVE  Ladder(d, <<a, b>>) \in Seq(EndsIn(b) \cup {<<>>}) /\ Len(Ladder(d, <<a, b>>)) > 0
<1> DEFINE W == EndsIn(b) \cup {<<>>}
           t == <<a, b>>
           above == [j \in DOMAIN Ancestors(d) |-> InDir(Ancestors(d)[j], t)]
           shorter == [j \in 1..(Len(t) + 1) |-> SubSeq(t, j, Len(t))]
<1>1. <<InDir(d, t)>> \in Seq(W)
  <2>1. InDir(d, t) \in W BY InDirEnds
  <2> HIDE DEF W
  <2> QED BY <2>1
<1>2. above \in Seq(W)
  <2>1. Ancestors(d) \in Seq(Dirs) BY ContextsAssumption DEF Ancestors
  <2>2. \A j \in DOMAIN Ancestors(d) : InDir(Ancestors(d)[j], t) \in W
    BY <2>1, InDirEnds, ElementOfSeq
  <2>3. DOMAIN above = 1..Len(Ancestors(d)) /\ Len(Ancestors(d)) \in Nat BY <2>1
  <2> QED BY <2>2, <2>3, IsASeq
<1>3. shorter \in Seq(W)
  <2>1. t \in Seq(Names) /\ Len(t) = 2 BY DEF Names
  <2>2. ASSUME NEW j \in 1..3 PROVE SubSeq(t, j, 2) \in W
    <3>1. j = 3 => SubSeq(t, j, 2) = <<>> BY <2>1
    <3>2. j < 3 => /\ SubSeq(t, j, 2) \in Seq(Names) /\ Len(SubSeq(t, j, 2)) = 3 - j
                   /\ SubSeq(t, j, 2)[3 - j] = t[2]
      BY <2>1, SubSeqProperties
    <3>3. ASSUME j < 3 PROVE SubSeq(t, j, 2) \in EndsIn(b)
      <4> DEFINE key == SubSeq(t, j, 2)
      <4>1. key \in Seq(Names) /\ Len(key) = 3 - j /\ key[3 - j] = b BY <3>2, <3>3
      <4> HIDE DEF key
      <4>2. key # <<>> /\ key[Len(key)] = b BY <3>3, <4>1
      <4> QED BY <4>1, <4>2 DEF EndsIn, key
    <3> QED BY <3>1, <3>3
  <2> QED BY <2>1, <2>2, IsASeq
<1>4. Ladder(d, t) = <<InDir(d, t)>> \o above \o shorter
  BY DEF Ladder
<1> HIDE DEF W, above, shorter, t
<1>5. Ladder(d, t) \in Seq(W) /\ Len(Ladder(d, t)) = 1 + Len(above) + Len(shorter)
  BY <1>1, <1>2, <1>3, <1>4, ConcatProperties
<1>6. Len(above) \in Nat /\ Len(shorter) \in Nat BY <1>2, <1>3
<1> QED BY <1>5, <1>6 DEF W, t

LEMMA LearnedEnds ==
  ASSUME NEW cmd \in Commands, NEW a \in Templates \cup {Pad}, NEW b \in Templates \cup {Pad},
         prev = <<a, b>>, NEW o \in DOMAIN Learned(cmd)
  PROVE  o \in DOMAIN graph \/ (o.key \in EndsIn(b) /\ o.next = cmd.template)
<1> DEFINE state == InDir(cmd.cwd, prev)
           templates == IF cmd.cwd # Pad THEN Tail(state) ELSE state
           states == BackoffStates(state, cmd.cwd # Pad)
<1>1. state \in EndsIn(b) /\ Len(state) = (IF cmd.cwd = Pad THEN 2 ELSE 3)
  BY InDirEnds DEF Commands
<1>2. templates \in EndsIn(b)
  <2> HIDE DEF state
  <2> QED BY <1>1, TailEnds
<1>3. states \subseteq EndsIn(b)
  <2> HIDE DEF state
  <2>1. Len(templates) > 1 => Tail(templates) \in EndsIn(b) BY <1>2, TailEnds
  <2>2. states \subseteq {state, templates} \cup (IF Len(templates) > 1 THEN {Tail(templates)} ELSE {})
    BY DEF BackoffStates
  <2> QED BY <1>1, <1>2, <2>1, <2>2
<1>4. <<b>> \in EndsIn(b)
  BY DEF EndsIn, Names
<1> HIDE DEF state, states
<1>5. ASSUME NEW bag, NEW keys
      PROVE  DOMAIN Observe(bag, keys, cmd.template)
               = DOMAIN bag \cup {[key |-> k, next |-> cmd.template] : k \in keys}
  BY DEF Observe, (+), SetToBag
<1>6. \E more \in SUBSET {<<b>>} :
        Learned(cmd) = Observe(Observe(graph, states, cmd.template), more, cmd.template)
  BY DEF Learned, states, state
<1>7. PICK more \in SUBSET {<<b>>} :
        Learned(cmd) = Observe(Observe(graph, states, cmd.template), more, cmd.template)
  BY <1>6
<1>8. DOMAIN Learned(cmd) = (DOMAIN graph \cup {[key |-> k, next |-> cmd.template] : k \in states})
                            \cup {[key |-> k, next |-> cmd.template] : k \in more}
  BY <1>5, <1>7
<1>9. CASE o \in DOMAIN graph
  BY <1>9
<1>10. CASE o \notin DOMAIN graph
  <2>1. PICK k \in states \cup more : o = [key |-> k, next |-> cmd.template]
    BY <1>8, <1>10
  <2> QED BY <1>3, <1>4, <2>1
<1> QED BY <1>9, <1>10

LEMMA OffersKnown ==
  ASSUME NEW d \in Dirs \cup {Pad}, NEW a \in Templates \cup {Pad}, NEW b \in Templates \cup {Pad},
         NEW S \in Offers(d, <<a, b>>), NEW n \in S
  PROVE  \E key \in EndsIn(b) \cup {<<>>} : [key |-> key, next |-> n] \in DOMAIN graph
<1> DEFINE ladder == Ladder(d, <<a, b>>)
           rungs == [i \in DOMAIN ladder |-> Returned(ladder[i])]
<1>1. ladder \in Seq(EndsIn(b) \cup {<<>>}) /\ Len(ladder) > 0 BY LadderEnds
<1>2. PICK i \in DOMAIN ladder : S \in Returned(ladder[i])
  <2>1. \/ S \in rungs[1]
        \/ S = {}
        \/ \E i \in 2..Len(rungs) : S \in rungs[i]
    BY DEF Offers
  <2> HIDE DEF ladder
  <2>2. DOMAIN ladder = 1..Len(ladder) /\ Len(ladder) \in Nat /\ Len(rungs) = Len(ladder)
    BY <1>1
  <2> QED BY <1>1, <2>1, <2>2
<1>3. ladder[i] \in EndsIn(b) \cup {<<>>} BY <1>1, <1>2, ElementOfSeq
<1>4. n \in Known(ladder[i])
  BY <1>2 DEF Returned, kSubset
<1> QED BY <1>3, <1>4 DEF Known, Count, BagIn, BagToSet

Earned == {i \in DOMAIN past : /\ i > Warmup /\ past[i].template # Pad
                               /\ \E j \in 1..(i - 1) : /\ past[j].template = past[i].template
                                                        /\ Before(j) = Before(i)}
FromPast ==
  \A o \in DOMAIN graph : /\ o.key # <<>>
                          /\ \E j \in DOMAIN past : /\ past[j].template = o.next
                                                    /\ Before(j) = o.key[Len(o.key)]
EarnedInv ==
  /\ FromPast /\ HitsAreEarned
  /\ prev \in (Templates \cup {Pad}) \X (Templates \cup {Pad}) /\ prev[2] = Before(Len(past) + 1)

LEMMA EarnedGrows ==
  ASSUME Counting, NEW cmd \in Commands, past' = Append(past, cmd)
  PROVE  LET hit == /\ Len(past) >= Warmup /\ cmd.template # Pad
                    /\ \E j \in DOMAIN past : /\ past[j].template = cmd.template
                                              /\ Before(j) = Before(Len(past) + 1)
         IN  /\ \A i \in 1..(Len(past) + 1) : Before(i)' = Before(i)
             /\ DOMAIN past' = DOMAIN past \cup {Len(past) + 1}
             /\ \A i \in DOMAIN past : past'[i] = past[i]
             /\ past'[Len(past) + 1] = cmd /\ Before(Len(past) + 1)' = cmd.template
             /\ Len(past') = Len(past) + 1
             /\ Cardinality(Earned) \in Nat
             /\ Cardinality(Earned)' = Cardinality(Earned) + (IF hit THEN 1 ELSE 0)
<1> DEFINE hit == /\ Len(past) >= Warmup /\ cmd.template # Pad
                  /\ \E j \in DOMAIN past : /\ past[j].template = cmd.template
                                            /\ Before(j) = Before(Len(past) + 1)
<1>1. /\ past \in Seq(Commands) /\ Len(past) \in Nat /\ DOMAIN past = 1..Len(past) /\ Warmup \in Nat
  BY ReplayAssumption DEF Counting
<1> PICK new \in Nat : new = Len(past) + 1
  BY <1>1
<1>2. /\ DOMAIN past' = 1..new /\ Len(past') = new /\ past'[new] = cmd /\ new \notin DOMAIN past
      /\ \A i \in DOMAIN past : past'[i] = past[i]
  BY <1>1
<1>3. \A i \in 1..new : Before(i)' = Before(i)
  BY <1>1, <1>2 DEF Before
<1>4. Before(Len(past) + 1)' = cmd.template
  BY <1>1, <1>2 DEF Before
<1>5. IsFiniteSet(Earned) /\ Cardinality(Earned) \in Nat
  <2>1. Earned \in SUBSET DOMAIN past BY DEF Earned
  <2>2. IsFiniteSet(DOMAIN past) BY <1>1, FS_Interval
  <2> QED BY <2>1, <2>2, FS_Subset, FS_CardinalityType
<1>6. Earned' = Earned \cup (IF hit THEN {new} ELSE {})
  <2>1. ASSUME NEW i \in DOMAIN past PROVE i \in Earned' <=> i \in Earned
    <3>1. i \in DOMAIN past' /\ past'[i] = past[i] /\ Before(i)' = Before(i)
      BY <1>1, <1>2, <1>3, <2>1
    <3>2. \A j \in 1..(i - 1) : past'[j] = past[j] /\ Before(j)' = Before(j)
      BY <1>1, <1>2, <1>3, <2>1
    <3> QED BY <2>1, <3>1, <3>2 DEF Earned
  <2>2. new \in Earned' <=> hit
    <3>1. \A j \in 1..(new - 1) : past'[j] = past[j] /\ Before(j)' = Before(j) /\ j \in DOMAIN past
      BY <1>1, <1>2, <1>3
    <3>2. Before(new)' = Before(new) /\ new \in DOMAIN past' /\ (new > Warmup <=> Len(past) >= Warmup)
      BY <1>1, <1>2, <1>3
    <3>3. DOMAIN past = 1..(new - 1) BY <1>1
    <3> QED BY <1>2, <3>1, <3>2, <3>3 DEF Earned
  <2>3. Earned' \subseteq DOMAIN past' /\ Earned \subseteq DOMAIN past BY DEF Earned
  <2> HIDE DEF hit
  <2> QED BY <1>1, <1>2, <2>1, <2>2, <2>3
<1>7. Cardinality(Earned \cup {new}) = Cardinality(Earned) + 1
  <2>1. new \notin Earned BY <1>2 DEF Earned
  <2> QED BY <1>5, <2>1, FS_AddElement
<1>8. Cardinality(Earned)' = Cardinality(Earned) + (IF hit THEN 1 ELSE 0)
  <2> HIDE DEF hit
  <2>1. CASE hit
    <3>1. Earned' = Earned \cup {new} BY <1>6, <2>1
    <3> QED BY <1>7, <2>1, <3>1
  <2>2. CASE ~hit
    <3>1. Earned' = Earned BY <1>6, <2>2
    <3> QED BY <1>5, <2>2, <3>1
  <2> QED BY <2>1, <2>2
<1>9. DOMAIN past' = DOMAIN past \cup {new} BY <1>1, <1>2
<1> QED BY <1>2, <1>3, <1>4, <1>5, <1>8, <1>9

LEMMA EarnedInit == Init => EarnedInv
<1> SUFFICES ASSUME Init PROVE EarnedInv
  OBVIOUS
<1>1. past = <<>> /\ prev = <<Pad, Pad>> /\ DOMAIN graph = {}
  BY DEF Init, EmptyBag, SetToBag
<1>2. FromPast BY <1>1 DEF FromPast
<1>3. HitsAreEarned
  <2>1. Earned = {} BY <1>1 DEF Earned
  <2>2. result.top[Len(Tops)] = 0 BY TopsFacts DEF Init
  <2>3. Cardinality(Earned) = 0 BY <2>1, FS_EmptySet
  <2> QED BY <2>2, <2>3 DEF HitsAreEarned, Earned
<1>4. Before(Len(past) + 1) = Pad BY <1>1 DEF Before
<1> QED BY <1>1, <1>2, <1>3, <1>4 DEF EarnedInv

LEMMA EarnedStep == RatesInv /\ EarnedInv /\ [Next]_vars => EarnedInv'
<1> SUFFICES ASSUME RatesInv, EarnedInv, [Next]_vars PROVE EarnedInv'
  OBVIOUS
<1>1. CASE UNCHANGED vars
  BY <1>1 DEF vars, EarnedInv, FromPast, HitsAreEarned, Before
<1>2. CASE Next
  <2>1. PICK cmd \in Commands : /\ past' = Append(past, cmd) /\ Predicted(cmd) /\ Remember(cmd)
                                /\ prev' = <<prev[2], cmd.template>>
    BY <1>2 DEF Next, Commands, Replay
  <2> DEFINE hit == /\ Len(past) >= Warmup /\ cmd.template # Pad
                    /\ \E j \in DOMAIN past : /\ past[j].template = cmd.template
                                              /\ Before(j) = Before(Len(past) + 1)
  <2>2. Counting BY DEF RatesInv
  <2>3. /\ \A i \in 1..(Len(past) + 1) : Before(i)' = Before(i)
        /\ DOMAIN past' = DOMAIN past \cup {Len(past) + 1}
        /\ \A i \in DOMAIN past : past'[i] = past[i]
        /\ past'[Len(past) + 1] = cmd /\ Before(Len(past) + 1)' = cmd.template
        /\ Len(past') = Len(past) + 1
        /\ Cardinality(Earned) \in Nat
        /\ Cardinality(Earned)' = Cardinality(Earned) + (IF hit THEN 1 ELSE 0)
    BY <2>1, <2>2, EarnedGrows
  <2>4. Len(past) \in Nat /\ DOMAIN past = 1..Len(past) BY <2>2 DEF Counting
  <2>5. PICK a \in Templates \cup {Pad}, b \in Templates \cup {Pad} : prev = <<a, b>>
    BY DEF EarnedInv
  <2>6. b = Before(Len(past) + 1) BY <2>5 DEF EarnedInv
  <2>7. /\ prev' \in (Templates \cup {Pad}) \X (Templates \cup {Pad})
        /\ prev'[2] = Before(Len(past) + 1)'
    <3>1. prev' = <<b, cmd.template>> BY <2>1, <2>5
    <3>2. cmd.template \in Templates \cup {Pad} BY DEF Commands
    <3>3. Before(Len(past) + 1)' = cmd.template BY <2>1, <2>3, <2>4 DEF Before
    <3> QED BY <3>1, <3>2, <3>3
  <2>8. FromPast'
    <3> SUFFICES ASSUME NEW o \in DOMAIN graph'
                 PROVE  /\ o.key # <<>>
                        /\ \E j \in DOMAIN past' : past'[j].template = o.next
                                                   /\ Before(j)' = o.key[Len(o.key)]
      BY DEF FromPast
    <3>1. o \in DOMAIN graph \/ (o.key \in EndsIn(b) /\ o.next = cmd.template)
      BY <2>1, <2>5, LearnedEnds DEF Remember
    <3>2. CASE o \in DOMAIN graph
      <4>1. o.key # <<>> BY <3>2 DEF EarnedInv, FromPast
      <4>2. PICK j \in DOMAIN past : past[j].template = o.next /\ Before(j) = o.key[Len(o.key)]
        BY <3>2 DEF EarnedInv, FromPast
      <4>3. j \in DOMAIN past' /\ past'[j] = past[j] /\ Before(j)' = Before(j)
        BY <2>3, <2>4, <4>2
      <4> QED BY <4>1, <4>2, <4>3
    <3>3. CASE o.key \in EndsIn(b) /\ o.next = cmd.template
      <4>1. o.key # <<>> /\ o.key[Len(o.key)] = b BY <3>3 DEF EndsIn
      <4>2. PICK n \in Nat : n = Len(past) + 1 BY <2>4
      <4>3. n \in DOMAIN past' /\ past'[n] = cmd /\ Before(n)' = b
        BY <2>3, <2>4, <2>6, <4>2
      <4> QED BY <3>3, <4>1, <4>3
    <3> QED BY <3>1, <3>2, <3>3
  <2>9. result.top[Len(Tops)] \in Nat
    BY TopsFacts DEF RatesInv, Counting, Results
  <2>10. result'.top[Len(Tops)] \in {result.top[Len(Tops)], result.top[Len(Tops)] + (IF hit THEN 1 ELSE 0)}
    <3>1. CASE Len(past) < Warmup \/ cmd.template = Pad
      BY <2>1, <3>1 DEF Predicted
    <3>2. CASE ~(Len(past) < Warmup \/ cmd.template = Pad)
      <4> DEFINE more == IF mostFrequent = cmd.template THEN 1 ELSE 0
      <4>1. PICK S \in Offers(cmd.cwd, prev) :
              \E rank \in Ranks(S, cmd.template) : result' = Score(Put(result, more), S, rank)
        <5>1. Predicted(cmd) BY <2>1
        <5> HIDE DEF hit
        <5> QED BY <3>2, <5>1 DEF Predicted, Put
      <4>2. PICK rank \in Ranks(S, cmd.template) : result' = Score(Put(result, more), S, rank)
        BY <4>1
      <4>3. more \in {0, 1} OBVIOUS
      <4>4. result \in Results /\ Rates(result) BY DEF RatesInv, Counting
      <4> HIDE DEF more
      <4>5. result'.top[Len(Tops)]
              \in {result.top[Len(Tops)], result.top[Len(Tops)] + (IF cmd.template \in S THEN 1 ELSE 0)}
        BY <4>2, <4>3, <4>4, ScoreKeeps
      <4>6. cmd.template \in S => hit
        <5> SUFFICES ASSUME cmd.template \in S PROVE hit
          OBVIOUS
        <5>1. PICK key \in EndsIn(b) \cup {<<>>} : [key |-> key, next |-> cmd.template] \in DOMAIN graph
          BY <2>5, <4>1, OffersKnown DEF Commands
        <5>2. /\ key # <<>>
              /\ \E j \in DOMAIN past : past[j].template = cmd.template /\ Before(j) = key[Len(key)]
          BY <5>1 DEF EarnedInv, FromPast
        <5>3. key[Len(key)] = b BY <5>1, <5>2 DEF EndsIn
        <5>4. Len(past) >= Warmup BY <2>4, <3>2, ReplayAssumption
        <5> QED BY <2>6, <3>2, <5>2, <5>3, <5>4
      <4> HIDE DEF hit
      <4> QED BY <2>9, <4>5, <4>6
    <3> QED BY <3>1, <3>2
  <2>11. result.top[Len(Tops)] <= Cardinality(Earned)
    BY DEF EarnedInv, HitsAreEarned, Earned
  <2>12. HitsAreEarned'
    <3> HIDE DEF hit
    <3>1. result'.top[Len(Tops)] <= Cardinality(Earned)'
      BY <2>3, <2>9, <2>10, <2>11
    <3> QED BY <3>1 DEF HitsAreEarned, Earned
  <2> QED BY <2>7, <2>8, <2>12 DEF EarnedInv
<1> QED BY <1>1, <1>2

(* Whatever history is replayed, and whatever the model ranks first, a hit needs the
   same two commands in a row earlier in the history. *)
THEOREM EarnedTheorem == Spec => []HitsAreEarned
<1>1. RatesInv /\ EarnedInv /\ [Next]_vars => (RatesInv /\ EarnedInv)'
  BY RatesStep, EarnedStep
<1>2. EarnedInv => HitsAreEarned BY DEF EarnedInv
<1> QED BY <1>1, <1>2, RatesInit, EarnedInit, PTL DEF Spec

-----------------------------------------------------------------------------
(* The graph is the past.  The contexts of a command: with its directory, the
   window, and the last command alone. *)
Contexts(d, a, b) ==
  {InDir(d, <<a, b>>)} \cup {s \in {<<a, b>>, <<b>>} : Informative(s)}

LEMMA TailOfCons ==
  ASSUME NEW x \in Names, NEW s \in Seq(Names) PROVE Tail(<<x>> \o s) = s
<1>1. <<x>> \in Seq(Names) /\ Len(<<x>>) = 1 /\ Len(s) \in Nat
  OBVIOUS
<1> DEFINE cons == <<x>> \o s
<1>2. /\ cons \in Seq(Names) /\ Len(cons) = 1 + Len(s)
      /\ \A i \in 1..(1 + Len(s)) : cons[i] = IF i <= 1 THEN <<x>>[i] ELSE s[i - 1]
  BY <1>1, ConcatProperties
<1> HIDE DEF cons
<1>3. cons # <<>> BY <1>1, <1>2
<1>4. /\ Tail(cons) \in Seq(Names) /\ Len(Tail(cons)) = Len(s)
      /\ \A i \in 1..Len(s) : Tail(cons)[i] = cons[i + 1]
  BY <1>1, <1>2, <1>3
<1>5. \A i \in 1..Len(s) : cons[i + 1] = s[i]
  BY <1>1, <1>2
<1>6. Tail(cons) = s
  BY <1>4, <1>5, SeqEqual
<1> QED BY <1>6 DEF cons

LEMMA StatesAreContexts ==
  ASSUME NEW d \in Dirs \cup {Pad}, NEW a \in Templates \cup {Pad}, NEW b \in Templates \cup {Pad}
  PROVE  BackoffStates(InDir(d, <<a, b>>), d # Pad) = Contexts(d, a, b)
<1> DEFINE state == InDir(d, <<a, b>>)
           templates == IF d # Pad THEN Tail(state) ELSE state
<1>1. <<a, b>> \in Seq(Names) BY DEF Names
<1>2. templates = <<a, b>>
  <2>1. CASE d = Pad BY <2>1 DEF InDir
  <2>2. CASE d # Pad
    <3>1. state = <<d>> \o <<a, b>> BY <2>2 DEF InDir
    <3>2. d \in Names BY DEF Names
    <3> QED BY <1>1, <2>2, <3>1, <3>2, TailOfCons
  <2> QED BY <2>1, <2>2
<1>3. Tail(<<a, b>>) = <<b>> /\ Len(<<a, b>>) = 2
  OBVIOUS
<1>4. BackoffStates(state, d # Pad)
        = {state} \cup {s \in {templates} \cup (IF Len(templates) > 1 THEN {Tail(templates)} ELSE {}) : Informative(s)}
  BY DEF BackoffStates
<1> HIDE DEF templates, state
<1>5. {templates} \cup (IF Len(templates) > 1 THEN {Tail(templates)} ELSE {}) = {<<a, b>>, <<b>>}
  BY <1>2, <1>3
<1> QED BY <1>4, <1>5 DEF Contexts, state

(* What an observation adds to a count. *)
Copies(bag, o) == IF o \in DOMAIN bag THEN bag[o] ELSE 0

LEMMA ObserveCounts ==
  ASSUME NEW bag, NEW keys, NEW next, NEW key, NEW n
  PROVE  Copies(Observe(bag, keys, next), [key |-> key, next |-> n])
           = Copies(bag, [key |-> key, next |-> n]) + (IF n = next /\ key \in keys THEN 1 ELSE 0)
<1> DEFINE o == [key |-> key, next |-> n]
           more == {[key |-> k, next |-> next] : k \in keys}
<1>1. o \in more <=> n = next /\ key \in keys
  OBVIOUS
<1>2. Observe(bag, keys, next) = [e \in DOMAIN bag \cup more |->
                                    Copies(bag, e) + (IF e \in more THEN 1 ELSE 0)]
  BY DEF Observe, (+), SetToBag, Copies
<1> HIDE DEF o, more
<1>3. o \notin DOMAIN bag \cup more => Copies(bag, o) = 0 BY DEF Copies
<1>4. o \in DOMAIN bag \cup more =>
        Copies(Observe(bag, keys, next), o) = Copies(bag, o) + (IF o \in more THEN 1 ELSE 0)
  BY <1>2 DEF Copies
<1>5. o \notin DOMAIN bag \cup more => Copies(Observe(bag, keys, next), o) = 0
  BY <1>2 DEF Copies
<1> QED BY <1>1, <1>3, <1>4, <1>5 DEF o

(* Where n followed the context. *)
Followed(key, n) ==
  {i \in Places(n) : \/ key = InDir(past[i].cwd, Window(i))
                     \/ Informative(key) /\ key \in {Window(i), <<Before(i)>>}}

LEMMA OccurrencesGrow ==
  ASSUME Counting, NEW cmd \in Commands, past' = Append(past, cmd),
         NEW a, NEW b, <<a, b>> = Window(Len(past) + 1), NEW key, NEW n \in Templates
  PROVE  /\ Occurrences(key, n) \in Nat
         /\ Occurrences(key, n)' = Occurrences(key, n)
                                   + (IF n = cmd.template /\ key \in Contexts(cmd.cwd, a, b) THEN 1 ELSE 0)
<1>1. past \in Seq(Commands) /\ Len(past) \in Nat /\ DOMAIN past = 1..Len(past)
  BY DEF Counting
<1> PICK new \in Nat : new = Len(past) + 1
  BY <1>1
<1> DEFINE hit == n = cmd.template /\ key \in Contexts(cmd.cwd, a, b)
<1>2. /\ DOMAIN past' = 1..new /\ past'[new] = cmd /\ new \notin DOMAIN past
      /\ \A i \in DOMAIN past : past'[i] = past[i]
  BY <1>1
<1>3. \A i \in 1..new : Before(i)' = Before(i) /\ Window(i)' = Window(i)
  BY <1>1, <1>2 DEF Before, Window
<1>4. IsFiniteSet(Followed(key, n)) /\ Cardinality(Followed(key, n)) \in Nat
  <2>1. IsFiniteSet(Places(n)) BY PlacesGrow
  <2>2. Followed(key, n) \in SUBSET Places(n) BY DEF Followed
  <2> QED BY <2>1, <2>2, FS_Subset, FS_CardinalityType
<1>5. ASSUME NEW i \in DOMAIN past PROVE i \in Followed(key, n)' <=> i \in Followed(key, n)
  <2>1. i \in DOMAIN past' /\ past'[i] = past[i] /\ Before(i)' = Before(i) /\ Window(i)' = Window(i)
    BY <1>1, <1>2, <1>3, <1>5
  <2> QED BY <1>5, <2>1 DEF Followed, Places
<1>6. new \in Followed(key, n)' <=> hit
  <2>1. new \in Places(n)' <=> n = cmd.template
    BY <1>1, <1>2 DEF Places
  <2>2. Window(new) = <<a, b>> /\ Before(new) = b
    BY DEF Window
  <2>3. Window(new)' = <<a, b>> /\ Before(new)' = b
    BY <1>3, <2>2
  <2> QED BY <1>2, <2>1, <2>3 DEF Followed, Contexts
<1>7. Followed(key, n)' \subseteq DOMAIN past' /\ Followed(key, n) \subseteq DOMAIN past
  BY DEF Followed, Places
<1>8. Cardinality(Followed(key, n) \cup {new}) = Cardinality(Followed(key, n)) + 1
  BY <1>2, <1>4, <1>7, FS_AddElement
<1>9. DOMAIN past' = DOMAIN past \cup {new}
  BY <1>1, <1>2
<1>10. Cardinality(Followed(key, n)') = Cardinality(Followed(key, n)) + (IF hit THEN 1 ELSE 0)
  <2> HIDE DEF hit
  <2>1. CASE hit
    <3>1. Followed(key, n)' = Followed(key, n) \cup {new} BY <1>5, <1>6, <1>7, <1>9, <2>1
    <3> QED BY <1>8, <2>1, <3>1
  <2>2. CASE ~hit
    <3>1. Followed(key, n)' \subseteq DOMAIN past BY <1>6, <1>7, <1>9, <2>2
    <3>2. Followed(key, n)' = Followed(key, n) BY <1>5, <1>7, <3>1
    <3> QED BY <1>4, <2>2, <3>2
  <2> QED BY <2>1, <2>2
<1> QED BY <1>4, <1>10 DEF Occurrences, Followed

LEMMA InDirNotSingle ==
  ASSUME NEW d \in Dirs \cup {Pad}, NEW a \in Templates \cup {Pad}, NEW b \in Templates \cup {Pad}
  PROVE  Len(InDir(d, <<a, b>>)) # 1
<1>1. ASSUME NEW m \in {2, 3} PROVE m # 1
  OBVIOUS
<1>2. Len(InDir(d, <<a, b>>)) \in {2, 3}
  BY InDirEnds
<1> QED BY <1>1, <1>2

LEMMA LearnedCounts ==
  ASSUME NEW cmd \in Commands, NEW a \in Templates \cup {Pad}, NEW b \in Templates \cup {Pad},
         prev = <<a, b>>, NEW key \in Seq(Names), NEW n,
         Copies(graph, [key |-> key, next |-> n]) \in Nat
  PROVE  Copies(Learned(cmd), [key |-> key, next |-> n])
           = Copies(graph, [key |-> key, next |-> n])
             + (IF n = cmd.template /\ key \in Contexts(cmd.cwd, a, b) THEN IF Len(key) = 1 THEN 2 ELSE 1 ELSE 0)
<1> DEFINE single == IF b = Pad THEN {} ELSE {<<b>>}
           all == Contexts(cmd.cwd, a, b)
<1>1. Learned(cmd) = Observe(Observe(graph, all, cmd.template), single, cmd.template)
  BY StatesAreContexts DEF Learned, Commands
<1>2. Copies(Learned(cmd), [key |-> key, next |-> n])
        = (Copies(graph, [key |-> key, next |-> n]) + (IF n = cmd.template /\ key \in all THEN 1 ELSE 0))
          + (IF n = cmd.template /\ key \in single THEN 1 ELSE 0)
  <2> HIDE DEF single, all
  <2> QED BY <1>1, ObserveCounts
<1>3. key \in single <=> key \in all /\ Len(key) = 1
  <2>1. cmd.cwd \in Dirs \cup {Pad} BY DEF Commands
  <2>2. key = InDir(cmd.cwd, <<a, b>>) => Len(key) # 1
    BY <2>1, InDirNotSingle
  <2>3. key = <<a, b>> => Len(key) # 1
    OBVIOUS
  <2>4. key = <<b>> => Len(key) = 1 /\ (Informative(key) <=> b # Pad)
    BY DEF Informative
  <2>5. key \in all <=> \/ key = InDir(cmd.cwd, <<a, b>>)
                        \/ key = <<a, b>> /\ Informative(key)
                        \/ key = <<b>> /\ Informative(key)
    BY DEF Contexts
  <2>6. key \in single <=> key = <<b>> /\ b # Pad
    OBVIOUS
  <2> HIDE DEF single, all
  <2> QED BY <2>2, <2>3, <2>4, <2>5, <2>6
<1> HIDE DEF single, all
<1> QED BY <1>2, <1>3 DEF all

LEMMA LearnedKeys ==
  ASSUME NEW cmd \in Commands, NEW a \in Templates \cup {Pad}, NEW b \in Templates \cup {Pad}, prev = <<a, b>>
  PROVE  \A o \in DOMAIN Learned(cmd) : o \in DOMAIN graph \/ o.key \in Contexts(cmd.cwd, a, b)
<1> DEFINE single == IF b = Pad THEN {} ELSE {<<b>>}
           all == Contexts(cmd.cwd, a, b)
<1>1. Learned(cmd) = Observe(Observe(graph, all, cmd.template), single, cmd.template)
  BY StatesAreContexts DEF Learned, Commands
<1>2. single \subseteq all
  BY DEF Contexts, Informative
<1> HIDE DEF single, all
<1>3. ASSUME NEW bag, NEW keys
      PROVE  DOMAIN Observe(bag, keys, cmd.template)
               = DOMAIN bag \cup {[key |-> k, next |-> cmd.template] : k \in keys}
  BY DEF Observe, (+), SetToBag
<1>4. DOMAIN Learned(cmd) = DOMAIN graph \cup {[key |-> k, next |-> cmd.template] : k \in all}
                            \cup {[key |-> k, next |-> cmd.template] : k \in single}
  BY <1>1, <1>3
<1> QED BY <1>2, <1>4 DEF all

LEMMA WindowsGrow ==
  ASSUME Counting, NEW cmd \in Commands, past' = Append(past, cmd), NEW new \in Nat, new = Len(past) + 1
  PROVE  /\ \A i \in 1..new : Before(i)' = Before(i) /\ Window(i)' = Window(i)
         /\ Window(new + 1)' = <<Before(new), cmd.template>>
         /\ DOMAIN past' = DOMAIN past \cup {new} /\ DOMAIN past = 1..(new - 1)
         /\ past'[new] = cmd /\ \A i \in DOMAIN past : past'[i] = past[i]
         /\ Len(past') = new
<1>1. past \in Seq(Commands) /\ Len(past) = new - 1 /\ DOMAIN past = 1..(new - 1)
  BY DEF Counting
<1>2. /\ DOMAIN past' = 1..new /\ past'[new] = cmd /\ Len(past') = new
      /\ \A i \in DOMAIN past : past'[i] = past[i]
  BY <1>1
<1>3. \A i \in 1..new : Before(i)' = Before(i) /\ Window(i)' = Window(i)
  BY <1>1, <1>2 DEF Before, Window
<1>4. Window(new + 1)' = <<Before(new), cmd.template>>
  <2>1. new + 1 > 1 /\ (new + 1) - 1 = new /\ (new + 1) - 2 = new - 1 /\ (new + 1 > 2 <=> new > 1)
    OBVIOUS
  <2>2. new > 1 => past'[new - 1] = past[new - 1]
    <3>1. new > 1 => new - 1 \in 1..(new - 1) OBVIOUS
    <3> QED BY <1>1, <1>2, <3>1
  <2>3. Before(new + 1)' = cmd.template BY <1>2, <2>1 DEF Before
  <2>4. (IF new + 1 > 2 THEN past'[(new + 1) - 2].template ELSE Pad) = Before(new)
    BY <2>1, <2>2 DEF Before
  <2> QED BY <2>3, <2>4 DEF Window
<1>5. DOMAIN past' = DOMAIN past \cup {new}
  BY <1>1, <1>2
<1> QED BY <1>1, <1>2, <1>3, <1>4, <1>5

(* The contexts the history has been through. *)
Keys == {InDir(past[i].cwd, Window(i)) : i \in DOMAIN past}
        \cup {Window(i) : i \in DOMAIN past} \cup {<<Before(i)>> : i \in DOMAIN past}

(* A single command counts twice. *)
Weighted(key, k) == IF Len(key) = 1 THEN 2 * k ELSE k

PastInv ==
  /\ prev \in (Templates \cup {Pad}) \X (Templates \cup {Pad}) /\ prev = Window(Len(past) + 1)
  /\ \A key \in Seq(Names) : \A n \in Templates :
       /\ Occurrences(key, n) \in Nat
       /\ Copies(graph, [key |-> key, next |-> n]) = Weighted(key, Occurrences(key, n))
  /\ \A o \in DOMAIN graph : o.key \in Keys

LEMMA PastInit == Init => PastInv
<1> SUFFICES ASSUME Init PROVE PastInv
  OBVIOUS
<1>1. past = <<>> /\ Len(past) = 0 /\ DOMAIN past = {} BY DEF Init
<1>2. prev = <<Pad, Pad>> /\ Window(1) = <<Pad, Pad>> BY DEF Init, Window, Before
<1>3. graph = EmptyBag /\ DOMAIN graph = {} BY DEF Init, EmptyBag, SetToBag
<1>4. ASSUME NEW key \in Seq(Names), NEW n \in Templates
      PROVE  Occurrences(key, n) = 0 /\ Copies(graph, [key |-> key, next |-> n]) = 0
  <2>1. Followed(key, n) = {} BY <1>1 DEF Followed, Places
  <2>2. Cardinality(Followed(key, n)) = 0 BY <2>1, FS_EmptySet
  <2> QED BY <1>3, <2>2 DEF Occurrences, Followed, Copies
<1>5. \A key \in Seq(Names) : Weighted(key, 0) = 0 BY DEF Weighted
<1>6. prev = Window(Len(past) + 1) BY <1>1, <1>2
<1> QED BY <1>2, <1>3, <1>4, <1>5, <1>6 DEF PastInv

LEMMA PastStep == RatesInv /\ PastInv /\ [Next]_vars => PastInv'
<1> SUFFICES ASSUME RatesInv, PastInv, [Next]_vars PROVE PastInv'
  OBVIOUS
<1>1. CASE UNCHANGED vars
  <2>1. past' = past /\ prev' = prev /\ graph' = graph BY <1>1 DEF vars
  <2>2. \A i : Window(i)' = Window(i) /\ Before(i)' = Before(i) BY <2>1 DEF Window, Before
  <2>3. Window(Len(past) + 1)' = Window(Len(past) + 1) BY <2>1 DEF Window, Before
  <2>4. ASSUME NEW key, NEW n PROVE Occurrences(key, n)' = Occurrences(key, n)
    <3>1. Followed(key, n)' = Followed(key, n) BY <2>1, <2>2 DEF Followed, Places
    <3> QED BY <3>1 DEF Occurrences, Followed
  <2>5. Keys' = Keys BY <2>1, <2>2 DEF Keys
  <2> QED BY <2>1, <2>3, <2>4, <2>5 DEF PastInv
<1>2. CASE Next
  <2>1. PICK cmd \in Commands : /\ past' = Append(past, cmd) /\ Remember(cmd)
                                /\ prev' = <<prev[2], cmd.template>>
    BY <1>2 DEF Next, Commands, Replay
  <2>2. Counting /\ Len(past) \in Nat BY DEF RatesInv, Counting
  <2>3. PICK a \in Templates \cup {Pad}, b \in Templates \cup {Pad} : prev = <<a, b>>
    BY DEF PastInv
  <2>4. PICK new \in Nat : new = Len(past) + 1 BY <2>2
  <2>5. Window(new) = <<a, b>> /\ Before(new) = b BY <2>3, <2>4 DEF PastInv, Window
  <2>6. /\ \A i \in 1..new : Before(i)' = Before(i) /\ Window(i)' = Window(i)
        /\ Window(new + 1)' = <<b, cmd.template>>
        /\ DOMAIN past' = DOMAIN past \cup {new} /\ DOMAIN past = 1..(new - 1)
        /\ past'[new] = cmd /\ \A i \in DOMAIN past : past'[i] = past[i]
        /\ Len(past') = new
    BY <2>1, <2>2, <2>4, <2>5, WindowsGrow
  <2>7. cmd.template \in Templates \cup {Pad} /\ Pad \notin Templates
    BY ReplayAssumption DEF Commands
  <2>8. prev' \in (Templates \cup {Pad}) \X (Templates \cup {Pad}) /\ prev' = Window(Len(past) + 1)'
    <3>1. prev' = <<b, cmd.template>> BY <2>1, <2>3
    <3>2. Window(Len(past) + 1)' = Window(new + 1)' BY <2>6 DEF Window, Before
    <3> QED BY <2>6, <2>7, <3>1, <3>2
  <2>9. ASSUME NEW key \in Seq(Names), NEW n \in Templates
        PROVE  /\ Occurrences(key, n)' \in Nat
               /\ Copies(graph', [key |-> key, next |-> n]) = Weighted(key, Occurrences(key, n)')
    <3> DEFINE now == n = cmd.template /\ key \in Contexts(cmd.cwd, a, b)
               o == [key |-> key, next |-> n]
    <3>1. /\ Occurrences(key, n) \in Nat /\ Copies(graph, o) = Weighted(key, Occurrences(key, n))
      BY DEF PastInv
    <3>2. Copies(graph, o) \in Nat BY <3>1 DEF Weighted
    <3>3. Occurrences(key, n)' = Occurrences(key, n) + (IF now THEN 1 ELSE 0)
      BY <2>1, <2>2, <2>4, <2>5, OccurrencesGrow
    <3>4. Copies(graph', o) = Copies(graph, o) + (IF now THEN IF Len(key) = 1 THEN 2 ELSE 1 ELSE 0)
      <4>1. CASE cmd.template = Pad BY <2>1, <2>7, <3>2, <4>1 DEF Remember
      <4>2. CASE cmd.template # Pad
        <5>1. graph' = Learned(cmd) BY <2>1, <4>2 DEF Remember
        <5> QED BY <2>3, <3>2, <5>1, LearnedCounts
      <4> QED BY <4>1, <4>2
    <3> HIDE DEF now, o
    <3> QED BY <3>1, <3>3, <3>4 DEF Weighted, o
  <2>10. ASSUME NEW o \in DOMAIN graph' PROVE o.key \in Keys'
    <3>1. o \in DOMAIN graph \/ o.key \in Contexts(cmd.cwd, a, b)
      BY <2>1, <2>3, LearnedKeys DEF Remember
    <3>2. CASE o \in DOMAIN graph
      <4>1. PICK i \in DOMAIN past : o.key \in {InDir(past[i].cwd, Window(i)), Window(i), <<Before(i)>>}
        BY <3>2 DEF PastInv, Keys
      <4>2. i \in DOMAIN past' /\ past'[i] = past[i] /\ Before(i)' = Before(i) /\ Window(i)' = Window(i)
        BY <2>6, <4>1
      <4> QED BY <4>1, <4>2 DEF Keys
    <3>3. CASE o.key \in Contexts(cmd.cwd, a, b)
      <4>1. o.key \in {InDir(cmd.cwd, <<a, b>>), <<a, b>>, <<b>>} BY <3>3 DEF Contexts
      <4>2. new \in DOMAIN past' /\ past'[new] = cmd /\ Before(new)' = b /\ Window(new)' = <<a, b>>
        BY <2>4, <2>5, <2>6
      <4> QED BY <4>1, <4>2 DEF Keys
    <3> QED BY <3>1, <3>2, <3>3
  <2> QED BY <2>8, <2>9, <2>10 DEF PastInv
<1> QED BY <1>1, <1>2

LEMMA KeysAreSequences == Counting => Keys \subseteq Seq(Names)
<1> SUFFICES ASSUME Counting, NEW i \in DOMAIN past
             PROVE  {InDir(past[i].cwd, Window(i)), Window(i), <<Before(i)>>} \subseteq Seq(Names)
  BY DEF Keys
<1>1. past \in Seq(Commands) /\ DOMAIN past = 1..Len(past) /\ Len(past) \in Nat BY DEF Counting
<1>2. ASSUME NEW j \in DOMAIN past
      PROVE  past[j].template \in Templates \cup {Pad} /\ past[j].cwd \in Dirs \cup {Pad}
  <2>1. past[j] \in Commands BY <1>1
  <2> QED BY <2>1 DEF Commands
<1>3. PICK a \in Templates \cup {Pad}, b \in Templates \cup {Pad} : Window(i) = <<a, b>> /\ Before(i) = b
  BY <1>1, <1>2 DEF Window, Before
<1>4. InDir(past[i].cwd, <<a, b>>) \in Seq(Names)
  BY <1>2, InDirEnds DEF EndsIn
<1> QED BY <1>3, <1>4 DEF Names

(* Whatever history is replayed, the model that hunch eval asks holds what the history
   says so far and nothing else: each context of one or two commands, with and
   without its directory, as often as a command followed it, and a single command
   twice as often. *)
THEOREM PastTheorem == Spec => []GraphIsThePast
<1>1. RatesInv /\ PastInv => GraphIsThePast
  <2> SUFFICES ASSUME RatesInv, PastInv PROVE GraphIsThePast
    OBVIOUS
  <2>1. Counting BY DEF RatesInv
  <2>2. ASSUME NEW key \in Keys, NEW n \in Templates
        PROVE  Count(key, n) = (IF Len(key) = 1 THEN 2 ELSE 1) * Occurrences(key, n)
    <3>1. key \in Seq(Names) BY <2>1, KeysAreSequences
    <3>2. /\ Occurrences(key, n) \in Nat
          /\ Copies(graph, [key |-> key, next |-> n]) = Weighted(key, Occurrences(key, n))
      BY <3>1 DEF PastInv
    <3>3. Count(key, n) = Copies(graph, [key |-> key, next |-> n])
      BY DEF Count, Copies, BagIn, BagToSet
    <3>4. Weighted(key, Occurrences(key, n)) = (IF Len(key) = 1 THEN 2 ELSE 1) * Occurrences(key, n)
      BY <3>2 DEF Weighted
    <3> QED BY <3>2, <3>3, <3>4
  <2>3. \A o \in BagToSet(graph) : o.key \in Keys BY DEF PastInv, BagToSet
  <2> QED BY <2>2, <2>3 DEF GraphIsThePast, Keys
<1>2. RatesInv /\ PastInv /\ [Next]_vars => (RatesInv /\ PastInv)'
  BY RatesStep, PastStep
<1> QED BY <1>1, <1>2, RatesInit, PastInit, PTL DEF Spec

-----------------------------------------------------------------------------
(* The graph is a bag of observations. *)
Observations == [key : Seq(Names), next : Templates]
GraphInv == IsABag(graph) /\ DOMAIN graph \subseteq Observations

LEMMA ObserveTyped ==
  ASSUME NEW bag, IsABag(bag), DOMAIN bag \subseteq Observations,
         NEW keys \in SUBSET Seq(Names), NEW next \in Templates
  PROVE  IsABag(Observe(bag, keys, next)) /\ DOMAIN Observe(bag, keys, next) \subseteq Observations
<1> DEFINE more == {[key |-> k, next |-> next] : k \in keys}
           both == Observe(bag, keys, next)
<1>1. more \subseteq Observations
  BY DEF Observations
<1>2. \A o \in DOMAIN bag : bag[o] \in Nat /\ bag[o] > 0
  BY DEF IsABag
<1>3. both = [o \in DOMAIN bag \cup more |->
                (IF o \in DOMAIN bag THEN bag[o] ELSE 0) + (IF o \in more THEN 1 ELSE 0)]
  BY DEF Observe, (+), SetToBag
<1> HIDE DEF more, both
<1>4. DOMAIN both \subseteq Observations
  BY <1>1, <1>3
<1>5. \A o \in DOMAIN both : both[o] \in Nat /\ both[o] > 0
  BY <1>2, <1>3
<1>6. both = [o \in DOMAIN both |-> both[o]]
  BY <1>3
<1>7. IsABag(both)
  BY <1>5, <1>6 DEF IsABag
<1> QED BY <1>4, <1>7 DEF both

LEMMA GraphStep == RatesInv /\ PastInv /\ GraphInv /\ [Next]_vars => GraphInv'
<1> SUFFICES ASSUME RatesInv, PastInv, GraphInv, [Next]_vars PROVE GraphInv'
  OBVIOUS
<1>1. CASE UNCHANGED vars
  BY <1>1 DEF vars, GraphInv
<1>2. CASE Next
  <2>1. PICK cmd \in Commands : Remember(cmd)
    BY <1>2 DEF Next, Commands, Replay
  <2>2. PICK a \in Templates \cup {Pad}, b \in Templates \cup {Pad} : prev = <<a, b>>
    BY DEF PastInv
  <2>3. CASE cmd.template = Pad
    BY <2>1, <2>3 DEF Remember, GraphInv
  <2>4. CASE cmd.template # Pad
    <3> DEFINE single == IF b = Pad THEN {} ELSE {<<b>>}
               all == Contexts(cmd.cwd, a, b)
    <3>1. graph' = Observe(Observe(graph, all, cmd.template), single, cmd.template)
      BY <2>1, <2>2, <2>4, StatesAreContexts DEF Remember, Learned, Commands
    <3>2. cmd.template \in Templates /\ cmd.cwd \in Dirs \cup {Pad}
      BY <2>4 DEF Commands
    <3>3. all \in SUBSET Seq(Names) /\ single \in SUBSET Seq(Names)
      <4>1. InDir(cmd.cwd, <<a, b>>) \in Seq(Names)
        BY <3>2, InDirEnds DEF EndsIn
      <4>2. <<a, b>> \in Seq(Names) /\ <<b>> \in Seq(Names)
        BY DEF Names
      <4> QED BY <4>1, <4>2 DEF Contexts
    <3> HIDE DEF all, single
    <3>4. /\ IsABag(Observe(graph, all, cmd.template))
          /\ DOMAIN Observe(graph, all, cmd.template) \subseteq Observations
      BY <3>2, <3>3, ObserveTyped DEF GraphInv
    <3> QED BY <3>1, <3>2, <3>3, <3>4, ObserveTyped DEF GraphInv
  <2> QED BY <2>3, <2>4
<1> QED BY <1>1, <1>2

(* The history, the window, the graph and the counts are of their types: no command
   that normalizes to nothing gets into the graph, and no count goes below zero. *)
THEOREM TypeTheorem == Spec => []TypeOK
<1>1. RatesInv /\ ModeInv /\ PastInv /\ GraphInv => TypeOK
  BY DEF RatesInv, ModeInv, PastInv, GraphInv, Counting, Commands, Results, Observations, Names, TypeOK
<1>2. Init => GraphInv
  BY DEF Init, GraphInv, EmptyBag, SetToBag, IsABag
<1>3. RatesInv => Counting
  BY DEF RatesInv
<1> QED BY <1>1, <1>2, <1>3, RatesInit, RatesStep, ModeInit, ModeStep, PastInit, PastStep, GraphStep, PTL DEF Spec
================================================================================
