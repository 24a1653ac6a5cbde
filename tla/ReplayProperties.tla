---------------------------- MODULE ReplayProperties ----------------------------
(***************************************************************************)
(* What makes the numbers of hunch eval mean something.                      *)
(***************************************************************************)
EXTENDS Replay

(* Every variable has its type. *)
TypeOK ==
  /\ past \in Seq([template : Templates \cup {Pad}, cwd : Dirs \cup {Pad}])
  /\ prev \in (Templates \cup {Pad}) \X (Templates \cup {Pad})
  /\ IsABag(graph) /\ DOMAIN graph \subseteq [key : Seq(Dirs \cup Templates \cup {Pad}), next : Templates]
  /\ freq \in [Templates -> Nat] /\ mostFrequent \in Templates \cup {Pad}
  /\ result \in [scored : Nat, offered : Nat, baseline : Nat, top : [DOMAIN Tops -> Nat]]

-----------------------------------------------------------------------------
(* The replay seen as a whole: the command before the i-th, and the places where
   a next command was learned. *)
Before(i) == IF i > 1 THEN past[i - 1].template ELSE Pad
Window(i) == <<IF i > 2 THEN past[i - 2].template ELSE Pad, Before(i)>>
Places(n) == {i \in DOMAIN past : past[i].template = n}

(* How often n followed the context in the history. *)
Occurrences(key, n) ==
  Cardinality({i \in Places(n) :
    \/ key = InDir(past[i].cwd, Window(i))
    \/ Informative(key) /\ key \in {Window(i), <<Before(i)>>}})

(* The graph holds what the history says and nothing else: every context of up to
   two commands, with and without its directory, with every command that
   followed it, as often as it did; twice as often when the context is a single
   command, which is the one way in which the replay's model is not the daemon's. *)
GraphIsThePast ==
  LET keys == {InDir(past[i].cwd, Window(i)) : i \in DOMAIN past}
              \cup {Window(i) : i \in DOMAIN past} \cup {<<Before(i)>> : i \in DOMAIN past}
  IN  /\ \A key \in keys : \A n \in Templates :
           Count(key, n) = (IF Len(key) = 1 THEN 2 ELSE 1) * Occurrences(key, n)
      /\ \A o \in BagToSet(graph) : o.key \in keys

(* No command is predicted from itself or from later ones ("every command is
   predicted by a model that has seen only earlier commands", eval.go): a hit
   needs the same two commands in a row earlier in the history. *)
HitsAreEarned ==
  result.top[Len(Tops)] <=
    Cardinality({i \in DOMAIN past : /\ i > Warmup /\ past[i].template # Pad
                                     /\ \E j \in 1..(i - 1) : /\ past[j].template = past[i].template
                                                              /\ Before(j) = Before(i)})

(* The baseline guesses a command that no other has outrun so far. *)
BaselineIsMode ==
  /\ \A n \in Templates : freq[n] = Cardinality(Places(n))
  /\ mostFrequent = Pad <=> \A n \in Templates : freq[n] = 0
  /\ mostFrequent # Pad => \A n \in Templates : freq[n] <= freq[mostFrequent]

(* The rates are fractions of the same whole and can be compared: a hit at one
   depth is a hit at every deeper one, hits are among the commands that were
   offered something, and those among the commands that were scored. *)
RatesCompare ==
  /\ \A i, j \in DOMAIN Tops : i < j => result.top[i] <= result.top[j]
  /\ result.top[Len(Tops)] <= result.offered /\ result.offered <= result.scored
  /\ result.baseline <= result.scored
  /\ result.scored = Cardinality({i \in DOMAIN past : i > Warmup /\ past[i].template # Pad})
================================================================================
