--------------------------------- MODULE Replay ---------------------------------
(***************************************************************************)
(* hunch eval: a history is replayed, and each of its commands is predicted  *)
(* from the ones before it and then learned.                                 *)
(*                                                                          *)
(* Scores are not modelled: any of the commands known after a context may be *)
(* ranked among the first MaxRank, in any order, and any rung of the ladder  *)
(* but the first may fall short of MinConfidence.                            *)
(***************************************************************************)
EXTENDS Contexts

CONSTANTS
  Templates,
  Tops,        \* the depths at which hits are counted, each deeper than the last
  MinCount,    \* Options.MinCount
  Warmup,      \* Options.Warmup
  MaxCommands  \* bound on the history

ASSUME ReplayAssumption ==
  /\ Pad \notin Templates /\ Dirs \cap Templates = {}
  /\ Tops \in Seq(Nat \ {0}) /\ Tops # <<>>
  /\ \A i, j \in DOMAIN Tops : i < j => Tops[i] < Tops[j]
  /\ {MinCount, Warmup, MaxCommands} \subseteq Nat

MaxRank == Last(Tops)

VARIABLES
  past,    \* the commands replayed so far: a template, or Pad, and a directory, or Pad
  prev,    \* prev1, prev2
  graph,   \* bag of [key, next]
  freq,    \* how often each template has been learned
  mostFrequent,
  result   \* the Result: scored, offered, baseline, and a count for each of Tops

vars == <<past, prev, graph, freq, mostFrequent, result>>

-----------------------------------------------------------------------------
Count(key, n) ==
  LET o == [key |-> key, next |-> n] IN IF BagIn(o, graph) THEN graph[o] ELSE 0
Known(key) == {n \in Templates : Count(key, n) > 0}

(* What a query for one context may return: Predict ranks and cuts at MaxRank,
   and withMinCount then drops those that are not known well enough. *)
Returned(key) ==
  {{n \in first : Count(key, n) >= MinCount} :
     first \in kSubset(IF Cardinality(Known(key)) < MaxRank THEN Cardinality(Known(key)) ELSE MaxRank,
                       Known(key))}

(* predictWithFallback: the sets of suggestions that may be offered. *)
Offers(d, t) ==
  LET rungs == [i \in DOMAIN Ladder(d, t) |-> Returned(Ladder(d, t)[i])] IN
  (rungs[1] \ {{}}) \cup
  (IF {} \in rungs[1] THEN {{}} \cup UNION {rungs[i] : i \in 2..Len(rungs)} ELSE {})

(* score: the actual command at a rank among the suggestions, or none of them.
   Plausible bug: a hit is only counted at the depth it is found at. *)
Ranks(S, actual) == IF actual \in S THEN 1..Cardinality(S) ELSE {MaxRank + 1}
Offered(res, S) == res.offered + (IF S = {} THEN 0 ELSE 1)
BadScore(res, S, rank) ==
  [res EXCEPT !.offered = Offered(res, S),
              !.top = [i \in DOMAIN Tops |-> @[i] + (IF rank = Tops[i] THEN 1 ELSE 0)]]
Score(res, S, rank) ==
  [res EXCEPT !.offered = Offered(res, S),
              !.top = [i \in DOMAIN Tops |-> @[i] + (IF rank <= Tops[i] THEN 1 ELSE 0)]]

(* The loop's first half.  Commands that normalize to nothing are not scored. *)
Predicted(cmd) ==
  IF Len(past) < Warmup \/ cmd.template = Pad THEN result' = result
  ELSE LET asked == [result EXCEPT !.scored = @ + 1,
                                   !.baseline = @ + (IF mostFrequent = cmd.template THEN 1 ELSE 0)]
       IN  \E S \in Offers(cmd.cwd, prev) : \E rank \in Ranks(S, cmd.template) :
             result' = Score(asked, S, rank)

(* What the loop's second half adds to the graph: the contexts the daemon
   records under, and once more the last command alone.  Plausible bug: the window
   moves on before the command is learned. *)
BadLearned(cmd) ==
  Observe(graph, BackoffStates(InDir(cmd.cwd, <<prev[2], cmd.template>>), cmd.cwd # Pad), cmd.template)
Learned(cmd) ==
  LET states == BackoffStates(InDir(cmd.cwd, prev), cmd.cwd # Pad) IN
  Observe(Observe(graph, states, cmd.template),
          IF prev[2] = Pad THEN {} ELSE {<<prev[2]>>}, cmd.template)

(* Plausible bug: the count that is compared is the one before this command. *)
BadLeader(n) == IF mostFrequent = Pad \/ freq[n] > freq[mostFrequent] THEN n ELSE mostFrequent
Leader(n) ==
  IF mostFrequent = Pad \/ (n # mostFrequent /\ freq[n] + 1 > freq[mostFrequent]) THEN n ELSE mostFrequent

-----------------------------------------------------------------------------
Init ==
  /\ past = <<>> /\ prev = <<Pad, Pad>> /\ graph = EmptyBag
  /\ freq = [n \in Templates |-> 0] /\ mostFrequent = Pad
  /\ result = [scored |-> 0, offered |-> 0, baseline |-> 0, top |-> [i \in DOMAIN Tops |-> 0]]

(* The loop's second half: a command that normalizes to nothing is not learned.
   Plausible bug: its context gets an entry. *)
BadRemember(cmd) ==
  /\ graph' = Learned(cmd)
  /\ IF cmd.template = Pad THEN UNCHANGED <<freq, mostFrequent>>
     ELSE /\ freq' = [freq EXCEPT ![cmd.template] = @ + 1]
          /\ mostFrequent' = Leader(cmd.template)
Remember(cmd) ==
  IF cmd.template = Pad THEN UNCHANGED <<graph, freq, mostFrequent>>
  ELSE /\ graph' = Learned(cmd)
       /\ freq' = [freq EXCEPT ![cmd.template] = @ + 1]
       /\ mostFrequent' = Leader(cmd.template)

(* One round of Run's loop. *)
Replay(cmd) ==
  /\ Len(past) < MaxCommands
  /\ Predicted(cmd) /\ Remember(cmd)
  /\ prev' = <<prev[2], cmd.template>>
  /\ past' = Append(past, cmd)

Next == \E n \in Templates \cup {Pad} : \E d \in Dirs \cup {Pad} : Replay([template |-> n, cwd |-> d])

Spec == Init /\ [][Next]_vars
================================================================================
