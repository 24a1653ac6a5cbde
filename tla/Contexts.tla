-------------------------------- MODULE Contexts --------------------------------
(***************************************************************************)
(* The contexts a command is learned under and those a query climbs through. *)
(* A context is a sequence of a directory, when one is known, and templates, *)
(* oldest first; Pad, the empty string, stands where there is no command or  *)
(* no directory.                                                             *)
(***************************************************************************)
EXTENDS Naturals, Sequences, FiniteSets, Bags, SequencesExt, Picks

CONSTANTS
  Pad,    \* the empty string
  Dirs,   \* directories
  Above   \* the ancestors a query tries, nearest first

ASSUME ContextsAssumption == Pad \notin Dirs /\ Above \in [Dirs -> Seq(Dirs)]

NonEmpty(s) == Picked(s, {i \in DOMAIN s : s[i] # Pad})
Informative(s) == \E i \in DOMAIN s : s[i] # Pad

(* The state of a query or an observation: the directory, when known, first. *)
InDir(d, t) == IF d = Pad THEN t ELSE <<d>> \o t

(* graph.BackoffStates.  Plausible bug: the newest command is dropped for the
   shorter history, not the oldest. *)
BadBackoffStates(state, hasCWD) ==
  LET templates == IF hasCWD THEN Tail(state) ELSE state IN
  {state} \cup {s \in {templates} \cup (IF Len(templates) > 1 THEN {Front(templates)} ELSE {}) :
                  Informative(s)}

BackoffStates(state, hasCWD) ==
  LET templates == IF hasCWD THEN Tail(state) ELSE state IN
  {state} \cup {s \in {templates} \cup (IF Len(templates) > 1 THEN {Tail(templates)} ELSE {}) :
                  Informative(s)}

(* Next followed each of the states once more. *)
Observe(graph, states, next) ==
  graph (+) SetToBag({[key |-> s, next |-> next] : s \in states})

(* The contexts predictFallback queries, in order.  Plausible bug: the history
   is not made shorter. *)
Ancestors(d) == IF d = Pad THEN <<>> ELSE Above[d]
BadLadder(d, t) ==
  <<InDir(d, t)>> \o [i \in DOMAIN Ancestors(d) |-> InDir(Ancestors(d)[i], t)] \o <<t>>
Ladder(d, t) ==
  <<InDir(d, t)>> \o [i \in DOMAIN Ancestors(d) |-> InDir(Ancestors(d)[i], t)]
  \o [i \in 1..(Len(t) + 1) |-> SubSeq(t, i, Len(t))]
================================================================================
