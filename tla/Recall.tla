--------------------------------- MODULE Recall ---------------------------------
(***************************************************************************)
(* What is remembered of the commands that are run, under which contexts,    *)
(* and what a query gets back: shells that record every command in the       *)
(* background, the import of the shell history, the daemon's graph and raw   *)
(* examples, and the ladder of ever more general contexts a query climbs.    *)
(*                                                                          *)
(* Scores, ages and the typed prefix are not modelled: any candidate may be  *)
(* ranked first, and any rung of the ladder but the first may fall short of  *)
(* MinConfidence.  Commands are those the redactor lets through.             *)
(***************************************************************************)
EXTENDS Contexts

CONSTANTS
  Raws,          \* commands as typed, and what is left of them when they are cut
  Commands,      \* those that are run
  Templates,     \* what they are normalized to
  TemplateOf,    \* normalize.Normalize
  Pieces,        \* a command cut at its commas
  Placeholders,  \* templates with a token that stands for a value
  Goes,          \* Goes[r][d]: where running r in d leaves the shell
  Names,         \* directories that r, if it is a cd, seems to lead to
  Shells,
  OldHistories,  \* history files from before hunch was installed
  MinCount,      \* min_count
  MaxRuns,       \* bound on commands run
  MaxSent,       \* bound on record requests under way at once
  MaxImports,    \* bound on imports
  MaxOthers      \* bound on shells opened later, lost requests and resets

ASSUME RecallAssumption ==
  /\ TemplateOf \in [Raws -> Templates] /\ Placeholders \subseteq Templates
  /\ Pieces \in [Raws -> Seq(Raws)]
  /\ \A r \in Raws : Pieces[r] # <<>> /\ (Len(Pieces[r]) = 1 => Pieces[r] = <<r>>)
  /\ Pad \notin Raws \cup Templates /\ Dirs \cap Templates = {}
  /\ Goes \in [Raws -> [Dirs -> Dirs]] /\ Names \in [Raws -> SUBSET Dirs]
  /\ Commands \subseteq Raws /\ OldHistories \subseteq Seq(Commands)
  /\ {MinCount, MaxRuns, MaxSent, MaxImports, MaxOthers} \subseteq Nat

VARIABLES
  dir,        \* each shell's $PWD
  prev,       \* each shell's _HUNCH_PREV
  file,       \* the shell history file
  sent,       \* the record requests under way, numbered by the commands run
  graph,      \* bag of [key, next]: how often next followed key
  raws,       \* bag of [key, next, raw]: the raw examples
  examples,   \* import-history: the raw examples it still has to send
  learned,    \* history: the record requests handled since the last reset
  overtaken,  \* history: those an import has overtaken
  partial,    \* history: seeds were merged whose examples have not arrived
  used        \* how much of each bound is used up

shell == <<dir, prev>>
past  == <<learned, overtaken, partial>>
vars  == <<shell, file, sent, graph, raws, examples, past, used>>

Template(r) == IF r = Pad THEN Pad ELSE TemplateOf[r]
TemplatesOf(s) == [i \in DOMAIN s |-> Template(s[i])]

-----------------------------------------------------------------------------
(* How a context is sent, and how a raw example is stored under it. *)

(* rawOuterKey drops the padding.  Plausible bug: it does not. *)
BadRawKey(s) == s
RawKey(s) == NonEmpty(s)

(* The state of a record request: the shell joins its window with commas and
   the client splits at commas.  A query sends the window as it is.  Plausible
   bug: the padding is not sent. *)
Cut(r) == IF r = Pad THEN <<Pad>> ELSE Pieces[r]
BadSplitState(w) == NonEmpty(Cut(w[1]) \o Cut(w[2]))
SplitState(w) == Cut(w[1]) \o Cut(w[2])

Copies(o, B) == IF BagIn(o, B) THEN B[o] ELSE 0

(* The bag of what is observed: seen[i] is what i adds. *)
Tally(seen) ==
  [o \in UNION {seen[i] : i \in DOMAIN seen} |-> Cardinality({i \in DOMAIN seen : o \in seen[i]})]

-----------------------------------------------------------------------------
(* Queries. *)

Count(key, n) == Copies([key |-> key, next |-> n], graph)

(* Predict with withMinCount: never less than one observation. *)
Often(count) == count > 0 /\ count >= MinCount
Candidates(key) == {n \in Templates : Often(Count(key, n))}

(* The rung that may answer: the first always does when it has a candidate, any
   other only when its best candidate is good enough. *)
Answering(d, t) ==
  LET some == {i \in DOMAIN Ladder(d, t) : Candidates(Ladder(d, t)[i]) # {}} IN
  IF 1 \in some THEN {1} ELSE some

(* suppressCdToCurrent *)
Suppress(S, d) == {s \in S : ~(s.raw # Pad /\ d \in Names[s.raw])}

(* topNLocked: the raw commands known for n in the longest part of the history
   that has some. *)
Bucket(key, n) == {r \in Raws : Copies([key |-> key, next |-> n, raw |-> r], raws) > 0}
Examples(t, n) ==
  LET w == NonEmpty(t)
      b(i) == Bucket(SubSeq(w, i, Len(w)), n)
      filled == {i \in 1..(Len(w) + 1) : b(i) # {}}
  IN  UNION {b(i) : i \in {j \in filled : \A k \in filled : j <= k}}

(* hydrate: the suggestion with any of the examples that may be ranked first. *)
Hydrate(S, t) ==
  UNION {IF Examples(t, s.template) = {} THEN {s}
         ELSE {[s EXCEPT !.raw = r] : r \in Examples(t, s.template)} : s \in S}

(* handlePredict: the suggestions rung i of the ladder gives. *)
Suggestions(d, t, i) ==
  Hydrate(Suppress({[template |-> n, raw |-> Pad] : n \in Candidates(Ladder(d, t)[i])}, d), t)

(* ipc.DisplayCommand; serveQuery leaves out a suggestion without one. *)
DisplayCommand(s) ==
  IF s.raw # Pad THEN s.raw ELSE IF s.template \in Placeholders THEN Pad ELSE s.template

-----------------------------------------------------------------------------
(* The import: buildTransitions and buildRawMappings. *)

Before(h, i) == <<IF i > 2 THEN Template(h[i - 2]) ELSE Pad, IF i > 1 THEN Template(h[i - 1]) ELSE Pad>>
States(h, i) == BackoffStates(Before(h, i), FALSE)

Seed(h) ==
  Tally([i \in DOMAIN h |-> {[key |-> s, next |-> Template(h[i])] : s \in States(h, i)}])
RawMappings(h) ==
  Tally([i \in DOMAIN h |->
           {[key |-> NonEmpty(s), next |-> Template(h[i]), raw |-> h[i]] : s \in States(h, i)}])

(* graph.Merge keeps the larger count.  Plausible bug: what its comment says,
   counts are added. *)
BadMerge(B, C) == B (+) C
Merge(B, C) ==
  [o \in DOMAIN B \cup DOMAIN C |->
     IF Copies(o, B) >= Copies(o, C) THEN Copies(o, B) ELSE Copies(o, C)]

-----------------------------------------------------------------------------
Bounds == {"runs", "imports", "others"}
Use(b, max) == used[b] < max /\ used' = [used EXCEPT ![b] = @ + 1]

Init ==
  /\ dir \in [Shells -> Dirs]
  /\ prev = [sh \in Shells |-> <<Pad, Pad>>]
  /\ file \in OldHistories
  /\ sent = {} /\ graph = EmptyBag /\ raws = EmptyBag /\ examples = EmptyBag
  /\ learned = {} /\ overtaken = {} /\ partial = FALSE
  /\ used = [b \in Bounds |-> 0]

(* A shell is closed and another opened. *)
Open(sh) ==
  /\ Use("others", MaxOthers)
  /\ \E d \in Dirs : dir' = [dir EXCEPT ![sh] = d]
  /\ prev' = [prev EXCEPT ![sh] = <<Pad, Pad>>]
  /\ UNCHANGED <<file, sent, graph, raws, examples, past>>

(* A command runs, and the prompt that follows starts the record request: with
   the directory the command has left the shell in. *)
Run(sh, r) ==
  /\ Use("runs", MaxRuns) /\ Cardinality(sent) < MaxSent
  /\ dir' = [dir EXCEPT ![sh] = Goes[r][@]]
  /\ prev' = [prev EXCEPT ![sh] = <<@[2], r>>]
  /\ file' = Append(file, r)
  /\ sent' = sent \cup {[nth |-> Len(file) + 1, from |-> dir[sh], cwd |-> dir'[sh],
                          window |-> prev[sh], next |-> r]}
  /\ UNCHANGED <<graph, raws, examples, past>>

(* handleRecord.  Plausible bug: the raw example is stored under the exact
   context only. *)
BadRecorded(q, state) ==
  /\ graph' = Observe(graph, BackoffStates(state, TRUE), Template(q.next))
  /\ raws' = raws (+) SetToBag({[key |-> RawKey(state), next |-> Template(q.next), raw |-> q.next]})
Recorded(q, state) ==
  LET states == BackoffStates(state, TRUE) IN
  /\ graph' = Observe(graph, states, Template(q.next))
  /\ raws' = raws (+) Tally([s \in states |->
                              {[key |-> RawKey(s), next |-> Template(q.next), raw |-> q.next]}])

Deliver(q) ==
  /\ Recorded(q, <<q.cwd>> \o TemplatesOf(SplitState(q.window)))
  /\ sent' = sent \ {q} /\ learned' = learned \cup {q}
  /\ UNCHANGED <<shell, file, examples, overtaken, partial, used>>

(* The daemon is not reachable: the client gives up. *)
Lose(q) ==
  /\ Use("others", MaxOthers)
  /\ sent' = sent \ {q}
  /\ UNCHANGED <<shell, file, graph, raws, examples, past>>

(* import-history's two requests; it may die in between. *)
ImportSeed ==
  /\ examples = EmptyBag /\ file # <<>> /\ Use("imports", MaxImports)
  /\ graph' = Merge(graph, Seed(file))
  /\ examples' = RawMappings(file)
  /\ overtaken' = overtaken \cup sent
  /\ partial' = TRUE
  /\ UNCHANGED <<shell, file, sent, raws, learned>>

ImportRaws ==
  /\ examples # EmptyBag /\ examples' = EmptyBag
  /\ raws' = raws (+) examples
  /\ partial' = FALSE
  /\ UNCHANGED <<shell, file, sent, graph, learned, overtaken, used>>

ImportDies ==
  /\ examples # EmptyBag /\ examples' = EmptyBag
  /\ UNCHANGED <<shell, file, sent, graph, raws, past, used>>

Reset ==
  /\ Use("others", MaxOthers)
  /\ graph' = EmptyBag /\ raws' = EmptyBag /\ learned' = {} /\ partial' = FALSE
  /\ UNCHANGED <<shell, file, sent, examples, overtaken>>

Next ==
  \/ \E sh \in Shells : Open(sh) \/ \E r \in Commands : Run(sh, r)
  \/ \E q \in sent : Deliver(q) \/ Lose(q)
  \/ ImportSeed \/ ImportRaws \/ ImportDies \/ Reset

Spec == Init /\ [][Next]_vars
================================================================================
