-------------------------------- MODULE Normalize --------------------------------
(***************************************************************************)
(* How a command line becomes a template: leading wrappers and assignments   *)
(* are taken off, the remaining words are classified by their shape, runs of *)
(* one class are collapsed, and the segments of a compound line are treated  *)
(* apart.  A line is typed word by word; every function is evaluated on what *)
(* stands there.                                                             *)
(*                                                                          *)
(* A word is a value with the attributes the code reads off its characters;  *)
(* splitting a line into words is not modelled, nor is a word that reads     *)
(* like a placeholder.                                                       *)
(***************************************************************************)
EXTENDS Naturals, Sequences, FiniteSets, SequencesExt

CONSTANTS
  Words,
  Operators,   \* | || && ;
  Flags,       \* words that begin with a dash
  ShortFlags,  \* those of two characters
  Dash, DoubleDash,  \* "-" and "--"
  Assignments, \* words with an equals sign that is not the first character
  Shape,       \* the first of repoRe, numRe, hashRe, path that a word matches, or STR
  Parents,     \* commands whose subcommand is kept
  Wrappers,    \* wrapperConfigs, flock left out
  Flock, CommandFlags,  \* "flock" and its "-c", "--command"
  Beginnings,  \* pairs of a word and a longer one that begins with it
  MaxLine      \* bound on the length of a line

Shapes == {"REPO", "NUM", "HASH", "PATH", "STR"}
Placeholders == Shapes \cup {"FLAG", "KWARGS"}

ASSUME NormalizeAssumption ==
  /\ Operators \cup Flags \cup Assignments \cup Parents \cup DOMAIN Wrappers \cup {Flock} \subseteq Words
  /\ ShortFlags \cup CommandFlags \cup ({Dash, DoubleDash} \cap Words) \subseteq Flags
  /\ Operators \cap Flags = {} /\ Words \cap Placeholders = {}
  /\ Shape \in [Words -> Shapes]
  /\ \A w \in DOMAIN Wrappers :
       Wrappers[w] \in [flags : BOOLEAN, valued : SUBSET Flags, short : BOOLEAN, env : BOOLEAN,
                        dashes : BOOLEAN, positional : Nat]
  /\ Flock \notin DOMAIN Wrappers /\ Assignments \cap (DOMAIN Wrappers \cup {Flock}) = {}
  /\ Beginnings \subseteq Words \X Words /\ MaxLine \in Nat

VARIABLE line  \* what has been typed

From(s, i) == SubSeq(s, i, Len(s))
Earliest(S) == IF S = {} THEN 0 ELSE Min(S)

-----------------------------------------------------------------------------
(* Phase 1: unwrapPrefixTokens. *)

(* The first word that is not an assignment, or the last.  Plausible bug: the
   last is taken off, too. *)
BadStripAssignments(s) ==
  From(s, Min({i \in DOMAIN s : s[i] \notin Assignments \ Flags} \cup {Len(s) + 1}))
StripAssignments(s) ==
  From(s, Min({i \in DOMAIN s : s[i] \notin Assignments \ Flags \/ i = Len(s)}))

(* Where the wrapped command begins, 0 if there is none: flags, their values,
   assignments and positional arguments of the wrapper c are skipped.  Plausible
   bug: the value of a flag is not. *)
BadFindInner(s, c) ==
  LET at[i \in Nat] == [skipped \in Nat |->
        IF i > Len(s) THEN 0
        ELSE IF c.dashes /\ s[i] = DoubleDash THEN (IF i < Len(s) THEN i + 1 ELSE 0)
        ELSE IF c.flags /\ s[i] \in Flags THEN at[i + 1][skipped]
        ELSE IF c.env /\ s[i] \in Assignments THEN at[i + 1][skipped]
        ELSE IF skipped < c.positional THEN at[i + 1][skipped + 1]
        ELSE i]
  IN  at[2][0]
FindInner(s, c) ==
  LET at[i \in Nat] == [skipped \in Nat |->
        IF i > Len(s) THEN 0
        ELSE IF c.dashes /\ s[i] = DoubleDash THEN (IF i < Len(s) THEN i + 1 ELSE 0)
        ELSE IF c.flags /\ s[i] \in Flags
             THEN at[i + (IF s[i] \in c.valued \/ (c.short /\ s[i] \in ShortFlags) THEN 2 ELSE 1)][skipped]
        ELSE IF c.env /\ s[i] \in Assignments THEN at[i + 1][skipped]
        ELSE IF skipped < c.positional THEN at[i + 1][skipped + 1]
        ELSE i]
  IN  at[2][0]

(* flockCommandIndex: what follows -c, or the word after the lock file. *)
FlockIndex(s) ==
  LET plain == {i \in 2..Len(s) : s[i] \notin Flags \/ s[i] = Dash}
      stop  == Earliest({i \in 2..Len(s) : s[i] \in CommandFlags \/ (i \in plain /\ \E j \in plain : j < i)})
  IN  IF stop = 0 THEN 0
      ELSE IF s[stop] \notin CommandFlags THEN stop
      ELSE IF stop < Len(s) THEN stop + 1 ELSE 0

WrapperIndex(s) ==
  IF s[1] = Flock THEN FlockIndex(s)
  ELSE IF s[1] \in DOMAIN Wrappers THEN FindInner(s, Wrappers[s[1]]) ELSE 0

Unwrap(s) ==
  LET t == StripAssignments(s)
      begin[i \in 1..Len(t)] ==
        LET next == IF i < Len(t) THEN WrapperIndex(From(t, i)) ELSE 0 IN
        IF next = 0 THEN i ELSE begin[i + next - 1]
  IN  IF t = <<>> THEN t ELSE From(t, begin[1])

-----------------------------------------------------------------------------
(* Phase 2: classifyTokens. *)

(* classifyToken, except that collapseTokens keeps the first word whatever it
   is. *)
Plain(s, i) ==
  \/ i = 1
  \/ s[i] \notin Flags /\ i = 2 /\ s[1] \in Parents

Class(s, i) ==
  IF Plain(s, i) THEN s[i] ELSE IF s[i] \in Flags THEN "FLAG" ELSE Shape[s[i]]

(* collapseTokens.  Plausible bugs: what follows "--" is dropped without a
   trace; a class that comes back later is not repeated. *)
Dashes(s) == Earliest({i \in 2..Len(s) : s[i] = DoubleDash})
Shown(s) == 1..(IF Dashes(s) = 0 THEN Len(s) ELSE Dashes(s) - 1)
Rest(s) == IF Dashes(s) = 0 THEN <<>> ELSE <<"KWARGS">>
LossyTemplate(s) ==
  FlattenSeq([i \in Shown(s) |->
    IF i > 1 /\ ~Plain(s, i) /\ Class(s, i) = Class(s, i - 1) THEN <<>> ELSE <<Class(s, i)>>])
BadTemplate(s) ==
  FlattenSeq([i \in Shown(s) |->
    IF ~Plain(s, i) /\ \E j \in Shown(s) : j > i /\ Class(s, i) = Class(s, j)
    THEN <<>> ELSE <<Class(s, i)>>]) \o Rest(s)
Template(s) ==
  FlattenSeq([i \in Shown(s) |->
    IF i > 1 /\ ~Plain(s, i) /\ Class(s, i) = Class(s, i - 1) THEN <<>> ELSE <<Class(s, i)>>]) \o Rest(s)

-----------------------------------------------------------------------------
(* normalizeOne and normalizeSegments: a segment begins at each word that is no
   operator and has none but an operator before it.  Plausible bug: wrappers are
   taken off the line, not off each segment. *)
NormalizeOne(s) == Template(Unwrap(s))

SegmentFrom(s, i) == SubSeq(s, i, Min({j \in i..Len(s) : j = Len(s) \/ s[j + 1] \in Operators}))
Inside(s, i) == i > 1 /\ s[i - 1] \notin Operators
BadNormalizeLine(s) ==
  LET t == IF s = <<>> THEN s ELSE Unwrap(s) IN
  FlattenSeq([i \in DOMAIN t |->
    IF t[i] \in Operators THEN <<t[i]>> ELSE IF Inside(t, i) THEN <<>> ELSE Template(SegmentFrom(t, i))])
NormalizeLine(s) ==
  FlattenSeq([i \in DOMAIN s |->
    IF s[i] \in Operators THEN <<s[i]>> ELSE IF Inside(s, i) THEN <<>> ELSE NormalizeOne(SegmentFrom(s, i))])

(* ExtractArgTokens: the words of the whole line that have a shape.  Plausible
   bug: the wrapper's own arguments are among them. *)
BadArgs(s) == {i \in DOMAIN s : ~Plain(s, i) /\ s[i] \notin Flags}
Args(s) == LET t == IF s = <<>> THEN s ELSE Unwrap(s) IN
  {Len(s) - Len(t) + i : i \in {j \in DOMAIN t : ~Plain(t, j) /\ t[j] \notin Flags}}

(* ipc.DisplayCommand for a suggestion without a raw command: its template, or
   nothing. *)
DisplayTemplate(template) ==
  IF \E i \in DOMAIN template : template[i] \in Placeholders THEN <<>> ELSE template

(* filterByPrefix: the template begins with the template of what is typed. *)
BeginsWith(w, v) == w = v \/ <<w, v>> \in Beginnings
Survives(template, typed) ==
  LET p == NormalizeLine(typed) IN
  /\ Len(p) <= Len(template)
  /\ \A i \in DOMAIN p : IF i < Len(p) THEN p[i] = template[i] ELSE BeginsWith(p[i], template[i])

-----------------------------------------------------------------------------
Init == line = <<>>
Type(w) == Len(line) < MaxLine /\ line' = Append(line, w)
Next == \E w \in Words : Type(w)
Spec == Init /\ [][Next]_line
================================================================================
