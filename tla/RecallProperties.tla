---------------------------- MODULE RecallProperties ----------------------------
(***************************************************************************)
(* What a user may count on: routines are recalled, fallbacks are reachable, *)
(* suggestions can be run, and nothing looks like a habit that is not one.   *)
(***************************************************************************)
EXTENDS Recall

Element == Dirs \cup Templates \cup {Pad}
BagOver(B, S) == IsABag(B) /\ DOMAIN B \subseteq S
Requests ==
  [nth : Nat, from : Dirs, cwd : Dirs, window : (Raws \cup {Pad}) \X (Raws \cup {Pad}), next : Commands]

(* Every variable has its type; no key of a raw example has padding in it. *)
TypeOK ==
  /\ dir \in [Shells -> Dirs]
  /\ prev \in [Shells -> (Raws \cup {Pad}) \X (Raws \cup {Pad})]
  /\ file \in Seq(Commands)
  /\ sent \cup learned \cup overtaken \subseteq Requests /\ partial \in BOOLEAN
  /\ BagOver(graph, [key : Seq(Element), next : Templates])
  /\ \A B \in {raws, examples} : BagOver(B, [key : Seq(Element \ {Pad}), next : Templates, raw : Raws])
  /\ used \in [Bounds -> Nat]

HasComma(r) == r # Pad /\ Len(Pieces[r]) > 1

(* A context without its directory, or without its older command, has been seen
   at least as often with every next command, whatever records, imports and
   resets interleave: the fallbacks never know less than what they stand for.
   (A history with a comma in a command is cut differently when recorded.) *)
GeneralizationsKnowMore ==
  \A o \in BagToSet(graph) :
    /\ Head(o.key) \in Dirs /\ Informative(Tail(o.key)) => Count(Tail(o.key), o.next) >= Count(o.key, o.next)
    /\ (Len(o.key) = 2 /\ Head(o.key) \notin Dirs /\ o.key[2] # Pad
        /\ \A i \in DOMAIN file : ~HasComma(file[i])) =>
         Count(Tail(o.key), o.next) >= Count(o.key, o.next)

TimesRun(n) == Cardinality({i \in DOMAIN file : Template(file[i]) = n})
Asking(S, n) == Cardinality({q \in S : Template(q.next) = n})

(* However often the history is imported, in whatever order with the records of
   the commands it holds, no transition counts more observations than the
   command was run ("makes import idempotent and keeps a command run once from
   looking like a habit", graph.go), but for records an import has overtaken. *)
CountsAreObservations ==
  \A o \in BagToSet(graph) : Count(o.key, o.next) <= TimesRun(o.next) + Asking(overtaken, o.next)

WithoutComma(w) == \A i \in DOMAIN w : ~HasComma(w[i])

(* A command that has been recorded often enough in this directory after these
   two commands is suggested there after them, whatever its score and whatever
   else was learned, imported or lost.  (Not a cd, which is recorded for the
   directory it leads to, nor after a command with a comma.) *)
RecallsRoutine ==
  \A sh \in Shells : \A n \in Templates :
    LET t == TemplatesOf(prev[sh]) IN
    Often(Cardinality({q \in learned : /\ q.from = dir[sh] /\ q.cwd = dir[sh] /\ Template(q.next) = n
                                       /\ WithoutComma(q.window) /\ TemplatesOf(q.window) = t})) =>
      /\ Answering(dir[sh], t) = {1}
      /\ \E s \in Suggestions(dir[sh], t, 1) : s.template = n

(* A command recorded often enough after the last command, in whatever
   directory and after whatever came before it, is a candidate of some rung:
   every generalization that is looked up is one that was recorded. *)
FallbackReaches ==
  \A sh \in Shells : \A n \in Templates :
    LET t == TemplatesOf(prev[sh]) IN
    t[2] # Pad /\ Often(Cardinality({q \in learned : /\ Template(q.next) = n /\ WithoutComma(q.window)
                                                     /\ Template(q.window[2]) = t[2]})) =>
      /\ Answering(dir[sh], t) # {}
      /\ \E i \in DOMAIN Ladder(dir[sh], t) : n \in Candidates(Ladder(dir[sh], t)[i])

(* Whatever rung answers, every suggestion has a concrete command to show ("A
   suggestion reached through a generalization must be able to find a concrete
   command, or it would be rendered as a bare template", handlers.go), once the
   session has a command and no import is half done. *)
Runnable ==
  \A sh \in Shells :
    LET t == TemplatesOf(prev[sh]) IN
    t[2] # Pad /\ ~partial =>
      \A i \in Answering(dir[sh], t) : \A s \in Suggestions(dir[sh], t, i) : DisplayCommand(s) # Pad

(* hunch never suggests a cd to the directory the shell is already in (the
   comment on suppressCdToCurrent, daemon.go).  The code does not keep it. *)
NeverSuggestsCurrentDir ==
  \A sh \in Shells :
    LET t == TemplatesOf(prev[sh]) IN
    \A i \in Answering(dir[sh], t) : \A s \in Suggestions(dir[sh], t, i) :
      ~(s.raw # Pad /\ dir[sh] \in Names[s.raw])
================================================================================
