--------------------------- MODULE NormalizeProperties ---------------------------
(***************************************************************************)
(* What a template may and may not forget of a command line.                 *)
(***************************************************************************)
EXTENDS Normalize

(* A line is made of words; its template is made of words of the line and
   placeholders, is no longer than the line, and is empty only when that is. *)
TypeOK ==
  /\ line \in Seq(Words) /\ Len(line) <= MaxLine
  /\ LET template == NormalizeLine(line) IN
     /\ \A i \in DOMAIN template : template[i] \in Placeholders \cup {line[j] : j \in DOMAIN line}
     /\ Len(template) <= Len(line)
     /\ template = <<>> => line = <<>>

Compound(s) == \E i \in DOMAIN s : s[i] \in Operators
Ordinary == Words \ (Operators \cup Flags \cup Assignments \cup Parents \cup DOMAIN Wrappers \cup {Flock})

-----------------------------------------------------------------------------
(* How a wrapper is invoked: flags, each with its value when it takes one, and
   assignments and positional arguments as the wrapper allows, in any order, the
   whole possibly closed by "--". *)
TakesValue(f, c) ==
  c.flags /\ f \in Flags \ {DoubleDash} /\ (f \in c.valued \/ (c.short /\ f \in ShortFlags))

Invocation(a, c) ==
  \E values \in SUBSET DOMAIN a :
    LET own == DOMAIN a \ values IN
    /\ \A i \in DOMAIN a : i + 1 \in values <=> (i \in own /\ TakesValue(a[i], c))
    /\ 1 \notin values
    /\ \A i \in own : IF a[i] = DoubleDash THEN c.dashes /\ i = Len(a)
                      ELSE a[i] \in Flags => c.flags
    /\ c.positional = Cardinality({i \in own : a[i] \notin Flags /\ ~(c.env /\ a[i] \in Assignments)})

(* flock [flags] file command, or flock [flags] [file] -c command. *)
FlockInvocation(a) ==
  LET files == {i \in DOMAIN a : a[i] \notin Flags \/ a[i] = Dash}
      given == {i \in DOMAIN a : a[i] \in CommandFlags}
  IN  \/ given = {} /\ Cardinality(files) = 1
      \/ given = {Len(a)} /\ Cardinality(files) <= 1

(* "This collapses `sudo apt update` to the same template as `apt update`"
   (normalize.go): whatever arguments of its own a wrapper is given, and however
   wrappers and assignments are nested, the template is that of the command. *)
WrapperTransparent ==
  ~Compound(line) => \A k \in 1..(Len(line) - 1) :
    LET own == SubSeq(line, 2, k)
        cmd == From(line, k + 1)
    IN  (\/ line[1] \in DOMAIN Wrappers /\ Invocation(own, Wrappers[line[1]])
         \/ line[1] = Flock /\ FlockInvocation(own)
         \/ k = 1 /\ line[1] \in Assignments \ Flags)
        /\ cmd[1] \notin Flags \cup (IF line[1] \in Assignments THEN {} ELSE Assignments)
        => NormalizeLine(line) = NormalizeLine(cmd)

(* Each segment of a compound line has the template it would have alone ("split
   and each segment normalized independently, then rejoined", normalize.go). *)
SegmentsIndependent ==
  \A i \in DOMAIN line : line[i] \in Operators =>
    NormalizeLine(line) =
      NormalizeLine(SubSeq(line, 1, i - 1)) \o <<line[i]>> \o NormalizeLine(From(line, i + 1))

(* A template that is shown for want of a raw command says all of the command but
   its wrappers: every segment of it ends a segment of the line, and nothing else
   of the line is missing. *)
ShownVerbatim ==
  ~Compound(line) /\ line # <<>> /\ DisplayTemplate(NormalizeLine(line)) # <<>> =>
    NormalizeLine(line) = Unwrap(line)

(* The arguments that are carried over to the next suggestion are the words that
   can be exchanged for another of their shape without changing the template,
   no more and no less; and saying one twice does not change it either.
   (Wrappers' own arguments, wrappers without a command and compound lines apart.) *)
ArgumentsAreShapes ==
  ~Compound(line) /\ line # <<>> /\ Unwrap(line)[1] \notin DOMAIN Wrappers \cup {Flock} =>
    LET own == Len(line) - Len(Unwrap(line))
        other(i) == {w \in Ordinary \ {line[i]} : Shape[w] = Shape[line[i]]}
        template == NormalizeLine(line)
    IN  \A i \in DOMAIN line : i > own /\ line[i] \notin Flags /\ other(i) # {} =>
          /\ i \in Args(line) <=> \A w \in other(i) : NormalizeLine([line EXCEPT ![i] = w]) = template
          /\ i + 1 \in Args(line) /\ i \in Args(line) /\ line[i] = line[i + 1] =>
               NormalizeLine(SubSeq(line, 1, i) \o From(line, i + 2)) = template

-----------------------------------------------------------------------------
(* Where the segment begins that the k-th word is in. *)
Start(k) == Max({i \in 1..k : line[i] \notin Operators /\ ~Inside(line, i)} \cup {1})

(* After each word of a command that was suggested, the suggestion is still
   there, once the line has got beyond wrappers and assignments. *)
WordsKeepSuggestion ==
  \A k \in DOMAIN line :
    line[Start(k)] \notin Assignments \cup DOMAIN Wrappers \cup {Flock} =>
      Survives(NormalizeLine(line), SubSeq(line, 1, k))

(* "a fallback-sourced suggestion that's still a valid continuation of the prefix
   survives, instead of vanishing the instant the user starts typing it"
   (handlers.go): whatever part of it has been typed.  The code does not keep it. *)
SurvivesTyping ==
  \A k \in DOMAIN line : \A w \in Words : BeginsWith(w, line[k]) =>
    Survives(NormalizeLine(line), SubSeq(line, 1, k - 1) \o <<w>>)
================================================================================
