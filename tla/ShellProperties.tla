---------------------------- MODULE ShellProperties ----------------------------
(***************************************************************************)
(* What the ghost text, the accept keys and the co-process are for.          *)
(***************************************************************************)
EXTENDS Shell

Editor == [buffer : Line, atEnd : BOOLEAN, post : Line \cup {Foreign}, suggestion : Line,
           display : Line, candidates : Seq(Line), idx : Nat, sent : Line \cup {Unsent}]

(* Every variable has its type; the cycle index is that of a candidate, or 0
   when there is none; what hunch displays is of some suggestion. *)
TypeOK ==
  /\ phase \in {"edit", "running"}
  /\ ed \in Editor
  /\ ed.idx <= Len(ed.candidates) /\ (ed.idx = 0 <=> ed.candidates = <<>>)
  /\ prev \in Line \X Line /\ lastShown \in Line
  /\ coproc \in {"none", "up", "dead"} /\ (coproc # "up" => requests = <<>>)
  /\ requests \in Seq([prefix : Line, id : Nat])
  /\ responses \in Seq([prefix : Line, id : Nat, raws : Answers \cup {Null}])
  /\ asked \in Nat /\ origin \in Nat /\ missed \in BOOLEAN
  /\ took \in Line
  /\ keys \in 0..MaxKeys /\ faults \in 0..MaxFaults

(* The ghost text is the rest of the suggestion, so that accepting it completes
   the line to the suggestion ("_HUNCH_SUGGESTION is the full raw command last
   suggested; _HUNCH_DISPLAY is the ghost suffix", hunch.zsh).  The code keeps it
   once the line has settled (GhostSettles), not while it is edited. *)
GhostExtends ==
  phase = "edit" /\ ed.display # <<>> => ed.suggestion = ed.buffer \o ed.display

Extending(c) == \A i \in 1..Len(c) : Extends(c[i], ed.buffer)

(* However fast the user types, cycles, navigates, accepts and goes to the next
   line while answers are on their way, once the last query has been answered
   the ghost text is the rest of the suggestion, the candidates are commands
   that extend the buffer, and they are the answer to that query: to this
   buffer, on this line, in this context; nothing is shown only when that answer
   has nothing to show.  (Unless the answer was discarded
   because keys were queued, or never came; and after a suggestion is accepted,
   which asks nothing, the answer may be an earlier one for the same line.) *)
GhostSettles ==
  phase = "edit" /\ requests = <<>> /\ responses = <<>> /\ ~missed =>
    /\ GhostExtends /\ Extending(ed.candidates)
    /\ took = <<>> => origin = asked

(* No query is forgotten.  While a line is edited, what its buffer asks has been
   answered, or the answer is the last thing on its way to the shell, or the question
   the last on its way to a co-process that is there to answer it.  (With the
   exceptions of GhostSettles.) *)
QueryKept ==
  phase = "edit" /\ ~missed /\ took = <<>> =>
    \/ requests = <<>> /\ responses = <<>> /\ origin = asked
    \/ requests = <<>> /\ responses # <<>> /\ Last(responses).id = asked /\ Last(responses).prefix = ed.buffer
    \/ requests # <<>> /\ coproc = "up" /\ Last(requests).id = asked /\ Last(requests).prefix = ed.buffer

(* hunch never wipes the ghost text of another plugin, it only paints its own
   over it ("another plugin may have set its own suggestion since", hunch.zsh). *)
ForeignKept ==
  [][ed.post = Foreign /\ phase' = "edit" /\ phase = "edit" =>
       ed'.post = Foreign \/ (ed'.display # <<>> /\ ed'.post = ed'.display)]_vars

(* An accept key inserts the text the user sees behind the cursor, never a
   suggestion of hunch that another plugin's text has replaced. *)
AcceptsWhatIsShown ==
  [][took' # took /\ took' # <<>> =>
       ed.atEnd /\ ed.post # Foreign /\ ed'.buffer = ed.buffer \o ed.post]_vars

-----------------------------------------------------------------------------
(* Fairness: the co-process serves what it is sent, zle runs the handler when
   there is output while a line is edited, and a shell that runs a command
   prompts again.  Nothing is assumed of keys, other plugins or faults. *)
FairSpec == Spec /\ WF_vars(Serve) /\ WF_vars(Handle) /\ WF_vars(Prompt)

(* A line that is left alone gets its answer: the latest query is answered, even
   when the co-process had to be started again for it, unless its answer is
   discarded, the co-process dies under it, or a suggestion is accepted. *)
AnswerArrives ==
  \A n \in 1..(2 * MaxKeys + 1) :
    asked = n ~> (asked > n \/ origin = n \/ missed \/ took # <<>> \/ phase = "running")
================================================================================
