--------------------------------- MODULE Shell ---------------------------------
(***************************************************************************)
(* The zsh integration of one interactive shell: the line editor's buffer    *)
(* and ghost text, the cached suggestions, and the pipe to and from the      *)
(* `hunch client serve` co-process, which may die and is respawned.          *)
(*                                                                          *)
(* One action is one run of an editor widget or of the file-descriptor       *)
(* handler, or one step of the co-process.  zle runs the pre-redraw hook     *)
(* (_hunch_update) after every widget, so it is part of the widget's action. *)
(* Lines are sequences of characters, because what the ghost text is about   *)
(* is how they extend each other; which lines are suggested is not modelled  *)
(* here (see Recall), any answer of Answers may come back.                   *)
(***************************************************************************)
EXTENDS Naturals, SequencesExt, Picks

CONSTANTS
  Chars,      \* characters
  Answers,    \* what a response may carry: ranked raw commands
  Null,       \* "raws":null, the answer when the daemon is not reachable
  Foreign,    \* ghost text of another plugin
  Unsent,     \* the value of _HUNCH_SENT that no buffer equals
  MaxLen,     \* bound on what is typed
  MaxKeys,    \* bound on key presses
  MaxFaults   \* bound on deaths of the co-process and failures to start it

Line == Seq(Chars)

ASSUME ShellAssumption ==
  /\ Answers \subseteq Seq(Line \ {<<>>})
  /\ Null \notin Answers /\ Foreign \notin Line /\ Unsent \notin Line
  /\ {MaxLen, MaxKeys, MaxFaults} \subseteq Nat

VARIABLES
  phase,      \* "edit": zle is active; "running": a command runs
  ed,         \* the editor: see Init
  prev,       \* _HUNCH_PREV
  lastShown,  \* _HUNCH_LAST_SHOWN
  coproc,     \* "none", "up", or "dead" and not yet noticed
  requests,   \* pipe to the co-process
  responses,  \* pipe from the co-process
  asked,      \* history: number of the latest query
  origin,     \* history: the query whose answer the candidates are from
  missed,     \* history: the latest query will not be answered, or was in vain
  took,       \* history: the suggestion accepted with a key, if not edited since
  keys, faults

pipe   == <<coproc, requests, responses>>
past   == <<asked, origin, missed>>
bounds == <<keys, faults>>
vars   == <<phase, ed, prev, lastShown, pipe, past, took, bounds>>

Init ==
  /\ phase = "running"
  /\ ed = [buffer     |-> <<>>,    \* BUFFER
           atEnd      |-> TRUE,    \* CURSOR is at the end of BUFFER
           post       |-> <<>>,    \* POSTDISPLAY
           suggestion |-> <<>>,    \* _HUNCH_SUGGESTION
           display    |-> <<>>,    \* _HUNCH_DISPLAY
           candidates |-> <<>>,    \* _HUNCH_CANDIDATES
           idx        |-> 0,       \* _HUNCH_CYCLE_IDX
           sent       |-> Unsent]  \* _HUNCH_SENT
  /\ prev = <<<<>>, <<>>>> /\ lastShown = <<>>
  /\ coproc = "none" /\ requests = <<>> /\ responses = <<>>
  /\ asked = 0 /\ origin = 0 /\ missed = FALSE /\ took = <<>>
  /\ keys = 0 /\ faults = 0

-----------------------------------------------------------------------------
(* The functions the widgets share, from an editor state to an editor state. *)

(* ${s#b} *)
Rest(s, b) == IF IsPrefix(b, s) THEN SubSeq(s, Len(b) + 1, Len(s)) ELSE s

Painted(e, s, d) == [e EXCEPT !.suggestion = s, !.display = d, !.post = d]

(* POSTDISPLAY is wiped only while it is hunch's.  Plausible bugs: the cycle
   index survives the candidates; another plugin's text is wiped too. *)
BadCleared(e) ==
  [e EXCEPT !.post = IF e.display # <<>> /\ e.post = e.display THEN <<>> ELSE e.post,
            !.suggestion = <<>>, !.display = <<>>, !.candidates = <<>>]
RudeCleared(e) ==
  [e EXCEPT !.post = <<>>, !.suggestion = <<>>, !.display = <<>>, !.candidates = <<>>, !.idx = 0]

Cleared(e) ==
  [e EXCEPT !.post = IF e.display # <<>> /\ e.post = e.display THEN <<>> ELSE e.post,
            !.suggestion = <<>>, !.display = <<>>, !.candidates = <<>>, !.idx = 0]

ShowCandidate(e, i) ==
  LET s == e.candidates[i] IN Painted([e EXCEPT !.idx = i], s, Rest(s, e.buffer))

(* Plausible bug: whether POSTDISPLAY is hunch's is not asked. *)
BadOwnsSuggestion(e) == e.atEnd /\ e.display # <<>>

OwnsSuggestion(e) == e.atEnd /\ e.display # <<>> /\ e.post = e.display

(* _hunch_update, up to the query: repaint from the cached suggestion while it
   extends the buffer. *)
Repainted(e) ==
  IF e.buffer # <<>> /\ IsStrictPrefix(e.buffer, e.suggestion)
  THEN Painted(e, e.suggestion, Rest(e.suggestion, e.buffer))
  ELSE IF e.buffer # e.sent /\ (e.suggestion = <<>> \/ ~IsPrefix(e.buffer, e.suggestion))
  THEN Cleared(e)
  ELSE e

Request(e) == [prefix |-> e.buffer, id |-> asked + 1]

(* _hunch_query: a co-process that is gone is started again, with empty pipes,
   and sent the request.  Plausible bug: the request is not sent again. *)
BadSend(e) ==
  /\ coproc' = "up"
  /\ IF coproc = "up"
     THEN requests' = Append(requests, Request(e)) /\ responses' = responses
     ELSE requests' = <<>> /\ responses' = <<>>

Send(e) ==
  /\ coproc' = "up"
  /\ IF coproc = "up"
     THEN requests' = Append(requests, Request(e)) /\ responses' = responses
     ELSE requests' = <<Request(e)>> /\ responses' = <<>>

Query(e) ==
  \/ /\ Send(e)
     /\ ed' = [e EXCEPT !.sent = e.buffer]
     /\ asked' = asked + 1 /\ missed' = FALSE
     /\ UNCHANGED <<origin, faults>>
  \/ /\ coproc # "up" /\ faults < MaxFaults /\ faults' = faults + 1
     /\ coproc' = "none" /\ requests' = <<>> /\ responses' = <<>>
     /\ ed' = e \/ (coproc = "dead" /\ ed' = [e EXCEPT !.sent = e.buffer])
     /\ missed' = TRUE
     /\ UNCHANGED <<asked, origin>>

(* The pre-redraw hook at the end of every widget. *)
Redraw(e) ==
  LET r == Repainted(e) IN
  IF r.buffer # r.sent THEN Query(r) ELSE ed' = r /\ UNCHANGED <<pipe, past, faults>>

-----------------------------------------------------------------------------
(* Keys. *)

Key == phase = "edit" /\ keys < MaxKeys /\ keys' = keys + 1

Type(c) ==
  /\ Key /\ Len(ed.buffer) < MaxLen
  /\ Redraw([ed EXCEPT !.buffer = IF ed.atEnd THEN Append(@, c) ELSE <<c>> \o @])
  /\ took' = <<>>
  /\ UNCHANGED <<phase, prev, lastShown>>

(* Backspace, or kill the line. *)
Erase ==
  /\ Key /\ ed.buffer # <<>> /\ ed.atEnd
  /\ \E b \in {Front(ed.buffer), <<>>} : Redraw([ed EXCEPT !.buffer = b])
  /\ took' = <<>>
  /\ UNCHANGED <<phase, prev, lastShown>>

MoveCursor ==
  /\ Key /\ ed.buffer # <<>>
  /\ Redraw([ed EXCEPT !.atEnd = ~@])
  /\ UNCHANGED <<phase, prev, lastShown, took>>

(* Right or End with hunch's ghost text on screen; without it the key moves the
   cursor, as above. *)
Accept ==
  /\ Key /\ OwnsSuggestion(ed)
  /\ LET b == ed.buffer \o ed.display IN
     Redraw([Cleared([ed EXCEPT !.buffer = b]) EXCEPT !.sent = b])
  /\ took' = ed.suggestion
  /\ UNCHANGED <<phase, prev, lastShown>>

Cycle(next) ==
  /\ Key /\ OwnsSuggestion(ed)
  /\ LET n == Len(ed.candidates) IN
     /\ n > 1
     /\ Redraw(ShowCandidate(ed, IF next THEN (ed.idx % n) + 1 ELSE ((ed.idx + n - 2) % n) + 1))
  /\ UNCHANGED <<phase, prev, lastShown, took>>

(* Up and down: another line of the history, or back to an empty one. *)
Navigate ==
  /\ Key
  /\ \E b \in {prev[1], prev[2], <<>>} :
       Redraw([Cleared(ed) EXCEPT !.sent = Unsent, !.buffer = b, !.atEnd = TRUE])
  /\ took' = <<>>
  /\ UNCHANGED <<phase, prev, lastShown>>

(* Another plugin puts its own text after the buffer. *)
ForeignPaints ==
  /\ phase = "edit" /\ ed' = [ed EXCEPT !.post = Foreign]
  /\ UNCHANGED <<phase, prev, lastShown, pipe, past, took, bounds>>

(* _hunch_line_finish; the line is executed. *)
Enter ==
  /\ Key /\ phase' = "running"
  /\ lastShown' = ed.suggestion
  /\ ed' = [Cleared(ed) EXCEPT !.sent = Unsent]
  /\ UNCHANGED <<prev, pipe, past, took, faults>>

(* The next prompt: precmd (_hunch_record, which does nothing when no command
   ran), then line-init, on an empty line. *)
Prompt ==
  /\ phase = "running" /\ phase' = "edit"
  /\ prev' = IF ed.buffer = <<>> THEN prev ELSE <<prev[2], ed.buffer>>
  /\ Redraw([ed EXCEPT !.buffer = <<>>, !.atEnd = TRUE, !.post = <<>>, !.sent = Unsent])
  /\ took' = <<>>
  /\ UNCHANGED <<lastShown, keys>>

-----------------------------------------------------------------------------
(* The co-process, and zle's handler for its output, which runs while a line is
   edited. *)

(* runServe: one line in, one line out, in order. *)
Serve ==
  /\ coproc = "up" /\ requests # <<>>
  /\ \E a \in Answers \cup {Null} :
       responses' = Append(responses, [prefix |-> Head(requests).prefix, id |-> Head(requests).id, raws |-> a])
  /\ requests' = Tail(requests)
  /\ UNCHANGED <<phase, ed, prev, lastShown, coproc, past, took, bounds>>

Response == Head(responses)
(* The echoed prefix is the buffer.  A response with "raws":null is not parsed:
   what is taken for its prefix is no buffer. *)
Current(r) == r.raws # Null /\ r.prefix = ed.buffer

(* Plausible bug: a command that does not extend the buffer is offered. *)
BadExtends(r, b) == r # <<>> /\ r # b

Extends(r, b) == r # <<>> /\ r # b /\ IsPrefix(b, r)

Received ==
  /\ phase = "edit" /\ responses # <<>> /\ responses' = Tail(responses)
  /\ UNCHANGED <<phase, prev, lastShown, coproc, requests, asked, took, bounds>>

(* Keys are queued: the response is discarded, whatever it is. *)
Discard ==
  /\ Received
  /\ missed' = (missed \/ Response.id = asked)
  /\ UNCHANGED <<ed, origin>>

DropStale ==
  /\ Received /\ ~Current(Response)
  /\ missed' = (missed \/ (Response.id = asked /\ Response.raws = Null))
  /\ UNCHANGED <<ed, origin>>

Apply ==
  /\ Received /\ Current(Response)
  /\ LET raws == Response.raws
         fit  == Picked(raws, {i \in DOMAIN raws : Extends(raws[i], ed.buffer)})
     IN
     ed' = IF fit # <<>> THEN ShowCandidate([ed EXCEPT !.candidates = fit], 1) ELSE Cleared(ed)
  /\ origin' = Response.id
  /\ UNCHANGED missed

Die ==
  /\ coproc = "up" /\ coproc' = "dead" /\ requests' = <<>>
  /\ faults < MaxFaults /\ faults' = faults + 1
  /\ missed' = (missed \/ requests # <<>>)
  /\ UNCHANGED <<phase, ed, prev, lastShown, responses, asked, origin, took, keys>>

(* End of file: _hunch_stop_coproc. *)
Eof ==
  /\ phase = "edit" /\ coproc = "dead" /\ responses = <<>>
  /\ coproc' = "none"
  /\ UNCHANGED <<phase, ed, prev, lastShown, requests, responses, past, took, bounds>>

-----------------------------------------------------------------------------
Handle == Discard \/ DropStale \/ Apply \/ Eof

Next ==
  \/ \E c \in Chars : Type(c)
  \/ \E next \in BOOLEAN : Cycle(next)
  \/ Erase \/ MoveCursor \/ Accept \/ Navigate \/ ForeignPaints \/ Enter \/ Prompt
  \/ Serve \/ Die \/ Handle

Spec == Init /\ [][Next]_vars
=================================================================================
