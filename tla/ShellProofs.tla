------------------------------- MODULE ShellProofs -------------------------------
(***************************************************************************)
(* The ghost text settles on the answer to the last query, for every         *)
(* alphabet, every set of answers, and however much is typed: the invariant  *)
(* says where that answer is until then, on its way back, on its way there,  *)
(* or on the screen.                                                         *)
(***************************************************************************)
EXTENDS ShellProperties, PicksFacts

EditorOK(e) ==
  /\ e \in Editor /\ e.idx <= Len(e.candidates) /\ (e.idx = 0 <=> e.candidates = <<>>)
  /\ e.suggestion = <<>> => e.display = <<>>

PipesOK ==
  /\ coproc \in {"none", "up", "dead"} /\ (coproc # "up" => requests = <<>>)
  /\ requests \in Seq([prefix : Line, id : Nat])
  /\ responses \in Seq([prefix : Line, id : Nat, raws : Answers \cup {Null}])
  /\ asked \in Nat /\ origin \in Nat /\ missed \in BOOLEAN /\ faults \in 0..MaxFaults

Typed ==
  /\ phase \in {"edit", "running"} /\ EditorOK(ed) /\ PipesOK
  /\ prev \in Line \X Line /\ lastShown \in Line /\ took \in Line /\ keys \in 0..MaxKeys

(* What is on the screen is of the buffer. *)
Fits == GhostExtends /\ Extending(ed.candidates)

(* The buffer is the one last asked about, unless the asking failed. *)
AskedAbout == phase = "edit" /\ ~missed => ed.buffer = ed.sent

(* r is the latest query, or its answer, and is about this buffer. *)
Latest(r) == r.id = asked /\ r.prefix = ed.buffer

(* The answer to the latest query is the last thing in the pipes, or has been shown. *)
AnswerAhead ==
  phase = "edit" /\ ~missed /\ took = <<>> =>
    /\ requests # <<>> => Latest(requests[Len(requests)])
    /\ requests = <<>> /\ responses # <<>> => Latest(responses[Len(responses)])
    /\ requests = <<>> /\ responses = <<>> => Fits /\ origin = asked

(* Whatever arrives after a suggestion is accepted, the screen fits the line. *)
AcceptedFits == phase = "edit" /\ took # <<>> => Fits /\ ed.buffer = ed.sent

IInv == Typed /\ AskedAbout /\ AnswerAhead /\ AcceptedFits
-----------------------------------------------------------------------------
(* The functions on editor states. *)

LEMMA RestIs ==
  ASSUME NEW s \in Line, NEW b \in Line
  PROVE  /\ Rest(s, b) \in Line
         /\ IsPrefix(b, s) => s = b \o Rest(s, b)
         /\ IsStrictPrefix(b, s) => Rest(s, b) # <<>>
         /\ s = <<>> => Rest(s, b) = <<>>
<1>1. Len(s) \in Nat /\ Len(b) \in Nat /\ s \in Seq(Chars) /\ b \in Seq(Chars)
  BY DEF Line
<1>2. CASE ~IsPrefix(b, s)
  BY <1>1, <1>2 DEF Rest, IsStrictPrefix, Line
<1>3. CASE IsPrefix(b, s)
  <2> DEFINE r == SubSeq(s, Len(b) + 1, Len(s))
  <2>1. Rest(s, b) = r BY <1>3 DEF Rest
  <2>2. Len(b) <= Len(s) /\ SubSeq(b, 1, Len(b)) = SubSeq(s, 1, Len(b))
    BY <1>3 DEF IsPrefix
  <2>3. \A i \in 1..Len(b) : b[i] = s[i]
    <3> SUFFICES ASSUME NEW i \in 1..Len(b) PROVE b[i] = s[i]
      OBVIOUS
    <3>1. SubSeq(b, 1, Len(b))[i] = b[i] BY <1>1
    <3>2. SubSeq(s, 1, Len(b))[i] = s[i] BY <1>1, <2>2
    <3> QED BY <2>2, <3>1, <3>2
  <2>4. /\ r \in Seq(Chars) /\ Len(r) = Len(s) - Len(b)
        /\ \A i \in 1..(Len(s) - Len(b)) : r[i] = s[Len(b) + i]
    BY <1>1, <2>2, SubSeqProperties
  <2> HIDE DEF r
  <2>5. b \o r \in Seq(Chars) /\ Len(b \o r) = Len(s) BY <1>1, <2>4
  <2>6. \A i \in 1..Len(s) : s[i] = (b \o r)[i]
    <3> SUFFICES ASSUME NEW i \in 1..Len(s) PROVE s[i] = (b \o r)[i]
      OBVIOUS
    <3>1. CASE i <= Len(b) BY <1>1, <2>3, <2>4, <3>1
    <3>2. CASE i > Len(b)
      <4>1. i - Len(b) \in 1..(Len(s) - Len(b)) BY <1>1, <3>2
      <4>2. r[i - Len(b)] = s[Len(b) + (i - Len(b))] BY <2>4, <4>1
      <4>3. (b \o r)[i] = r[i - Len(b)] BY <1>1, <2>4, <3>2
      <4> QED BY <1>1, <4>1, <4>2, <4>3
    <3>3. i <= Len(b) \/ i > Len(b) BY <1>1
    <3> QED BY <3>1, <3>2, <3>3
  <2>7. s = b \o r BY <1>1, <2>5, <2>6, SeqEqual
  <2>8. r = <<>> => s = b BY <1>1, <2>7
  <2>9. s = <<>> => r = <<>>
    <3> SUFFICES ASSUME s = <<>> PROVE r = <<>>
      OBVIOUS
    <3>1. Len(s) = 0 BY EmptySeq
    <3>2. Len(r) = 0 BY <1>1, <2>2, <2>4, <3>1
    <3> QED BY <2>4, <3>2, EmptySeq
  <2>10. Rest(s, b) \in Line BY <2>1, <2>4 DEF Line
  <2> QED BY <2>1, <2>7, <2>8, <2>9, <2>10 DEF IsStrictPrefix
<1> QED BY <1>2, <1>3

LEMMA PaintedOK ==
  ASSUME NEW e, EditorOK(e), NEW s \in Line, NEW d \in Line, s = <<>> => d = <<>>
  PROVE  /\ EditorOK(Painted(e, s, d))
         /\ Painted(e, s, d).buffer = e.buffer /\ Painted(e, s, d).sent = e.sent
         /\ Painted(e, s, d).atEnd = e.atEnd
         /\ Painted(e, s, d).candidates = e.candidates
         /\ Painted(e, s, d).suggestion = s /\ Painted(e, s, d).display = d /\ Painted(e, s, d).post = d
  BY DEF EditorOK, Editor, Painted

LEMMA ClearedOK ==
  ASSUME NEW e \in Editor
  PROVE  /\ EditorOK(Cleared(e))
         /\ Cleared(e).buffer = e.buffer /\ Cleared(e).sent = e.sent /\ Cleared(e).atEnd = e.atEnd
         /\ Cleared(e).candidates = <<>> /\ Cleared(e).suggestion = <<>> /\ Cleared(e).display = <<>>
         /\ e.post = Foreign => Cleared(e).post = Foreign
<1>1. <<>> \in Line /\ <<>> \in Seq(Line) /\ Len(<<>>) = 0 BY DEF Line
<1>2. e.display # Foreign BY ShellAssumption DEF Editor
<1>3. /\ Cleared(e) \in Editor /\ Cleared(e).idx = 0 /\ Cleared(e).candidates = <<>>
      /\ Cleared(e).display = <<>>
  BY <1>1 DEF Editor, Cleared
<1>4. EditorOK(Cleared(e))
  <2>1. Len(Cleared(e).candidates) = 0 BY <1>1, <1>3
  <2> QED BY <1>3, <2>1 DEF EditorOK
<1>5. /\ Cleared(e).buffer = e.buffer /\ Cleared(e).sent = e.sent /\ Cleared(e).atEnd = e.atEnd
      /\ Cleared(e).suggestion = <<>> /\ Cleared(e).display = <<>>
  BY DEF Editor, Cleared
<1>6. e.post = Foreign => Cleared(e).post = Foreign BY <1>2 DEF Editor, Cleared
<1> QED BY <1>3, <1>4, <1>5, <1>6

LEMMA ShownOK ==
  ASSUME NEW e, EditorOK(e), NEW i \in 1..Len(e.candidates)
  PROVE  LET v == ShowCandidate(e, i) IN
         /\ EditorOK(v)
         /\ v.buffer = e.buffer /\ v.sent = e.sent /\ v.atEnd = e.atEnd /\ v.candidates = e.candidates
         /\ v.suggestion = e.candidates[i] /\ v.display = Rest(e.candidates[i], e.buffer)
         /\ v.post = v.display
<1> DEFINE m == [e EXCEPT !.idx = i]
<1>1. e.candidates \in Seq(Line) /\ e.candidates[i] \in Line /\ e.buffer \in Line /\ Len(e.candidates) \in Nat
  BY DEF EditorOK, Editor
<1>2. /\ m \in Editor /\ m.idx = i /\ m.candidates = e.candidates /\ m.buffer = e.buffer
      /\ m.sent = e.sent /\ m.atEnd = e.atEnd /\ (m.suggestion = <<>> => m.display = <<>>)
  BY <1>1 DEF EditorOK, Editor
<1>3. EditorOK(m)
  <2>1. m.idx <= Len(m.candidates) /\ m.idx # 0 BY <1>1, <1>2
  <2>2. m.candidates # <<>>
    <3>1. Len(e.candidates) # 0 BY <1>1
    <3> QED BY <1>2, <3>1, EmptySeq
  <2> QED BY <1>2, <2>1, <2>2 DEF EditorOK
<1>4. /\ Rest(e.candidates[i], e.buffer) \in Line
      /\ e.candidates[i] = <<>> => Rest(e.candidates[i], e.buffer) = <<>>
  BY <1>1, RestIs
<1>5. ShowCandidate(e, i) = Painted(m, e.candidates[i], Rest(e.candidates[i], e.buffer))
  BY DEF ShowCandidate
<1> DEFINE c == e.candidates[i]  d == Rest(c, e.buffer)  v == Painted(m, c, d)
<1>6. ShowCandidate(e, i) = v /\ c \in Line /\ d \in Line /\ (c = <<>> => d = <<>>)
  BY <1>1, <1>4, <1>5
<1> HIDE DEF m, c, d
<1>7. /\ EditorOK(v) /\ v.buffer = m.buffer /\ v.sent = m.sent /\ v.atEnd = m.atEnd
      /\ v.candidates = m.candidates /\ v.suggestion = c /\ v.display = d /\ v.post = d
  BY <1>3, <1>6, PaintedOK
<1> HIDE DEF v
<1> QED BY <1>2, <1>6, <1>7 DEF c, d

(* The hook repaints what extends the buffer, clears, or does nothing. *)
LEMMA RepaintedOK ==
  ASSUME NEW e, EditorOK(e)
  PROVE  LET v == Repainted(e) IN
         /\ EditorOK(v) /\ v.buffer = e.buffer /\ v.sent = e.sent /\ v.atEnd = e.atEnd
         /\ \/ /\ v.candidates = e.candidates /\ v.suggestion = v.buffer \o v.display
               /\ v.display # <<>> /\ v.post = v.display
            \/ /\ v = Cleared(e) /\ e.buffer # e.sent
            \/ v = e
<1>1. e \in Editor /\ e.suggestion \in Line /\ e.buffer \in Line BY DEF EditorOK, Editor
<1>2. CASE e.buffer # <<>> /\ IsStrictPrefix(e.buffer, e.suggestion)
  <2> DEFINE d == Rest(e.suggestion, e.buffer)
  <2>1. d \in Line /\ e.suggestion = e.buffer \o d /\ d # <<>>
    BY <1>1, <1>2, RestIs DEF IsStrictPrefix
  <2>2. Repainted(e) = Painted(e, e.suggestion, d) BY <1>2 DEF Repainted
  <2> DEFINE c == e.suggestion  v == Painted(e, c, d)
  <2>3. c \in Line /\ (c = <<>> => d = <<>>) BY <1>1, RestIs
  <2> HIDE DEF c, d
  <2>4. /\ EditorOK(v) /\ v.buffer = e.buffer /\ v.sent = e.sent /\ v.atEnd = e.atEnd
        /\ v.candidates = e.candidates /\ v.suggestion = c /\ v.display = d /\ v.post = d
    BY <2>1, <2>3, PaintedOK
  <2>5. Repainted(e) = v BY <2>2 DEF c
  <2> HIDE DEF v
  <2> QED BY <2>1, <2>4, <2>5 DEF c
<1>3. CASE ~(e.buffer # <<>> /\ IsStrictPrefix(e.buffer, e.suggestion))
  <2>1. Repainted(e) = e \/ (Repainted(e) = Cleared(e) /\ e.buffer # e.sent)
    BY <1>3 DEF Repainted
  <2> QED BY <1>1, <2>1, ClearedOK
<1> QED BY <1>2, <1>3

-----------------------------------------------------------------------------
(* The hook. *)

(* The buffer is asked about, the asking fails, or there is nothing to ask. *)
Asks  == /\ requests' # <<>> /\ requests'[Len(requests')].id = asked'
         /\ requests'[Len(requests')].prefix = ed'.buffer /\ ed'.sent = ed'.buffer
Keeps(e) == ed' = Repainted(e) /\ e.buffer = e.sent /\ UNCHANGED <<pipe, past, faults>>

LEMMA QueryOK ==
  ASSUME PipesOK, NEW e, EditorOK(e), Query(e)
  PROVE  /\ EditorOK(ed') /\ ed'.buffer = e.buffer /\ PipesOK' /\ (missed' \/ Asks)
         /\ ed'.post = e.post /\ ed'.display = e.display
<1>1. e \in Editor /\ e.buffer \in Line BY DEF EditorOK, Editor
<1>2. [e EXCEPT !.sent = e.buffer] \in Editor BY <1>1 DEF Editor
<1>3. /\ EditorOK([e EXCEPT !.sent = e.buffer])
      /\ [e EXCEPT !.sent = e.buffer].buffer = e.buffer /\ [e EXCEPT !.sent = e.buffer].sent = e.buffer
      /\ [e EXCEPT !.sent = e.buffer].post = e.post /\ [e EXCEPT !.sent = e.buffer].display = e.display
  BY <1>1, <1>2 DEF EditorOK, Editor
<1>4. ed' = e \/ ed' = [e EXCEPT !.sent = e.buffer] BY DEF Query
<1>5. EditorOK(ed') /\ ed'.buffer = e.buffer /\ ed'.post = e.post /\ ed'.display = e.display
  BY <1>3, <1>4
<1>6. CASE Send(e) /\ ed' = [e EXCEPT !.sent = e.buffer] /\ asked' = asked + 1 /\ missed' = FALSE
             /\ UNCHANGED <<origin, faults>>
  <2>1. /\ Request(e) \in [prefix : Line, id : Nat]
        /\ Request(e).prefix = e.buffer /\ Request(e).id = asked + 1
    BY <1>1 DEF Request, PipesOK
  <2>2. \/ requests' = Append(requests, Request(e)) /\ responses' = responses
        \/ requests' = <<Request(e)>> /\ responses' = <<>>
    BY <1>6 DEF Send
  <2>3. /\ requests' \in Seq([prefix : Line, id : Nat]) /\ requests' # <<>>
        /\ requests'[Len(requests')] = Request(e)
    <3>1. requests \in Seq([prefix : Line, id : Nat]) BY DEF PipesOK
    <3> HIDE DEF Request
    <3>2. CASE requests' = Append(requests, Request(e)) BY <2>1, <3>1, <3>2, AppendProperties
    <3>3. CASE requests' = <<Request(e)>>
      <4>1. requests' \in Seq([prefix : Line, id : Nat]) /\ Len(requests') = 1 BY <2>1, <3>3
      <4>2. requests'[1] = Request(e) BY <3>3
      <4> QED BY <4>1, <4>2, EmptySeq
    <3> QED BY <2>2, <3>2, <3>3
  <2>4. responses' \in Seq([prefix : Line, id : Nat, raws : Answers \cup {Null}])
    <3>1. responses \in Seq([prefix : Line, id : Nat, raws : Answers \cup {Null}]) BY DEF PipesOK
    <3>2. responses' = responses \/ responses' = <<>> BY <2>2
    <3> QED BY <3>1, <3>2, EmptySeq
  <2>5. PipesOK'
    <3>1. coproc' = "up" BY <1>6 DEF Send
    <3>2. asked \in Nat /\ origin \in Nat /\ faults \in 0..MaxFaults BY DEF PipesOK
    <3>3. asked' \in Nat /\ origin' \in Nat /\ faults' \in 0..MaxFaults BY <1>6, <3>2
    <3>4. missed' \in BOOLEAN BY <1>6
    <3> QED BY <2>3, <2>4, <3>1, <3>3, <3>4 DEF PipesOK
  <2>6. Asks BY <1>3, <1>6, <2>1, <2>3 DEF Asks
  <2> QED BY <1>5, <2>5, <2>6
<1>7. CASE coproc # "up" /\ faults < MaxFaults /\ faults' = faults + 1 /\ coproc' = "none"
             /\ requests' = <<>> /\ responses' = <<>> /\ missed' = TRUE /\ UNCHANGED <<asked, origin>>
  <2>1. /\ <<>> \in Seq([prefix : Line, id : Nat])
        /\ <<>> \in Seq([prefix : Line, id : Nat, raws : Answers \cup {Null}])
    BY EmptySeq
  <2>2. faults' \in 0..MaxFaults BY <1>7, ShellAssumption DEF PipesOK
  <2> QED BY <1>5, <1>7, <2>1, <2>2 DEF PipesOK
<1> QED BY <1>6, <1>7 DEF Query

LEMMA RedrawOK ==
  ASSUME PipesOK, NEW e, EditorOK(e), Redraw(e)
  PROVE  /\ EditorOK(ed') /\ ed'.buffer = e.buffer /\ PipesOK' /\ (missed' \/ Asks \/ Keeps(e))
         /\ e.buffer = e.sent => Keeps(e)
         /\ e.post = Foreign => ed'.post = Foreign \/ (ed'.display # <<>> /\ ed'.post = ed'.display)
<1> DEFINE v == Repainted(e)
<1>1. EditorOK(v) /\ v.buffer = e.buffer /\ v.sent = e.sent BY RepaintedOK
<1>2. e.post = Foreign => v.post = Foreign \/ (v.display # <<>> /\ v.post = v.display)
  BY RepaintedOK, ClearedOK DEF EditorOK
<1>3. Redraw(e) <=> IF v.buffer # v.sent THEN Query(v) ELSE ed' = v /\ UNCHANGED <<pipe, past, faults>>
  BY DEF Redraw
<1> HIDE DEF v
<1>4. CASE v.buffer # v.sent
  <2>1. Query(v) BY <1>3, <1>4
  <2>2. /\ EditorOK(ed') /\ ed'.buffer = v.buffer /\ PipesOK' /\ (missed' \/ Asks)
        /\ ed'.post = v.post /\ ed'.display = v.display
    BY <1>1, <2>1, QueryOK
  <2>3. e.buffer # e.sent BY <1>1, <1>4
  <2>4. ed'.buffer = e.buffer BY <1>1, <2>2
  <2> QED BY <1>2, <2>2, <2>3, <2>4
<1>5. CASE v.buffer = v.sent
  <2>1. ed' = v /\ UNCHANGED <<pipe, past, faults>> BY <1>3, <1>5
  <2>2. PipesOK' BY <2>1 DEF PipesOK, pipe, past
  <2>3. Keeps(e) BY <1>1, <1>5, <2>1 DEF Keeps, v
  <2> QED BY <1>1, <1>2, <2>1, <2>2, <2>3
<1> QED BY <1>4, <1>5

-----------------------------------------------------------------------------
(* How a widget settles: a line that is new to the hook is asked about; one
   that stays keeps what is shown of it. *)

Settled == AskedAbout /\ AnswerAhead /\ AcceptedFits

LEMMA NewSettles ==
  ASSUME Asks \/ missed', took' = <<>> PROVE Settled'
  BY DEF Asks, Settled, AskedAbout, AnswerAhead, AcceptedFits, Latest

Shows(e) ==
  /\ e.display # <<>> => e.suggestion = e.buffer \o e.display
  /\ \A i \in 1..Len(e.candidates) : Extends(e.candidates[i], e.buffer)

LEMMA FitsShows == phase = "edit" => (Fits <=> Shows(ed))
  BY DEF Fits, Shows, GhostExtends, Extending

LEMMA StaySettles ==
  ASSUME IInv, phase = "edit", phase' = "edit", took' = took,
         NEW e, EditorOK(e), e.buffer = ed.buffer, e.sent = ed.sent, e.candidates = ed.candidates,
         Shows(ed) => Shows(e), Redraw(e)
  PROVE  Settled'
<1>1. /\ ed'.buffer = ed.buffer /\ (missed' \/ Asks \/ Keeps(e)) /\ (ed.buffer = ed.sent => Keeps(e))
      /\ PipesOK
  BY RedrawOK DEF IInv, Typed
<1>2. CASE Keeps(e)
  <2>1. /\ e.buffer = e.sent /\ ed' = Repainted(e)
        /\ UNCHANGED <<coproc, requests, responses, asked, origin, missed>>
    BY <1>2 DEF Keeps, pipe, past
  <2>2. /\ ed'.sent = ed.sent /\ ed'.candidates = ed.candidates
        /\ (ed' = e \/ ed'.suggestion = ed'.buffer \o ed'.display)
    BY <2>1, RepaintedOK
  <2>3. Shows(ed) => Shows(ed') BY <1>1, <2>2 DEF Shows
  <2>4. (Fits <=> Shows(ed)) /\ (Fits' <=> Shows(ed'))
    BY FitsShows DEF Fits, Shows, GhostExtends, Extending
  <2>5. Fits => Fits' BY <2>3, <2>4
  <2>6. \A q : Latest(q) => Latest(q)' BY <1>1, <2>1 DEF Latest
  <2>7. AskedAbout' BY <1>1, <2>1, <2>2 DEF AskedAbout
  <2>8. AcceptedFits' BY <1>1, <2>1, <2>2, <2>5 DEF IInv, AcceptedFits
  <2>9. AnswerAhead' BY <2>1, <2>2, <2>5, <1>1 DEF IInv, AnswerAhead, Latest
  <2> QED BY <2>7, <2>8, <2>9 DEF Settled
<1>3. CASE ~Keeps(e)
  <2>1. took' = <<>> BY <1>1, <1>3 DEF IInv, AcceptedFits
  <2> QED BY <1>1, <1>3, <2>1, NewSettles
<1> QED BY <1>2, <1>3

LEMMA KeyTyped ==
  ASSUME Typed, NEW e, EditorOK(e), Redraw(e), phase' \in {"edit", "running"},
         prev' \in Line \X Line, lastShown' \in Line, took' \in Line, keys' \in 0..MaxKeys
  PROVE  Typed'
  BY RedrawOK DEF Typed

LEMMA Keyed == ASSUME Typed, Key PROVE phase = "edit" /\ keys' \in 0..MaxKeys
  BY ShellAssumption DEF Typed, Key

-----------------------------------------------------------------------------
(* Each key. *)

LEMMA TypeKeeps == ASSUME IInv, NEW c \in Chars, Type(c) PROVE IInv'
<1> DEFINE b == IF ed.atEnd THEN Append(ed.buffer, c) ELSE <<c>> \o ed.buffer
           e == [ed EXCEPT !.buffer = b]
<1>1. ed \in Editor /\ ed.buffer \in Seq(Chars) BY DEF IInv, Typed, EditorOK, Editor, Line
<1>2. b \in Seq(Chars) /\ Len(b) = Len(ed.buffer) + 1 BY <1>1
<1>3. b \in Line /\ b # ed.buffer
  <2>1. Len(b) # Len(ed.buffer) BY <1>1, <1>2
  <2> QED BY <1>2, <2>1 DEF Line
<1>4. Redraw(e) /\ took' = <<>> /\ UNCHANGED <<phase, prev, lastShown>> /\ Key BY DEF Type
<1> HIDE DEF b
<1>5. EditorOK(e) /\ e.buffer = b /\ e.sent = ed.sent
  BY <1>1, <1>3 DEF IInv, Typed, EditorOK, Editor
<1> HIDE DEF e
<1>6. Typed'
  <2>1. <<>> \in Line BY DEF Line
  <2> QED BY <1>4, <1>5, <2>1, KeyTyped, Keyed DEF IInv, Typed
<1>7. missed' \/ Asks
  <2>1. Keeps(e) => b = ed.sent /\ missed' = missed BY <1>5 DEF Keeps, past
  <2>2. phase = "edit" /\ (~missed => ed.buffer = ed.sent) BY <1>4, Keyed DEF IInv, AskedAbout
  <2> QED BY <1>3, <1>4, <1>5, <2>1, <2>2, RedrawOK DEF IInv, Typed
<1> QED BY <1>4, <1>6, <1>7, NewSettles DEF IInv, Settled

LEMMA EraseKeeps == ASSUME IInv, Erase PROVE IInv'
<1>1. ed \in Editor /\ ed.buffer \in Seq(Chars) /\ ed.buffer # <<>>
  BY DEF IInv, Typed, EditorOK, Editor, Line, Erase
<1>2. PICK b \in {Front(ed.buffer), <<>>} : Redraw([ed EXCEPT !.buffer = b])
  BY DEF Erase
<1> DEFINE e == [ed EXCEPT !.buffer = b]
<1>3. b \in Line /\ b # ed.buffer
  <2>1. Len(ed.buffer) \in Nat /\ Len(ed.buffer) # 0 BY <1>1, EmptySeq
  <2>2. CASE b = Front(ed.buffer)
    <3>1. b = SubSeq(ed.buffer, 1, Len(ed.buffer) - 1) BY <2>2 DEF Front
    <3>2. b \in Seq(Chars) /\ Len(b) = Len(ed.buffer) - 1
      BY <1>1, <2>1, <3>1, SubSeqProperties
    <3>3. Len(b) # Len(ed.buffer) BY <2>1, <3>2
    <3> QED BY <3>2, <3>3 DEF Line
  <2>3. CASE b = <<>> BY <1>1, <2>3, EmptySeq DEF Line
  <2> QED BY <2>2, <2>3
<1>4. Redraw(e) /\ took' = <<>> /\ UNCHANGED <<phase, prev, lastShown>> /\ Key BY <1>2 DEF Erase
<1>5. EditorOK(e) /\ e.buffer = b /\ e.sent = ed.sent
  BY <1>1, <1>3 DEF IInv, Typed, EditorOK, Editor
<1> HIDE DEF e
<1>6. Typed'
  <2>1. <<>> \in Line BY DEF Line
  <2> QED BY <1>4, <1>5, <2>1, KeyTyped, Keyed DEF IInv, Typed
<1>7. missed' \/ Asks
  <2>1. Keeps(e) => b = ed.sent /\ missed' = missed BY <1>5 DEF Keeps, past
  <2>2. phase = "edit" /\ (~missed => ed.buffer = ed.sent) BY <1>4, Keyed DEF IInv, AskedAbout
  <2> QED BY <1>3, <1>4, <1>5, <2>1, <2>2, RedrawOK DEF IInv, Typed
<1> QED BY <1>4, <1>6, <1>7, NewSettles DEF IInv, Settled

LEMMA MoveCursorKeeps == ASSUME IInv, MoveCursor PROVE IInv'
<1> DEFINE e == [ed EXCEPT !.atEnd = ~@]
<1>1. ed \in Editor BY DEF IInv, Typed, EditorOK
<1>2. Redraw(e) /\ UNCHANGED <<phase, prev, lastShown, took>> /\ Key BY DEF MoveCursor
<1>3. EditorOK(e) BY <1>1 DEF IInv, Typed, EditorOK, Editor
<1>4. /\ e.buffer = ed.buffer /\ e.sent = ed.sent /\ e.candidates = ed.candidates
      /\ e.display = ed.display /\ e.suggestion = ed.suggestion
  BY <1>1 DEF Editor
<1> HIDE DEF e
<1>5. Typed' BY <1>2, <1>3, KeyTyped, Keyed DEF IInv, Typed
<1>6. Shows(ed) => Shows(e) BY <1>4 DEF Shows
<1>7. Settled' BY <1>2, <1>3, <1>4, <1>6, StaySettles, Keyed DEF IInv, Typed
<1> QED BY <1>5, <1>7 DEF IInv, Settled

(* The next candidate is one of the candidates. *)
LEMMA CycleIndex ==
  ASSUME NEW n \in Nat, n > 1, NEW i \in Nat
  PROVE  (i % n) + 1 \in 1..n /\ ((i + n - 2) % n) + 1 \in 1..n
<1>1. i % n \in 0..(n - 1) OBVIOUS
<1>2. i + n - 2 \in Nat OBVIOUS
<1>3. (i + n - 2) % n \in 0..(n - 1) BY <1>2
<1> QED BY <1>1, <1>3

LEMMA CycleKeeps == ASSUME IInv, NEW next \in BOOLEAN, Cycle(next) PROVE IInv'
<1> DEFINE n == Len(ed.candidates)
           i == IF next THEN (ed.idx % n) + 1 ELSE ((ed.idx + n - 2) % n) + 1
           e == ShowCandidate(ed, i)
<1>1. ed \in Editor /\ ed.idx \in Nat /\ n \in Nat /\ ed.candidates \in Seq(Line) /\ ed.buffer \in Line
  BY DEF IInv, Typed, EditorOK, Editor
<1>2. Redraw(e) /\ UNCHANGED <<phase, prev, lastShown, took>> /\ Key /\ n > 1 BY DEF Cycle
<1>3. i \in 1..n BY <1>1, <1>2, CycleIndex
<1> HIDE DEF i
<1>4. /\ EditorOK(e) /\ e.buffer = ed.buffer /\ e.sent = ed.sent /\ e.candidates = ed.candidates
      /\ e.suggestion = ed.candidates[i] /\ e.display = Rest(ed.candidates[i], ed.buffer)
  BY <1>3, ShownOK DEF IInv, Typed
<1>5. Shows(ed) => Shows(e)
  <2> SUFFICES ASSUME Shows(ed) PROVE e.suggestion = e.buffer \o e.display
    BY <1>4 DEF Shows
  <2>1. Extends(ed.candidates[i], ed.buffer) BY <1>3 DEF Shows
  <2>2. ed.candidates[i] \in Line BY <1>1, <1>3
  <2> QED BY <1>1, <1>4, <2>1, <2>2, RestIs DEF Extends
<1> HIDE DEF n, e
<1>6. Typed' BY <1>2, <1>4, KeyTyped, Keyed DEF IInv, Typed
<1>7. Settled' BY <1>2, <1>4, <1>5, StaySettles, Keyed DEF IInv, Typed
<1> QED BY <1>6, <1>7 DEF IInv, Settled

LEMMA NavigateKeeps == ASSUME IInv, Navigate PROVE IInv'
<1>1. PICK b \in {prev[1], prev[2], <<>>} :
        Redraw([Cleared(ed) EXCEPT !.sent = Unsent, !.buffer = b, !.atEnd = TRUE])
  BY DEF Navigate
<1> DEFINE e == [Cleared(ed) EXCEPT !.sent = Unsent, !.buffer = b, !.atEnd = TRUE]
<1>2. b \in Line /\ <<>> \in Line
  <2>1. prev[1] \in Line /\ prev[2] \in Line BY DEF IInv, Typed
  <2>2. <<>> \in Line BY DEF Line
  <2> QED BY <2>1, <2>2
<1>3. EditorOK(Cleared(ed)) BY ClearedOK DEF IInv, Typed, EditorOK
<1>4. EditorOK(e) /\ e.buffer = b /\ e.sent = Unsent
  <2> DEFINE d == Cleared(ed)
  <2> HIDE DEF d
  <2>1. EditorOK(d) /\ e = [d EXCEPT !.sent = Unsent, !.buffer = b, !.atEnd = TRUE] BY <1>3 DEF d
  <2> HIDE DEF e
  <2> QED BY <1>2, <2>1 DEF EditorOK, Editor
<1>5. Redraw(e) /\ took' = <<>> /\ UNCHANGED <<phase, prev, lastShown>> /\ Key BY <1>1 DEF Navigate
<1> HIDE DEF e
<1>6. Typed' BY <1>2, <1>4, <1>5, KeyTyped, Keyed DEF IInv, Typed
<1>7. e.buffer # e.sent BY <1>2, <1>4, ShellAssumption
<1>8. missed' \/ Asks BY <1>4, <1>5, <1>7, RedrawOK DEF Keeps, IInv, Typed
<1> QED BY <1>5, <1>6, <1>8, NewSettles DEF IInv, Settled

LEMMA PromptKeeps == ASSUME IInv, Prompt PROVE IInv'
<1> DEFINE e == [ed EXCEPT !.buffer = <<>>, !.atEnd = TRUE, !.post = <<>>, !.sent = Unsent]
<1>1. <<>> \in Line /\ ed.buffer \in Line BY DEF IInv, Typed, EditorOK, Editor, Line
<1>2. EditorOK(e) /\ e.buffer = <<>> /\ e.sent = Unsent
  BY <1>1 DEF IInv, Typed, EditorOK, Editor
<1>3. Redraw(e) /\ took' = <<>> /\ UNCHANGED <<lastShown, keys>> /\ phase' = "edit"
  BY DEF Prompt
<1> HIDE DEF e
<1>4. prev' \in Line \X Line BY <1>1 DEF Prompt, IInv, Typed
<1>5. Typed' BY <1>1, <1>2, <1>3, <1>4, KeyTyped DEF IInv, Typed
<1>6. e.buffer # e.sent BY <1>1, <1>2, ShellAssumption
<1>7. missed' \/ Asks BY <1>2, <1>3, <1>6, RedrawOK DEF Keeps, IInv, Typed
<1> QED BY <1>3, <1>5, <1>7, NewSettles DEF IInv, Settled

(* An accepted line is not asked about, and nothing of the old one is left on it. *)
LEMMA AcceptKeeps ==
  ASSUME IInv, Accept
  PROVE  IInv' /\ ed.atEnd /\ ed.post = ed.display /\ ed'.buffer = ed.buffer \o ed.display
<1> DEFINE b == ed.buffer \o ed.display  d == [ed EXCEPT !.buffer = b]  c == Cleared(d)
           e == [c EXCEPT !.sent = b]
<1>1. /\ ed \in Editor /\ b \in Line /\ <<>> \in Line /\ ed.suggestion \in Line
      /\ (ed.suggestion = <<>> => ed.display = <<>>)
  BY DEF IInv, Typed, EditorOK, Editor, Line
<1>2. /\ Redraw(e) /\ took' = ed.suggestion /\ UNCHANGED <<phase, prev, lastShown>> /\ Key
      /\ ed.atEnd /\ ed.post = ed.display /\ ed.display # <<>>
  BY DEF Accept, OwnsSuggestion
<1> HIDE DEF b
<1>3. d \in Editor /\ d.buffer = b BY <1>1 DEF Editor
<1> HIDE DEF d
<1>4. EditorOK(c) /\ c.buffer = b /\ c.candidates = <<>> /\ c.display = <<>> BY <1>3, ClearedOK
<1> HIDE DEF c
<1>5. /\ EditorOK(e) /\ e.buffer = b /\ e.sent = b /\ e.candidates = <<>> /\ e.display = <<>>
  BY <1>1, <1>4 DEF EditorOK, Editor
<1> HIDE DEF e
<1>6. Typed' BY <1>1, <1>2, <1>5, KeyTyped, Keyed DEF IInv, Typed
<1>7. ed' = Repainted(e) /\ ed'.buffer = b
  BY <1>2, <1>5, RedrawOK DEF Keeps, IInv, Typed
<1>8. /\ ed'.sent = b /\ ed'.candidates = <<>>
      /\ (ed'.display = <<>> \/ ed'.suggestion = ed'.buffer \o ed'.display)
  <2> DEFINE v == Repainted(e)
  <2>1. /\ v.buffer = e.buffer /\ v.sent = e.sent
        /\ \/ v.candidates = e.candidates /\ v.suggestion = v.buffer \o v.display
           \/ v = e
    BY <1>5, RepaintedOK
  <2> HIDE DEF v
  <2>2. ed' = v BY <1>7 DEF v
  <2> QED BY <1>5, <2>1, <2>2
<1>9. Fits'
  <2>1. Len(ed'.candidates) = 0 BY <1>8, EmptySeq
  <2>2. GhostExtends' BY <1>8 DEF GhostExtends
  <2>3. Extending(ed.candidates)'
    <3>1. \A i \in 1..Len(ed'.candidates) : FALSE BY <2>1
    <3> QED BY <3>1 DEF Extending
  <2> QED BY <2>2, <2>3 DEF Fits
<1>10. took' # <<>> BY <1>1, <1>2
<1>11. Settled' BY <1>7, <1>8, <1>9, <1>10 DEF Settled, AskedAbout, AnswerAhead, AcceptedFits
<1> QED BY <1>2, <1>6, <1>7, <1>11 DEF IInv, Settled, b

LEMMA ForeignPaintsKeeps == ASSUME IInv, ForeignPaints PROVE IInv'
<1>1. /\ ed \in Editor /\ ed' = [ed EXCEPT !.post = Foreign]
      /\ UNCHANGED <<phase, prev, lastShown, coproc, requests, responses, asked, origin, missed, took, keys, faults>>
  BY DEF IInv, Typed, EditorOK, ForeignPaints, pipe, past, bounds
<1>2. EditorOK(ed') BY <1>1 DEF IInv, Typed, EditorOK, Editor
<1>3. /\ ed'.buffer = ed.buffer /\ ed'.sent = ed.sent /\ ed'.candidates = ed.candidates
      /\ ed'.display = ed.display /\ ed'.suggestion = ed.suggestion
  BY <1>1 DEF Editor
<1>4. Typed' BY <1>1, <1>2 DEF IInv, Typed, PipesOK
<1>5. Fits => Fits' BY <1>1, <1>3 DEF Fits, GhostExtends, Extending
<1>6. AskedAbout' /\ AcceptedFits' BY <1>1, <1>3, <1>5 DEF IInv, AskedAbout, AcceptedFits
<1>7. AnswerAhead' BY <1>1, <1>3, <1>5 DEF IInv, AnswerAhead, Latest
<1> QED BY <1>4, <1>6, <1>7 DEF IInv

LEMMA EnterKeeps == ASSUME IInv, Enter PROVE IInv'
<1>1. /\ EditorOK(Cleared(ed)) /\ ed' = [Cleared(ed) EXCEPT !.sent = Unsent] /\ phase' = "running"
      /\ lastShown' = ed.suggestion /\ Key
      /\ UNCHANGED <<prev, coproc, requests, responses, asked, origin, missed, took, faults>>
  BY ClearedOK DEF IInv, Typed, EditorOK, Enter, pipe, past
<1>2. EditorOK(ed')
  <2> DEFINE c == Cleared(ed)
  <2>1. EditorOK(c) /\ ed' = [c EXCEPT !.sent = Unsent] BY <1>1
  <2> HIDE DEF c
  <2> QED BY <2>1 DEF EditorOK, Editor
<1>3. ed.suggestion \in Line BY DEF IInv, Typed, EditorOK, Editor
<1>4. PipesOK' BY <1>1 DEF IInv, Typed, PipesOK
<1>5. Typed' BY <1>1, <1>2, <1>3, <1>4, Keyed DEF IInv, Typed
<1>6. AskedAbout' /\ AnswerAhead' /\ AcceptedFits'
  BY <1>1 DEF AskedAbout, AnswerAhead, AcceptedFits
<1> QED BY <1>5, <1>6 DEF IInv

-----------------------------------------------------------------------------
(* The co-process and the handler. *)

(* The last element stays when the first goes. *)
LEMMA TailKeepsLast ==
  ASSUME NEW S, NEW s \in Seq(S), s # <<>>
  PROVE  /\ Tail(s) \in Seq(S) /\ Head(s) \in S
         /\ Tail(s) # <<>> => Tail(s)[Len(Tail(s))] = s[Len(s)]
         /\ Tail(s) = <<>> => Head(s) = s[Len(s)]
<1>1. Len(s) \in Nat /\ Len(s) # 0 BY EmptySeq
<1>2. Tail(s) \in Seq(S) /\ Len(Tail(s)) = Len(s) - 1 /\ Head(s) = s[1] /\ Head(s) \in S
  BY <1>1, HeadTailProperties
<1>3. \A i \in 1..(Len(s) - 1) : Tail(s)[i] = s[i + 1] BY <1>1, HeadTailProperties
<1>4. ASSUME Tail(s) # <<>> PROVE Tail(s)[Len(Tail(s))] = s[Len(s)]
  <2>1. Len(Tail(s)) # 0 BY <1>2, <1>4, EmptySeq
  <2>2. Len(s) - 1 \in 1..(Len(s) - 1) /\ (Len(s) - 1) + 1 = Len(s) BY <1>1, <1>2, <2>1
  <2> QED BY <1>2, <1>3, <2>2
<1>5. ASSUME Tail(s) = <<>> PROVE Head(s) = s[Len(s)]
  <2>1. Len(Tail(s)) = 0 BY <1>5, EmptySeq
  <2>2. Len(s) - 1 = 0 BY <1>2, <2>1
  <2>3. Len(s) = 1 BY <1>1, <2>2
  <2> QED BY <1>2, <2>3
<1> QED BY <1>2, <1>4, <1>5

LEMMA ServeKeeps == ASSUME IInv, Serve PROVE IInv'
<1> DEFINE Answered == [prefix : Line, id : Nat, raws : Answers \cup {Null}]
           h == Head(requests)
<1>1. PICK a \in Answers \cup {Null} :
        responses' = Append(responses, [prefix |-> h.prefix, id |-> h.id, raws |-> a])
  BY DEF Serve
<1> DEFINE r == [prefix |-> h.prefix, id |-> h.id, raws |-> a]
<1>2. /\ requests \in Seq([prefix : Line, id : Nat]) /\ responses \in Seq(Answered)
      /\ requests # <<>> /\ requests' = Tail(requests) /\ coproc = "up"
      /\ UNCHANGED <<phase, ed, prev, lastShown, coproc, asked, origin, missed, took, keys, faults>>
  BY DEF IInv, Typed, PipesOK, Serve, past, bounds
<1>3. /\ requests' \in Seq([prefix : Line, id : Nat]) /\ h \in [prefix : Line, id : Nat]
      /\ requests' # <<>> => requests'[Len(requests')] = requests[Len(requests)]
      /\ requests' = <<>> => h = requests[Len(requests)]
  BY <1>2, TailKeepsLast
<1>4. r \in Answered /\ r.prefix = h.prefix /\ r.id = h.id BY <1>3
<1> HIDE DEF h, r
<1>5. responses' = Append(responses, r) BY <1>1 DEF r
<1> HIDE DEF Answered
<1>6. responses' \in Seq(Answered) /\ responses' # <<>> /\ responses'[Len(responses')] = r
  BY <1>2, <1>4, <1>5, AppendProperties
<1>7. Typed' BY <1>2, <1>3, <1>6 DEF IInv, Typed, PipesOK, Answered
<1>8. AskedAbout' /\ AcceptedFits'
  BY <1>2 DEF IInv, AskedAbout, AcceptedFits, Fits, GhostExtends, Extending
<1>9. AnswerAhead'
  <2> DEFINE Ahead(q) == q[Len(q)].id = asked /\ q[Len(q)].prefix = ed.buffer
  <2>1. SUFFICES ASSUME phase = "edit", ~missed, took = <<>>
                 PROVE  /\ requests' # <<>> => Ahead(requests')
                        /\ requests' = <<>> => Ahead(responses')
    BY <1>2, <1>6 DEF AnswerAhead, Latest
  <2>2. Ahead(requests) BY <1>2, <2>1 DEF IInv, AnswerAhead, Latest
  <2>3. ASSUME requests' # <<>> PROVE Ahead(requests') BY <1>3, <2>2, <2>3
  <2>4. ASSUME requests' = <<>> PROVE Ahead(responses') BY <1>3, <1>4, <1>6, <2>2, <2>4
  <2> QED BY <2>3, <2>4
<1> QED BY <1>7, <1>8, <1>9 DEF IInv

(* What is left of the pipes ends as they did; a last answer is to the latest query. *)
LEMMA ReceivedOK ==
  ASSUME IInv, Received
  PROVE  /\ phase = "edit" /\ Response \in [prefix : Line, id : Nat, raws : Answers \cup {Null}]
         /\ responses' \in Seq([prefix : Line, id : Nat, raws : Answers \cup {Null}])
         /\ UNCHANGED <<phase, prev, lastShown, coproc, requests, asked, took, keys, faults>>
         /\ ~missed /\ took = <<>> =>
              /\ requests # <<>> => Latest(requests[Len(requests)])
              /\ requests = <<>> /\ responses' # <<>> => Latest(responses'[Len(responses')])
              /\ requests = <<>> /\ responses' = <<>> => Latest(Response)
<1>1. /\ phase = "edit" /\ responses # <<>> /\ responses' = Tail(responses)
      /\ UNCHANGED <<phase, prev, lastShown, coproc, requests, asked, took, keys, faults>>
  BY DEF Received, bounds
<1> DEFINE Answered == [prefix : Line, id : Nat, raws : Answers \cup {Null}]
<1>2. responses \in Seq(Answered) BY DEF IInv, Typed, PipesOK
<1> HIDE DEF Answered
<1>3. /\ responses' \in Seq(Answered) /\ Response \in Answered
      /\ responses' # <<>> => responses'[Len(responses')] = responses[Len(responses)]
      /\ responses' = <<>> => Response = responses[Len(responses)]
  BY <1>1, <1>2, TailKeepsLast DEF Response
<1>4. ~missed /\ took = <<>> =>
        /\ requests # <<>> => Latest(requests[Len(requests)])
        /\ requests = <<>> => Latest(responses[Len(responses)])
  BY <1>1 DEF IInv, AnswerAhead
<1> QED BY <1>1, <1>3, <1>4 DEF Answered

(* An answer that is thrown away is missed, if it was to the latest query. *)
LEMMA DropKeeps ==
  ASSUME IInv, Received, UNCHANGED <<ed, origin>>, missed' \in BOOLEAN, missed => missed',
         Response.id = asked /\ Response.prefix = ed.buffer => missed'
  PROVE  IInv'
<1>1. Typed' BY ReceivedOK DEF IInv, Typed, PipesOK
<1>2. AskedAbout' BY ReceivedOK DEF IInv, AskedAbout
<1>3. AcceptedFits' BY ReceivedOK DEF IInv, AcceptedFits, Fits, GhostExtends, Extending
<1>4. AnswerAhead'
  <2> SUFFICES ASSUME ~missed', took' = <<>>, phase' = "edit"
               PROVE  /\ requests' # <<>> => Latest(requests[Len(requests)])'
                      /\ requests' = <<>> /\ responses' # <<>> => Latest(responses[Len(responses)])'
                      /\ ~(requests' = <<>> /\ responses' = <<>>)
    BY DEF AnswerAhead
  <2>1. ~missed /\ took = <<>> /\ UNCHANGED <<requests, asked, ed>> BY ReceivedOK
  <2>2. ~Latest(Response) BY <2>1 DEF Latest
  <2>3. /\ requests # <<>> => Latest(requests[Len(requests)])
        /\ requests = <<>> /\ responses' # <<>> => Latest(responses'[Len(responses')])
        /\ requests = <<>> /\ responses' = <<>> => Latest(Response)
    BY <2>1, ReceivedOK
  <2> QED BY <2>1, <2>2, <2>3 DEF Latest
<1> QED BY <1>1, <1>2, <1>3, <1>4 DEF IInv

LEMMA DiscardKeeps == ASSUME IInv, Discard PROVE IInv'
<1>1. missed \in BOOLEAN BY DEF IInv, Typed, PipesOK
<1>2. missed' = (missed \/ Response.id = asked) /\ Received /\ UNCHANGED <<ed, origin>> BY DEF Discard
<1> QED BY <1>1, <1>2, DropKeeps

LEMMA DropStaleKeeps == ASSUME IInv, DropStale PROVE IInv'
<1>1. missed \in BOOLEAN BY DEF IInv, Typed, PipesOK
<1>2. /\ missed' = (missed \/ (Response.id = asked /\ Response.raws = Null))
      /\ Received /\ UNCHANGED <<ed, origin>> /\ ~(Response.raws # Null /\ Response.prefix = ed.buffer)
  BY DEF DropStale, Current
<1> QED BY <1>1, <1>2, DropKeeps

(* What is applied extends the buffer. *)
LEMMA ApplyShows ==
  ASSUME IInv, Apply
  PROVE  /\ EditorOK(ed') /\ ed'.buffer = ed.buffer /\ ed'.sent = ed.sent /\ Shows(ed')
         /\ ed.post = Foreign => ed'.post = Foreign \/ (ed'.display # <<>> /\ ed'.post = ed'.display)
<1> DEFINE raws == Response.raws
           I    == {i \in DOMAIN raws : Extends(raws[i], ed.buffer)}
           fit  == Picked(raws, I)
           e    == [ed EXCEPT !.candidates = fit]
<1>1. EditorOK(ed) /\ ed \in Editor /\ ed.buffer \in Line BY DEF IInv, Typed, EditorOK, Editor
<1>2. raws \in Seq(Line)
  <2>1. Received /\ raws # Null BY DEF Apply, Current
  <2>2. raws \in Answers BY <2>1, ReceivedOK
  <2>3. raws \in Seq(Line \ {<<>>}) BY <2>2, ShellAssumption
  <2> HIDE DEF raws
  <2> QED BY <2>3, SeqMonotonic
<1>3. ed' = IF fit # <<>> THEN ShowCandidate(e, 1) ELSE Cleared(ed) BY DEF Apply
<1> HIDE DEF raws
<1>4. fit \in Seq(Line) /\ \A j \in 1..Len(fit) : \E i \in 1..Len(raws) : i \in I /\ fit[j] = raws[i]
  <2> HIDE DEF I
  <2>1. fit \in Seq(Line) BY <1>2, PickedSeq
  <2>2. \A j \in 1..Len(fit) : \E i \in 1..Len(raws) : i \in I /\ fit[j] = raws[i] BY <1>2, PickedFrom
  <2> QED BY <2>1, <2>2
<1>5. \A j \in 1..Len(fit) : Extends(fit[j], ed.buffer) /\ fit[j] \in Line
  BY <1>2, <1>4
<1> HIDE DEF fit
<1>6. CASE fit # <<>>
  <2>1. Len(fit) \in Nat /\ Len(fit) # 0 BY <1>4, <1>6, EmptySeq
  <2>2. EditorOK([e EXCEPT !.idx = 1]) /\ e.candidates = fit /\ e.buffer = ed.buffer /\ e.sent = ed.sent
    <3>1. e \in Editor /\ e.candidates = fit /\ e.buffer = ed.buffer /\ e.sent = ed.sent
          /\ (e.suggestion = <<>> => e.display = <<>>)
      BY <1>1, <1>4 DEF EditorOK, Editor
    <3> HIDE DEF e
    <3>2. /\ [e EXCEPT !.idx = 1] \in Editor /\ [e EXCEPT !.idx = 1].idx = 1
          /\ [e EXCEPT !.idx = 1].candidates = fit
      BY <3>1 DEF Editor
    <3>3. [e EXCEPT !.idx = 1].suggestion = <<>> => [e EXCEPT !.idx = 1].display = <<>>
      BY <3>1 DEF Editor
    <3>4. 1 <= Len(fit) BY <2>1
    <3> QED BY <1>6, <3>1, <3>2, <3>3, <3>4 DEF EditorOK
  <2> DEFINE m == [e EXCEPT !.idx = 1]  v == ShowCandidate(m, 1)
  <2>3. ShowCandidate(e, 1) = v BY <1>1 DEF ShowCandidate, Editor
  <2>4. m.candidates = fit /\ m.buffer = ed.buffer /\ m.sent = ed.sent BY <2>2
  <2>5. ed' = v BY <1>3, <1>6, <2>3
  <2> HIDE DEF e, m
  <2>6. EditorOK(m) BY <2>2 DEF m
  <2>7. /\ EditorOK(v) /\ v.buffer = m.buffer /\ v.sent = m.sent /\ v.candidates = m.candidates
        /\ v.suggestion = m.candidates[1] /\ v.display = Rest(m.candidates[1], m.buffer)
        /\ v.post = v.display
    BY <2>1, <2>4, <2>6, ShownOK
  <2> HIDE DEF v
  <2>8. Extends(fit[1], ed.buffer) /\ fit[1] \in Line BY <1>5, <2>1
  <2>9. fit[1] = ed.buffer \o v.display /\ v.display # <<>>
    <3>1. v.display = Rest(fit[1], ed.buffer) BY <2>4, <2>7
    <3>2. IsPrefix(ed.buffer, fit[1]) /\ IsStrictPrefix(ed.buffer, fit[1])
      BY <2>8 DEF Extends, IsStrictPrefix
    <3> DEFINE c == fit[1]  b == ed.buffer
    <3>3. c \in Line /\ b \in Line /\ IsPrefix(b, c) /\ IsStrictPrefix(b, c) BY <1>1, <2>8, <3>2
    <3> HIDE DEF c, b
    <3>4. c = b \o Rest(c, b) /\ Rest(c, b) # <<>> BY <3>3, RestIs
    <3> QED BY <3>1, <3>4 DEF c, b
  <2> QED BY <1>5, <2>4, <2>5, <2>7, <2>9 DEF Shows
<1>7. CASE fit = <<>>
  <2>1. ed' = Cleared(ed) BY <1>3, <1>7
  <2>2. /\ EditorOK(ed') /\ ed'.buffer = ed.buffer /\ ed'.sent = ed.sent /\ ed'.candidates = <<>>
        /\ ed'.display = <<>> /\ (ed.post = Foreign => ed'.post = Foreign)
    BY <1>1, <2>1, ClearedOK
  <2>3. Len(ed'.candidates) = 0 BY <2>2, EmptySeq
  <2>4. \A i \in 1..Len(ed'.candidates) : FALSE BY <2>3
  <2> QED BY <2>2, <2>4 DEF Shows
<1> QED BY <1>6, <1>7

LEMMA ApplyKeeps == ASSUME IInv, Apply PROVE IInv'
<1>1. Received /\ origin' = Response.id /\ UNCHANGED missed BY DEF Apply
<1>2. EditorOK(ed') /\ ed'.buffer = ed.buffer /\ ed'.sent = ed.sent /\ Shows(ed') BY ApplyShows
<1>3. origin' \in Nat BY <1>1, ReceivedOK
<1>4. Typed' BY <1>1, <1>2, <1>3, ReceivedOK DEF IInv, Typed, PipesOK
<1>5. Fits' BY <1>2 DEF Fits, Shows, GhostExtends, Extending
<1>6. AskedAbout' BY <1>1, <1>2, ReceivedOK DEF IInv, AskedAbout
<1>7. AcceptedFits' BY <1>1, <1>2, <1>5, ReceivedOK DEF IInv, AcceptedFits
<1>8. AnswerAhead'
  <2> SUFFICES ASSUME ~missed', took' = <<>>, phase' = "edit"
               PROVE  /\ requests' # <<>> => Latest(requests[Len(requests)])'
                      /\ requests' = <<>> /\ responses' # <<>> => Latest(responses[Len(responses)])'
                      /\ requests' = <<>> /\ responses' = <<>> => origin' = asked'
    BY <1>5 DEF AnswerAhead
  <2>1. ~missed /\ took = <<>> /\ UNCHANGED <<requests, asked>> BY <1>1, ReceivedOK
  <2>2. /\ requests # <<>> => Latest(requests[Len(requests)])
        /\ requests = <<>> /\ responses' # <<>> => Latest(responses'[Len(responses')])
        /\ requests = <<>> /\ responses' = <<>> => Latest(Response)
    BY <1>1, <2>1, ReceivedOK
  <2> QED BY <1>1, <1>2, <2>1, <2>2 DEF Latest
<1> QED BY <1>4, <1>6, <1>7, <1>8 DEF IInv

LEMMA DieKeeps == ASSUME IInv, Die PROVE IInv'
<1>1. /\ coproc' = "dead" /\ requests' = <<>> /\ missed' = (missed \/ requests # <<>>)
      /\ faults < MaxFaults /\ faults' = faults + 1
      /\ UNCHANGED <<phase, ed, prev, lastShown, responses, asked, origin, took, keys>>
  BY DEF Die
<1>2. Typed'
  <2>1. <<>> \in Seq([prefix : Line, id : Nat]) BY EmptySeq
  <2>2. faults' \in 0..MaxFaults BY <1>1, ShellAssumption DEF IInv, Typed, PipesOK
  <2>3. missed' \in BOOLEAN BY <1>1
  <2> QED BY <1>1, <2>1, <2>2, <2>3 DEF IInv, Typed, PipesOK
<1>3. AskedAbout' /\ AcceptedFits'
  BY <1>1 DEF IInv, AskedAbout, AcceptedFits, Fits, GhostExtends, Extending
<1>4. Fits => Fits' BY <1>1 DEF Fits, GhostExtends, Extending
<1>5. AnswerAhead' BY <1>1, <1>4 DEF IInv, AnswerAhead, Latest
<1> QED BY <1>2, <1>3, <1>5 DEF IInv

LEMMA EofKeeps == ASSUME IInv, Eof \/ UNCHANGED vars PROVE IInv'
<1>1. /\ UNCHANGED <<phase, ed, prev, lastShown, requests, responses, asked, origin, missed, took, keys, faults>>
      /\ coproc' = coproc \/ (coproc = "dead" /\ coproc' = "none")
  BY DEF Eof, vars, pipe, past, bounds
<1>2. Typed' BY <1>1 DEF IInv, Typed, PipesOK
<1>3. AskedAbout' /\ AcceptedFits'
  BY <1>1 DEF IInv, AskedAbout, AcceptedFits, Fits, GhostExtends, Extending
<1>4. Fits => Fits' BY <1>1 DEF Fits, GhostExtends, Extending
<1>5. AnswerAhead' BY <1>1, <1>4 DEF IInv, AnswerAhead, Latest
<1> QED BY <1>2, <1>3, <1>5 DEF IInv

-----------------------------------------------------------------------------
LEMMA InitInv == Init => IInv
<1> SUFFICES ASSUME Init PROVE IInv
  OBVIOUS
<1>1. <<>> \in Line /\ <<>> \in Seq(Line) /\ Len(<<>>) = 0 BY DEF Line
<1>2. EditorOK(ed) BY <1>1 DEF Init, EditorOK, Editor
<1>3. PipesOK
  <2>1. missed \in BOOLEAN BY DEF Init
  <2>2. /\ requests \in Seq([prefix : Line, id : Nat])
        /\ responses \in Seq([prefix : Line, id : Nat, raws : Answers \cup {Null}])
    BY EmptySeq DEF Init
  <2>3. asked \in Nat /\ origin \in Nat /\ faults \in 0..MaxFaults BY ShellAssumption DEF Init
  <2> QED BY <2>1, <2>2, <2>3 DEF Init, PipesOK
<1>4. Typed BY <1>1, <1>2, <1>3, ShellAssumption DEF Init, Typed
<1>5. AskedAbout /\ AnswerAhead /\ AcceptedFits BY DEF Init, AskedAbout, AnswerAhead, AcceptedFits
<1> QED BY <1>4, <1>5 DEF IInv

LEMMA NextInv == ASSUME IInv, [Next]_vars PROVE IInv'
<1>1. ASSUME NEW c \in Chars, Type(c) PROVE IInv' BY <1>1, TypeKeeps
<1>2. ASSUME NEW next \in BOOLEAN, Cycle(next) PROVE IInv' BY <1>2, CycleKeeps
<1>3. CASE Erase BY <1>3, EraseKeeps
<1>4. CASE MoveCursor BY <1>4, MoveCursorKeeps
<1>5. CASE Accept BY <1>5, AcceptKeeps
<1>6. CASE Navigate BY <1>6, NavigateKeeps
<1>7. CASE ForeignPaints BY <1>7, ForeignPaintsKeeps
<1>8. CASE Enter BY <1>8, EnterKeeps
<1>9. CASE Prompt BY <1>9, PromptKeeps
<1>10. CASE Serve BY <1>10, ServeKeeps
<1>11. CASE Die BY <1>11, DieKeeps
<1>12. CASE Discard BY <1>12, DiscardKeeps
<1>13. CASE DropStale BY <1>13, DropStaleKeeps
<1>14. CASE Apply BY <1>14, ApplyKeeps
<1>15. CASE Eof \/ UNCHANGED vars BY <1>15, EofKeeps
<1> QED
  BY <1>1, <1>2, <1>3, <1>4, <1>5, <1>6, <1>7, <1>8, <1>9, <1>10, <1>11, <1>12, <1>13, <1>14, <1>15
  DEF Next, Handle

LEMMA AlwaysInv == Spec => []IInv
<1>1. Init => IInv BY InitInv
<1>2. IInv /\ [Next]_vars => IInv' BY NextInv
<1> QED BY <1>1, <1>2, PTL DEF Spec

(* Every variable has its type, the cycle index is that of a candidate, and nothing is
   on its way to a co-process that is not there. *)
THEOREM TypeTheorem == Spec => []TypeOK
<1>1. IInv => TypeOK BY DEF IInv, Typed, TypeOK, EditorOK, PipesOK
<1> QED BY <1>1, AlwaysInv, PTL

(* Whatever is typed, cycled through, navigated to and accepted while answers are on
   their way: when the pipes are empty again, the screen shows what the answer to the
   last query has to show. *)
THEOREM SettlesTheorem == Spec => []GhostSettles
<1>1. IInv => GhostSettles
  <2> SUFFICES ASSUME IInv, phase = "edit", requests = <<>>, responses = <<>>, ~missed
               PROVE  /\ GhostExtends /\ Extending(ed.candidates)
                      /\ took = <<>> => origin = asked
    BY DEF GhostSettles
  <2>1. CASE took = <<>> BY <2>1 DEF IInv, AnswerAhead, Fits
  <2>2. CASE took # <<>> BY <2>2 DEF IInv, AcceptedFits, Fits
  <2> QED BY <2>1, <2>2
<1> QED BY <1>1, AlwaysInv, PTL

(* What AnswerArrives needs besides fairness: the latest query is never lost, whatever is
   typed and whenever the co-process dies. *)
THEOREM KeptTheorem == Spec => []QueryKept
<1>1. IInv => QueryKept
  <2> SUFFICES ASSUME IInv, phase = "edit", ~missed, took = <<>>
               PROVE  \/ requests = <<>> /\ responses = <<>> /\ origin = asked
                      \/ requests = <<>> /\ responses # <<>> /\ Latest(Last(responses))
                      \/ requests # <<>> /\ coproc = "up" /\ Latest(Last(requests))
    BY DEF QueryKept, Latest
  <2>1. requests # <<>> => coproc = "up" BY DEF IInv, Typed, PipesOK
  <2> QED BY <2>1 DEF IInv, AnswerAhead, Last
<1> QED BY <1>1, AlwaysInv, PTL

(* Another plugin's text stays until hunch paints its own over it. *)
THEOREM ForeignTheorem == Spec => ForeignKept
<1> DEFINE Kept == ed'.post = Foreign \/ (ed'.display # <<>> /\ ed'.post = ed'.display)
<1>1. ASSUME IInv, [Next]_vars, ed.post = Foreign, phase = "edit", phase' = "edit" PROVE Kept
  <2>1. ed \in Editor /\ EditorOK(ed) /\ PipesOK /\ ed.display # Foreign
    BY <1>1, ShellAssumption DEF IInv, Typed, EditorOK, Editor
  <2>2. ASSUME NEW c \in Chars, Type(c) PROVE Kept
    <3> DEFINE b == IF ed.atEnd THEN Append(ed.buffer, c) ELSE <<c>> \o ed.buffer
               e == [ed EXCEPT !.buffer = b]
    <3>1. ed.buffer \in Seq(Chars) BY <2>1 DEF Editor, Line
    <3>2. b \in Line BY <3>1 DEF Line
    <3>3. Redraw(e) BY <2>2 DEF Type
    <3> HIDE DEF b
    <3>4. EditorOK(e) /\ e.post = Foreign BY <1>1, <2>1, <3>2 DEF EditorOK, Editor
    <3> HIDE DEF e
    <3> QED BY <2>1, <3>3, <3>4, RedrawOK
  <2>3. CASE Erase
    <3>1. PICK b \in {Front(ed.buffer), <<>>} : Redraw([ed EXCEPT !.buffer = b])
      BY <2>3 DEF Erase
    <3> DEFINE e == [ed EXCEPT !.buffer = b]
    <3>2. ed.buffer \in Seq(Chars) /\ ed.buffer # <<>> BY <2>1, <2>3 DEF Editor, Line, Erase
    <3>3. Front(ed.buffer) \in Line
      BY <3>2, EmptySeq, SubSeqProperties DEF Front, Line
    <3>4. b \in Line BY <3>3, EmptySeq DEF Line
    <3>5. EditorOK(e) /\ e.post = Foreign BY <1>1, <2>1, <3>4 DEF EditorOK, Editor
    <3> HIDE DEF e
    <3> QED BY <2>1, <3>1, <3>5, RedrawOK DEF e
  <2>4. CASE MoveCursor
    <3> DEFINE e == [ed EXCEPT !.atEnd = ~@]
    <3>1. EditorOK(e) /\ e.post = Foreign BY <1>1, <2>1 DEF EditorOK, Editor
    <3>2. Redraw(e) BY <2>4 DEF MoveCursor
    <3> HIDE DEF e
    <3> QED BY <2>1, <3>1, <3>2, RedrawOK
  <2>5. ~Accept /\ \A next \in BOOLEAN : ~Cycle(next)
    BY <1>1, <2>1 DEF Accept, Cycle, OwnsSuggestion
  <2>6. CASE Navigate
    <3>1. PICK b \in {prev[1], prev[2], <<>>} :
            Redraw([Cleared(ed) EXCEPT !.sent = Unsent, !.buffer = b, !.atEnd = TRUE])
      BY <2>6 DEF Navigate
    <3> DEFINE c == Cleared(ed)  e == [c EXCEPT !.sent = Unsent, !.buffer = b, !.atEnd = TRUE]
    <3>2. b \in Line
      <4>1. prev[1] \in Line /\ prev[2] \in Line BY <1>1 DEF IInv, Typed
      <4> QED BY <4>1, EmptySeq DEF Line
    <3>3. EditorOK(c) /\ c.post = Foreign BY <1>1, <2>1, ClearedOK
    <3>4. Redraw(e) BY <3>1
    <3> HIDE DEF c
    <3>5. EditorOK(e) /\ e.post = Foreign BY <3>2, <3>3 DEF EditorOK, Editor
    <3> HIDE DEF e
    <3> QED BY <2>1, <3>4, <3>5, RedrawOK
  <2>7. CASE ForeignPaints BY <2>1, <2>7 DEF ForeignPaints, Editor
  <2>8. ~Enter /\ ~Prompt BY <1>1 DEF Enter, Prompt
  <2>9. CASE Serve \/ Discard \/ DropStale \/ Die \/ Eof \/ UNCHANGED vars
    BY <1>1, <2>9 DEF Serve, Discard, DropStale, Die, Eof, vars
  <2>10. CASE Apply BY <1>1, <2>10, ApplyShows
  <2> QED
    BY <1>1, <2>2, <2>3, <2>4, <2>5, <2>6, <2>7, <2>8, <2>9, <2>10 DEF Next, Handle
<1>2. IInv /\ [Next]_vars => [ed.post = Foreign /\ phase' = "edit" /\ phase = "edit" => Kept]_vars
  BY <1>1
<1> QED BY <1>2, AlwaysInv, PTL DEF Spec, ForeignKept

(* What an accept key inserts was on the screen, and is hunch's. *)
THEOREM AcceptTheorem == Spec => AcceptsWhatIsShown
<1>1. ASSUME IInv, [Next]_vars, took' # took, took' # <<>>
      PROVE  ed.atEnd /\ ed.post # Foreign /\ ed'.buffer = ed.buffer \o ed.post
  <2>1. Accept
    BY <1>1 DEF Next, Handle, Type, Cycle, Erase, MoveCursor, Navigate, ForeignPaints, Enter, Prompt,
                Serve, Received, Discard, DropStale, Apply, Eof, Die, vars
  <2>2. ed.display # Foreign BY <1>1, ShellAssumption DEF IInv, Typed, EditorOK, Editor
  <2> QED BY <1>1, <2>1, <2>2, AcceptKeeps
<1>2. IInv /\ [Next]_vars =>
        [took' # took /\ took' # <<>> =>
           ed.atEnd /\ ed.post # Foreign /\ ed'.buffer = ed.buffer \o ed.post]_vars
  BY <1>1
<1> QED BY <1>2, AlwaysInv, PTL DEF Spec, AcceptsWhatIsShown
================================================================================
